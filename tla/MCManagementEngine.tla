------------------------ MODULE MCManagementEngine ------------------------
(* Small instances of ManagementEngine. *)
EXTENDS ManagementEngine, TLC

CONSTANTS v1, v2

\* One field named, the other left blank.
OneField == {[pub |-> v2, sec |-> Keep], [pub |-> Keep, sec |-> v2]}
\* All, one or none of the fields named.
Whole == {[pub |-> v1, sec |-> Keep], [pub |-> v2, sec |-> v2], [pub |-> Keep, sec |-> Keep]}

WireGuard == {{"wireguard_clients", "wireguard_general"}}
EachAlone == {{s} : s \in DOMAIN Resources}

=============================================================================
