---------------------------- MODULE MCOperations ----------------------------
(* Small instances of Operations. *)
EXTENDS Operations

CONSTANTS v1, v2

OneField == {[pub |-> v2, sec |-> Keep]}
IntrusionDetection == {{"ids_rules"}}
=============================================================================
