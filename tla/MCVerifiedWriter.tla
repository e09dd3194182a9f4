------------------------- MODULE MCVerifiedWriter -------------------------
(* Small instances of VerifiedWriter. *)
EXTENDS VerifiedWriter, TLC

CONSTANTS n1, n2

PairAddresses == [n \in {n1, n2} |-> IF n = n1 THEN {"ip1"} ELSE {"ip2"}]

Silent == [to |-> "", items |-> {}]
To(a, items) == [to |-> a, items |-> items]

\* One-way from n1, the same with other sections, both ways, too wide.
PairHasync ==
    {[n \in {n1, n2} |-> IF n = n1 THEN To("ip2", s) ELSE Silent] :
        s \in {{"nat"}, {"nat", "rules"}, {"nat", "other"}}}
    \cup {[n \in {n1, n2} |-> IF n = n1 THEN To("ip2", {"nat"}) ELSE To("ip1", {"nat"})]}
SafeHasync ==
    {[n \in {n1, n2} |-> IF n = n1 THEN To("ip2", s) ELSE Silent] : s \in {{"nat"}, {"nat", "rules"}}}
NoHasync == {[n \in Nodes |-> Silent]}

Vips(s) == [v \in {"vip1", "vip2"} |-> IF v = "vip1" THEN s ELSE "none"]
Status(s) == [maintenance |-> FALSE, vips |-> Vips(s)]
MasterIs(m) == [n \in {n1, n2} |-> Status(IF n = m THEN "MASTER" ELSE "BACKUP")]
SplitBrain == [n \in {n1, n2} |-> Status("MASTER")]
PairCarp == {MasterIs(n1), MasterIs(n2)}
N1Carp == {MasterIs(n1), SplitBrain}

Symmetric == Permutations(Procs) \cup Permutations(Ids) \cup Permutations(Vals)
=============================================================================
