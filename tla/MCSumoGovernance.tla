--------------------------- MODULE MCSumoGovernance ---------------------------
(* An instance of SumoGovernance for TLC. *)
EXTENDS SumoGovernance, TLC

CONSTANTS c1, c2, c3, run, carry, q1, q2, m1, m2, r1, b1, g1, d1, d2, p1, p2

(* c3 is a second role of the predicate of c1; c2 comes after both, as the *)
(* id of its predicate is extended by theirs.                              *)
Predicate == [c \in {c1, c2, c3} |-> IF c = c2 THEN carry ELSE run]
MCCaseRank == [c \in {c1, c2, c3} |-> IF c = c1 THEN 1 ELSE IF c = c3 THEN 2 ELSE 3]
MCPredicateRank == [p \in {run, carry} |-> IF p = carry THEN 1 ELSE 2]

First == [c \in {c1, c2, c3} |-> {q1}]
Undescribed == [c \in {c1, c3} |-> {q1}]
MCDonors == {First, Undescribed}

Report(donors, conflicts, foreign) ==
    [donor |-> donors, conflicts |-> conflicts, foreign |-> foreign]
MCReports == {Report(First, {c1, c2, c3}, {}), Report(Undescribed, {c1, c2}, {c2})}

(* A role found twice, if only in two files, is in conflict. *)
Role(quotes) == [quotes |-> quotes, described |-> TRUE]
Checkout(one, two, three, intact) ==
    [roles |-> [c \in {c1, c2, c3} |-> IF c = c1 THEN one ELSE IF c = c2 THEN two ELSE three],
     intact |-> intact]
Useful == Checkout(<<Role({q2})>>, <<>>, <<>>, TRUE)
Crowded == Checkout(<<Role({q2})>>, <<Role({q2})>>, <<Role({q2})>>, TRUE)
Conflicting == Checkout(<<Role({q2})>>, <<>>, <<Role({q2}), Role({q2})>>, TRUE)
Edited == [Conflicting EXCEPT !.intact = FALSE]
MCCheckouts == {Useful, Crowded, Edited}

MCOffered ==
    {[c \in {c1} |-> [state |-> "rejected", quote |-> q2]],
     [c \in {c1} |-> [state |-> "unresolved", quote |-> q1]]}

ProgramsAlike == Permutations({p1, p2})
=============================================================================
