----------------------------- MODULE ReviewLedger -----------------------------
(***************************************************************************)
(* What the donor review promises, without runners, files or models: a     *)
(* ledger in which the outcome of a row is decided once and for all, and   *)
(* publications, each made once, of some of the outcomes decided so far.   *)
(***************************************************************************)
CONSTANTS Rows, Outcomes, Names, Undecided, Unpublished

VARIABLES
    decided,    \* decided[r]: the outcome of row r
    published   \* published[n]: the outcomes publication n holds

Init ==
    /\ decided = [r \in Rows |-> Undecided]
    /\ published = [n \in Names |-> Unpublished]

DecidedRows == {r \in Rows : decided[r] # Undecided}

Decide(r, outcome) ==
    /\ decided[r] = Undecided
    /\ decided' = [decided EXCEPT ![r] = outcome]
    /\ UNCHANGED published

Publish(n, S) ==
    /\ published[n] = Unpublished
    /\ published' = [published EXCEPT ![n] = [r \in S |-> decided[r]]]
    /\ UNCHANGED decided

Next ==
    \/ \E r \in Rows, outcome \in Outcomes : Decide(r, outcome)
    \/ \E n \in Names, S \in SUBSET DecidedRows : Publish(n, S)

Spec == Init /\ [][Next]_<<decided, published>>
=============================================================================
