------------------------------ MODULE SumoLedger ------------------------------
(* What the SUMO review promises: a run root is asked once; a governed     *)
(* crosswalk is decided once, and says of each case the one thing that     *)
(* some root was answered, both controls passed, and that somebody other   *)
(* than the model that answered has reviewed; or else nothing.             *)
CONSTANTS Roots, Results, Unasked, Undecided, NoText
VARIABLES asked, decided

Init ==
    /\ asked = [r \in Roots |-> Unasked]
    /\ decided = [g \in Results |-> Undecided]

Ask(r) ==
    /\ asked[r] = Unasked /\ asked'[r] # Unasked
    /\ asked' = [asked EXCEPT ![r] = asked'[r]]
    /\ UNCHANGED decided

Says(record, case, answers) ==
    record.quote = IF case \in DOMAIN answers THEN answers[case] ELSE NoText

Follows(disposition, answer) ==
    /\ answer # Unasked /\ answer.response.controls
    /\ disposition.reviewer # answer.model
    /\ DOMAIN answer.response.answers \subseteq DOMAIN disposition.records
    /\ \A c \in DOMAIN disposition.records :
           Says(disposition.records[c], c, answer.response.answers)

Decide(g) ==
    /\ decided[g] = Undecided /\ decided'[g] # Undecided
    /\ Follows(decided'[g], asked[decided'[g].root])
    /\ decided' = [decided EXCEPT ![g] = decided'[g]]
    /\ UNCHANGED asked

Next == (\E r \in Roots : Ask(r)) \/ (\E g \in Results : Decide(g))

vars == <<asked, decided>>
Spec == Init /\ [][Next]_vars
=============================================================================
