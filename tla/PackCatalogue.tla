---------------------------- MODULE PackCatalogue ----------------------------
(* What the directory of packs promises to those who pin a version: a      *)
(* version is published once, whole, over a base that is there already,    *)
(* and never changes after.                                                *)
CONSTANTS Versions, Pack, NoPack, NoBase
VARIABLE packs

Init == packs = [v \in Versions |-> NoPack]

Publish(v) ==
    /\ packs[v] = NoPack
    /\ packs'[v] \in Pack
    /\ packs'[v].base # NoBase => packs[packs'[v].base] # NoPack
    /\ packs' = [packs EXCEPT ![v] = packs'[v]]

Next == \E v \in Versions : Publish(v)

Spec == Init /\ [][Next]_packs
=============================================================================
