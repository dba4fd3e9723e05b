---------------------------- MODULE MCDonorReview ----------------------------
(* Instances of DonorReview for TLC. *)
EXTENDS DonorReview, TLC

CONSTANTS r1, r2, r3, r4, c1, b1, b2, m1, m2

MCSumoState == [c \in {c1} |-> "rejected"]

MCRank ==
    [r \in Rows |-> CASE r = r1 -> 1 [] r = r2 -> 2 [] r = r3 -> 3 [] r = r4 -> 4]

(* One version of the mappings with every row, or two that overlap in r2. *)
MCOneBase == [b \in {b1} |-> Rows]
MCTwoBases == [b \in {b1, b2} |-> IF b = b1 THEN {r1, r2} ELSE {r2, r3}]

MCTwoModels == {<<m1, m2>>}
MCAnyModels == {<<m1, m2>>, <<m1, m1>>}
=============================================================================
