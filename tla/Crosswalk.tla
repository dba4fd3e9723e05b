------------------------------ MODULE Crosswalk ------------------------------
(***************************************************************************)
(* The linguistic crosswalk: one record per donor mapping row, with review *)
(* records layered on top.  A crosswalk is immutable: every operation      *)
(* builds a new one, and building one runs the validators of the record    *)
(* and of the population, which may refuse it.                             *)
(*                                                                         *)
(* The counts and the content digest of the source are functions of the    *)
(* record population and are left out.  A record identifier, a hash of the *)
(* identity fields in the source, is here the pair of the source key and   *)
(* the row or case the record is about.                                    *)
(***************************************************************************)
EXTENDS Integers, FiniteSets, Functions

CONSTANTS
    Rows,        \* donor mapping rows, each named by its record_id
    Candidates,  \* the rows whose relation is "candidate_alignment"
    FrameNet,    \* the rows whose source_key is "framenet_candidate"
    SumoCases,   \* SUMO role cases with a governed review
    SumoState,   \* SumoState[c]: the retained disposition of case c
    Bases,       \* versions of the donor mapping file
    RowsOf,      \* RowsOf[b]: the rows of version b
    Refused      \* what a construction yields when a validator raises

Outcomes == {"rejected", "unresolved", "tentatively_verified"}
States == Outcomes \cup {"candidate", "verified"}
VerificationBases == {"none", "automated_two_pass_review"}
DonorReviewKey == "linguistic_donor_independent_review_v1"
SumoReviewKey == "sumo_governed_review_v1"
ReviewKeys == {SumoReviewKey, DonorReviewKey}
DonorKeys == {"framenet_candidate", "other_donor_key"}

RecordOf(keys, rows) ==
    [key : keys, row : rows, state : States, basis : VerificationBases]
Record ==
    RecordOf(DonorKeys \cup {DonorReviewKey}, Rows) \cup RecordOf({SumoReviewKey}, SumoCases)
CrosswalkSet == [base : Bases, records : SUBSET Record]

ASSUME CrosswalkConstants ==
    /\ Candidates \subseteq Rows
    /\ FrameNet \subseteq Rows
    /\ SumoState \in [SumoCases -> {"rejected", "unresolved"}]
    /\ RowsOf \in [Bases -> SUBSET Rows]
    /\ Refused \notin CrosswalkSet

RecordId(rec) == <<rec.key, rec.row>>

(* The record validator. *)
NonPromotional(rec) ==
    /\ rec.state # "verified"
    /\ rec.state = "tentatively_verified" <=> rec.basis = "automated_two_pass_review"
    /\ rec.key \in ReviewKeys => rec.state \in Outcomes

(* The population validator: no identifier occurs twice.  "added" is a     *)
(* function, so that one record listed under two arguments is a duplicate. *)
Closed(old, added) ==
    /\ IsInjective([i \in DOMAIN added |-> RecordId(added[i])])
    /\ \A i \in DOMAIN added, rec \in old : RecordId(added[i]) # RecordId(rec)

(* The crosswalk with the records "added" to those of an existing one. *)
Construct(base, old, added) ==
    IF Closed(old, added) /\ \A i \in DOMAIN added : NonPromotional(added[i])
    THEN [base |-> base, records |-> old \cup Range(added)]
    ELSE Refused

DonorRecord(r) ==
    [key   |-> IF r \in FrameNet THEN "framenet_candidate" ELSE "other_donor_key",
     row   |-> r,
     state |-> IF r \in Candidates THEN "candidate" ELSE "unresolved",
     basis |-> "none"]

SumoRecord(c) ==
    [key |-> SumoReviewKey, row |-> c, state |-> SumoState[c], basis |-> "none"]

ReviewRecord(result) ==
    [key   |-> DonorReviewKey,
     row   |-> result.row,
     state |-> result.outcome,
     basis |-> IF result.outcome = "tentatively_verified"
               THEN "automated_two_pass_review" ELSE "none"]

CompileMappings(b) == Construct(b, {}, [r \in RowsOf[b] |-> DonorRecord(r)])

AppendSumo(cw) == Construct(cw.base, cw.records, [c \in SumoCases |-> SumoRecord(c)])

(* Mutant of AppendReviewed: a review replaces the row under review. *)
AppendReplacing(cw, results) ==
    Construct(cw.base,
              {rec \in cw.records : \A i \in DOMAIN results : rec.row # results[i].row},
              [i \in DOMAIN results |-> ReviewRecord(results[i])])

(* "results": the two-pass results to append, indexed as they were saved. *)
AppendReviewed(cw, results) ==
    Construct(cw.base, cw.records, [i \in DOMAIN results |-> ReviewRecord(results[i])])

(* The crosswalk the compiler writes for one version of the mappings. *)
CompileCrosswalk(b) == AppendSumo(CompileMappings(b))

RowsWith(cw, key, states) ==
    {rec.row : rec \in {rec \in cw.records : rec.key = key /\ rec.state \in states}}

(* Mutant of Reviewable: rows that are no candidates are reviewed too. *)
ReviewableAll(cw) ==
    RowsWith(cw, "framenet_candidate", States) \ RowsWith(cw, DonorReviewKey, States)

(* The rows a reviewer may still take from a crosswalk. *)
Reviewable(cw) ==
    RowsWith(cw, "framenet_candidate", {"candidate"}) \ RowsWith(cw, DonorReviewKey, States)

(* The equation the coverage report demands of a crosswalk: it counts three *)
(* states, and the fourth one only through verified_count, the constant 0.  *)
InState(cw, s) == {rec \in cw.records : rec.state = s}

CoverageReconciles(cw) ==
    Cardinality(cw.records) = Cardinality(InState(cw, "candidate"))
        + Cardinality(InState(cw, "rejected")) + Cardinality(InState(cw, "unresolved"))
=============================================================================
