---------------------------- MODULE SemanticReview ----------------------------
(***************************************************************************)
(* What the SUMO semantic review makes of its inputs: the queue of cases,  *)
(* the model's answer, the trace of the one call, the review of the answer *)
(* and the governed crosswalk.  A proposal is named by the quote it cites, *)
(* with which its field, rationale and disposition travel.  The digest of  *)
(* an artifact is the artifact.                                            *)
(***************************************************************************)
EXTENDS Integers, FiniteSets, Sequences

CONSTANTS
    Cases,         \* the role candidates of the structural audit
    Keys,          \* the identities a model's answer may carry: cases and others
    PredicateOf,   \* the donor predicate of a key
    CaseRank,      \* CaseRank[c]: where the id of the case is in the order of the queue
    PredicateRank, \* PredicateRank[p]: where the id of the predicate is among predicates
    Quotes,        \* the texts that occur once in some evidence field
    Models,        \* names of models and of reviewers
    Donors,        \* the states of the donor database
    Reports,       \* audit reports
    Checkouts,     \* PropBank checkouts at the pinned commit
    Roots,         \* run roots; a root names its trace
    NoText, NoResponse, NoModel

(* A donor describes some predicates; a checkout has zero or more roles    *)
(* for the argument of a case, in the order of its files, and is edited or *)
(* not.                                                                    *)
DonorSet == UNION {[C -> SUBSET Quotes] : C \in SUBSET Cases}
RoleText == [quotes : SUBSET Quotes, described : BOOLEAN]
CheckoutSet == [roles : [Cases -> Seq(RoleText)], intact : BOOLEAN]

(* The report names the donor it audited, the roles it found in conflict   *)
(* and those of them that are no agents, no entities or no numbered ARGs.  *)
ReportSet == [donor : Donors, conflicts : SUBSET Cases, foreign : SUBSET Cases]

ASSUME ReviewConstants ==
    /\ IsFiniteSet(Keys) /\ Cases \subseteq Keys
    /\ PredicateOf \in [Keys -> {PredicateOf[k] : k \in Keys}]
    /\ CaseRank \in [Cases -> Nat] /\ \A c, d \in Cases : CaseRank[c] = CaseRank[d] => c = d
    /\ PredicateRank \in [{PredicateOf[k] : k \in Keys} -> Nat]
    /\ NoText \notin Quotes
    /\ Donors \subseteq DonorSet /\ Checkouts \subseteq CheckoutSet
    /\ Reports \subseteq ReportSet
    /\ NoModel \notin Models

(***************************************************************************)
(* The queue.                                                              *)
(***************************************************************************)
Statuses == {"exact_current_source", "source_window_not_supplied", "conflicting_supplied_source"}

Evidence == [status : Statuses, quotes : SUBSET Quotes, described : BOOLEAN]

Described(donor) == DOMAIN donor = Cases

(* Exactly one role of the supplied files resolves a case. *)
EvidenceOf(c, donor, checkout) ==
    LET found == checkout.roles[c]
    IN  IF Len(found) = 1
        THEN [status    |-> "exact_current_source",
              quotes    |-> donor[c] \cup found[1].quotes,
              described |-> found[1].described]
        ELSE [status    |-> IF found = <<>> THEN "source_window_not_supplied"
                                            ELSE "conflicting_supplied_source",
              quotes    |-> donor[c], described |-> FALSE]

(* The digest of the cases is the queue's content, the queue its identity. *)
QueueOf(report, donor, checkout) ==
    [report |-> report, checkout |-> checkout,
     cases  |-> [c \in report.conflicts |-> EvidenceOf(c, donor, checkout)]]

Queue ==
    [report : Reports, checkout : Checkouts, cases : UNION {[C -> Evidence] : C \in SUBSET Cases}]

Exact(cases) == {c \in DOMAIN cases : cases[c].status = "exact_current_source"}

Predicates(keys) == {PredicateOf[k] : k \in keys}

(* What is asked needs all three texts of every exact case.  The schema of *)
(* the answer takes the cases in the order of the queue, which sorts       *)
(* predicate:label, and needs their predicates to be sorted and distinct:  *)
(* an id that another extends by a digit comes after that one here.        *)
Askable(cases) == Exact(cases) # {} /\ \A c \in Exact(cases) : cases[c].described
Contractable(cases) ==
    \A c, d \in Exact(cases) :
        CaseRank[c] < CaseRank[d] => PredicateRank[PredicateOf[c]] < PredicateRank[PredicateOf[d]]

(***************************************************************************)
(* The call and its trace.                                                 *)
(***************************************************************************)

(* What the schema of n cases lets through: as many answers, to any keys   *)
(* of their predicates, and the two controls.                              *)
Response ==
    [answers : UNION {[K -> Quotes] : K \in SUBSET Keys}, controls : BOOLEAN]

Schema(cases) ==
    {r \in Response : /\ Cardinality(DOMAIN r.answers) = Cardinality(Exact(cases))
                      /\ Predicates(DOMAIN r.answers) \subseteq Predicates(Exact(cases))}

Lifecycles == {"proposal_generated", "proposal_generated_controls_failed",
               "provider_or_schema_failed", "evidence_validation_failed"}

NoProposals == [c \in {} |-> NoText]

Trace ==
    [id        : Roots,
     lifecycle : Lifecycles,
     cases     : UNION {[C -> Evidence] : C \in SUBSET Cases},
     eligible  : SUBSET Cases,
     withheld  : SUBSET Cases,
     batch     : Response \cup {NoResponse},
     raw       : Response \cup {NoResponse},
     compiled  : UNION {[K -> Quotes] : K \in SUBSET Keys},
     passed    : BOOLEAN,
     model     : Models \cup {NoModel}]

Covers(cases, batch) == DOMAIN batch.answers = Exact(cases)
Grounded(cases, batch) ==
    \A c \in DOMAIN batch.answers : batch.answers[c] \in cases[c].quotes

(* compile_sumo_semantic_proposals_v1: coverage first, then each quote. *)
Compiles(cases, batch) == Covers(cases, batch) /\ Grounded(cases, batch)

TraceBase(root, cases, lifecycle) ==
    [id |-> root, lifecycle |-> lifecycle, cases |-> cases,
     eligible |-> Exact(cases), withheld |-> DOMAIN cases \ Exact(cases),
     batch |-> NoResponse, raw |-> NoResponse, compiled |-> NoProposals,
     passed |-> FALSE, model |-> NoModel]

(* A failed call filed with the missing response for its model. *)
FailureTraceMisfiled(root, cases) ==
    [TraceBase(root, cases, "provider_or_schema_failed") EXCEPT !.model = NoResponse]

(* The text of a failed call is kept too, but nothing is made of it. *)
FailureTrace(root, cases) == TraceBase(root, cases, "provider_or_schema_failed")

(* A trace that counts an answer with failed controls a success. *)
AnswerTraceUncontrolled(root, cases, batch, raw, model) ==
    LET base == TraceBase(root, cases, "proposal_generated")
    IN  [base EXCEPT !.batch = batch, !.raw = raw, !.model = model,
             !.compiled = IF Compiles(cases, batch) THEN batch.answers ELSE NoProposals,
             !.passed = Compiles(cases, batch) /\ batch.controls]

AnswerTrace(root, cases, batch, raw, model) ==
    LET base == TraceBase(root, cases,
                    IF ~Compiles(cases, batch) THEN "evidence_validation_failed"
                    ELSE IF batch.controls THEN "proposal_generated"
                    ELSE "proposal_generated_controls_failed")
    IN  [base EXCEPT !.batch = batch, !.raw = raw, !.model = model,
             !.compiled = IF Compiles(cases, batch) THEN batch.answers ELSE NoProposals,
             !.passed = Compiles(cases, batch) /\ batch.controls]

(* The validator of a trace, run when it is made and whenever it is read. *)
TerminalConsistent(t) ==
    /\ t.lifecycle = "provider_or_schema_failed" =>
           t.batch = NoResponse /\ t.compiled = NoProposals /\ ~t.passed
    /\ t.lifecycle = "evidence_validation_failed" =>
           t.batch # NoResponse /\ t.compiled = NoProposals /\ ~t.passed
    /\ t.lifecycle \in {"proposal_generated", "proposal_generated_controls_failed"} =>
           /\ t.batch # NoResponse /\ DOMAIN t.compiled # {}
           /\ Cardinality(DOMAIN t.compiled) = Cardinality(DOMAIN t.batch.answers)
           /\ t.passed <=> t.lifecycle = "proposal_generated"

(* verify_sumo_semantic_proposal_trace_v1: the trace replays from the raw  *)
(* response and the queue.                                                 *)
Verified(queue, t) ==
    /\ t.cases = queue.cases
    /\ t.eligible = Exact(queue.cases)
    /\ t.withheld = DOMAIN queue.cases \ Exact(queue.cases)
    /\ t.lifecycle = "proposal_generated"
    /\ t.raw # NoResponse /\ t.batch # NoResponse
    /\ t.raw = t.batch
    /\ Compiles(queue.cases, t.raw)
    /\ t.compiled = t.raw.answers /\ t.passed = t.raw.controls

(***************************************************************************)
(* The review and the governed crosswalk.                                  *)
(***************************************************************************)
Decision == [state : {"rejected", "unresolved"}, quote : Quotes]
Decisions == UNION {[C -> Decision] : C \in (SUBSET Cases) \ {{}}}

(* The batch holds the queue's identity, the trace and the document.       *)
Review(Documents) ==
    [queue : Queue, trace : Trace, document : Documents, reviewer : Models,
     decisions : Decisions]

Reviewable(queue, t) ==
    t.raw # NoResponse /\ t.model # NoModel /\ Verified(queue, t)

(* A compiler that lets a model review itself. *)
GovernableBySelf(queue, t, review) ==
    /\ t.lifecycle = "proposal_generated" /\ t.passed
    /\ review.queue = queue
    /\ review.trace = t

(* The checks of compile_governed_sumo_crosswalk_v1 before it reads the    *)
(* document: trace, queue and review are of each other.                    *)
Governable(queue, t, review) ==
    /\ t.lifecycle = "proposal_generated" /\ t.passed
    /\ review.queue = queue
    /\ review.trace = t
    /\ review.reviewer # t.model

(* And those after: the review decides every case that was asked, and      *)
(* reopens the quote of each proposal.                                     *)
Replays(queue, t, review) ==
    /\ Verified(queue, t)
    /\ DOMAIN t.compiled = Exact(queue.cases)
    /\ DOMAIN review.decisions = Exact(queue.cases)
    /\ \A c \in Exact(queue.cases) :
           /\ t.compiled[c] \in queue.cases[c].quotes
           /\ review.decisions[c].quote = t.compiled[c]

Record == [state : {"rejected", "unresolved"}, quote : Quotes \cup {NoText}]

Governed(Documents) ==
    [review : Review(Documents), records : UNION {[C -> Record] : C \in SUBSET Cases}]

GovernedOf(queue, t, review) ==
    [review  |-> review,
     records |-> [c \in DOMAIN queue.cases |->
                     IF c \in Exact(queue.cases)
                     THEN [state |-> review.decisions[c].state, quote |-> t.compiled[c]]
                     ELSE [state |-> "unresolved", quote |-> NoText]]]
=============================================================================
