----------------------------- MODULE DonorReview -----------------------------
(***************************************************************************)
(* The two-pass review of donor mapping rows: runners, each one invocation *)
(* of a command line program, that share a directory of crosswalk files, a *)
(* checkpoint file and a failures log.  A review run reads a crosswalk and *)
(* the checkpoint once, at its start; asks two models about each row it    *)
(* selected, one after the other; appends the result of a row to the       *)
(* checkpoint; and, when an output is named, reads the whole checkpoint    *)
(* again and writes the crosswalk with all its results appended.           *)
(*                                                                         *)
(* Nothing locks the shared files.  An output file is created exclusively  *)
(* ("xb") and filled afterwards; a checkpoint line is appended, and when   *)
(* TornWrites holds the append may stop half way.                          *)
(***************************************************************************)
EXTENDS Crosswalk, Sequences

CONSTANTS
    Runners,       \* concurrent invocations of the programs
    Names,         \* paths of crosswalk files
    Models,        \* the models a pass may be asked of
    ModelPairs,    \* the values of --models the operator may give
    Rank,          \* Rank[r]: the place of row r in the selection order
    Limit,         \* --limit: rows to review in one run
    Undescribed,   \* rows whose predicate or frame lacks a description
    Unanswerable,  \* rows no call of a model ever succeeds for
    MaxHiccups,    \* bound on the transient failures of a call
    MaxCrashes,    \* bound on the crashes of a runner
    TornWrites,    \* whether a crash may leave half a checkpoint line
    Absent, Partial, Garbage, NoOutput,
    Undecided, Unpublished

ASSUME DonorReviewConstants ==
    /\ ModelPairs \subseteq Models \X Models
    /\ Rank \in [Rows -> Int]
    /\ \A r, s \in Rows : Rank[r] = Rank[s] => r = s
    /\ Limit \in Nat /\ MaxHiccups \in Nat /\ MaxCrashes \in Nat
    /\ TornWrites \in BOOLEAN
    /\ Absent \notin CrosswalkSet /\ Partial \notin CrosswalkSet /\ Absent # Partial
    /\ NoOutput \notin Names
    /\ Undecided \notin Outcomes
    /\ {Partial, Garbage} \cap [row : Rows, outcome : Outcomes] = {}

VARIABLES
    artifacts,   \* artifacts[n]: the file at path n
    checkpoint,  \* the lines of the checkpoint file
    failed,      \* the rows the failures log names
    supports,    \* history: <<m, r>> once model m has supported row r
    run,         \* run[p]: the local state of runner p
    hiccups, crashes

vars == <<artifacts, checkpoint, failed, supports, run, hiccups, crashes>>

Verdicts == {"supports", "contradicts", "abstain"}
Exits == {"none", "ok", "refused", "checkpoint_invalid", "duplicate_review",
          "output_exists", "crashed"}

(* A saved line also holds the models, the passes and their cost, which    *)
(* nothing reads again.                                                    *)
Result == [row : Rows, outcome : Outcomes]

(* Half a line, alive at the end of the file until the next append runs    *)
(* into it and makes it one unparsable line.                               *)
Line == Result \cup {Partial, Garbage}

Idle == [pc : {"idle"}, exit : Exits]
Reviewing == [pc : {"reviewing"}, crosswalk : CrosswalkSet, output : Names \cup {NoOutput},
              models : Models \X Models, todo : SUBSET Rows, passes : Seq(Verdicts)]
Writing == [pc : {"writing"}, crosswalk : CrosswalkSet, output : Names]

Files == {n \in Names : artifacts[n] \in CrosswalkSet}
-----------------------------------------------------------------------------
Init ==
    /\ artifacts = [n \in Names |-> Absent]
    /\ checkpoint = <<>>
    /\ failed = {}
    /\ supports = {}
    /\ run = [p \in Runners |-> [pc |-> "idle", exit |-> "none"]]
    /\ hiccups = 0 /\ crashes = 0

Exit(p, reason) == run' = [run EXCEPT ![p] = [pc |-> "idle", exit |-> reason]]

(* Mutant of Create: the output is opened with "wb". *)
CreateTruncating(p, cw, output) ==
    /\ artifacts' = [artifacts EXCEPT ![output] = Partial]
    /\ run' = [run EXCEPT ![p] = [pc |-> "writing", crosswalk |-> cw, output |-> output]]

(* A file is created exclusively, and filled by a later step. *)
Create(p, cw, output) ==
    /\ artifacts[output] = Absent
    /\ artifacts' = [artifacts EXCEPT ![output] = Partial]
    /\ run' = [run EXCEPT ![p] = [pc |-> "writing", crosswalk |-> cw, output |-> output]]

Loadable == \A i \in DOMAIN checkpoint : checkpoint[i] \in Result
Checkpointed == {checkpoint[i].row : i \in {j \in DOMAIN checkpoint : checkpoint[j] \in Result}}

(* The first Limit rows of a set, in selection order. *)
Take(S) == {r \in S : Cardinality({s \in S : Rank[s] < Rank[r]}) < Limit}
First(S) == {r \in S : \A s \in S : Rank[r] <= Rank[s]}

(* Mutants of Selected: the checkpoint is not consulted, or only after the *)
(* slice.                                                                  *)
SelectedAgain(cw) == Take(Reviewable(cw))
SelectedLate(cw) == Take(Reviewable(cw)) \ Checkpointed

(* The rows a run is to review. *)
Selected(cw) == Take(Reviewable(cw) \ Checkpointed)

(* Mutants of Reconcile: one support is enough; the verdict two passes     *)
(* share is taken for the outcome.                                         *)
ReconcileEither(a, b) ==
    CASE "supports" \in {a, b} -> "tentatively_verified"
      [] "contradicts" \in {a, b} -> "rejected"
      [] OTHER -> "unresolved"
ReconcileShared(a, b) == IF a = b /\ a # "abstain" THEN a ELSE "unresolved"

Reconcile(a, b) ==
    CASE a = "supports" /\ b = "supports" -> "tentatively_verified"
      [] a = "contradicts" /\ b = "contradicts" -> "rejected"
      [] OTHER -> "unresolved"
-----------------------------------------------------------------------------
(* The compiler of a crosswalk from one version of the donor mappings. *)
Compile(p, b, output) ==
    /\ run[p].pc = "idle"
    /\ CompileCrosswalk(b) # Refused
    /\ Create(p, CompileCrosswalk(b), output)
    /\ UNCHANGED <<checkpoint, failed, supports, hiccups, crashes>>

(* The compiler refuses to replace what is there, finished or not. *)
CompileRefused(p, output) ==
    /\ run[p].pc = "idle"
    /\ artifacts[output] # Absent
    /\ Exit(p, "output_exists")
    /\ UNCHANGED <<artifacts, checkpoint, failed, supports, hiccups, crashes>>

(* A review run begins: crosswalk, checkpoint and selection are read once. *)
Start(p, input, output, models) ==
    LET cw == artifacts[input]
    IN  /\ run[p].pc = "idle"
        /\ input \in Files
        /\ Loadable
        /\ Reviewable(cw) \cap Undescribed = {}
        /\ run' = [run EXCEPT ![p] =
                     [pc |-> "reviewing", crosswalk |-> cw, output |-> output,
                      models |-> models, todo |-> Selected(cw),
                      passes |-> <<>>]]
        /\ UNCHANGED <<artifacts, checkpoint, failed, supports, hiccups, crashes>>

(* It ends at once over a file still being written, a checkpoint line that *)
(* does not parse or a row without a description.                          *)
StartRefused(p, input) ==
    /\ run[p].pc = "idle"
    /\ artifacts[input] # Absent
    /\ \/ artifacts[input] = Partial /\ Exit(p, "refused")
       \/ input \in Files /\ ~ Loadable /\ Exit(p, "checkpoint_invalid")
       \/ /\ input \in Files /\ Loadable
          /\ Reviewable(artifacts[input]) \cap Undescribed # {}
          /\ Exit(p, "refused")
    /\ UNCHANGED <<artifacts, checkpoint, failed, supports, hiccups, crashes>>

(* The runner is about to make a pass over the first row it has left. *)
AtPass(p, row) ==
    /\ run[p].pc = "reviewing"
    /\ row \in First(run[p].todo)
    /\ Len(run[p].passes) < 2

(* Mutant of ReviewPass: equal models are not refused. *)
ReviewPassAnyModels(p, row, verdict) ==
    /\ AtPass(p, row)
    /\ row \notin Unanswerable
    /\ supports' = IF verdict = "supports"
                   THEN supports \cup {<<run[p].models[Len(run[p].passes) + 1], row>>}
                   ELSE supports
    /\ run' = [run EXCEPT ![p].passes = Append(@, verdict)]
    /\ UNCHANGED <<artifacts, checkpoint, failed, hiccups, crashes>>

ReviewPass(p, row, verdict) ==
    LET model == run[p].models[Len(run[p].passes) + 1]
    IN  /\ AtPass(p, row)
        /\ run[p].models[1] # run[p].models[2]
        /\ row \notin Unanswerable
        /\ supports' = IF verdict = "supports" THEN supports \cup {<<model, row>>}
                       ELSE supports
        /\ run' = [run EXCEPT ![p].passes = Append(@, verdict)]
        /\ UNCHANGED <<artifacts, checkpoint, failed, hiccups, crashes>>

(* The runner has done with a row and turns to the next. *)
Leave(p, row) ==
    run' = [run EXCEPT ![p].todo = @ \ {row}, ![p].passes = <<>>]

(* Any exception of a row's review is logged, its passes are dropped and   *)
(* the run goes on with the next row.                                      *)
ReviewFails(p, row) ==
    /\ AtPass(p, row)
    /\ \/ run[p].models[1] = run[p].models[2] /\ UNCHANGED hiccups
       \/ row \in Unanswerable /\ UNCHANGED hiccups
       \/ hiccups < MaxHiccups /\ hiccups' = hiccups + 1
    /\ failed' = failed \cup {row}
    /\ Leave(p, row)
    /\ UNCHANGED <<artifacts, checkpoint, supports, crashes>>

Torn == checkpoint # <<>> /\ checkpoint[Len(checkpoint)] = Partial

(* Mutants of Written: the file is opened with "w"; a line is written      *)
(* without its newline, so that the next one runs into it.                 *)
WrittenOver(line) == <<line>>
WrittenUnterminated(line) ==
    IF checkpoint = <<>> THEN <<line>>
    ELSE [checkpoint EXCEPT ![Len(checkpoint)] = Garbage]

(* What the file holds once "line" is written at its end. *)
Written(line) ==
    IF Torn THEN [checkpoint EXCEPT ![Len(checkpoint)] = Garbage]
    ELSE Append(checkpoint, line)

BothPassesMade(p) ==
    /\ run[p].pc = "reviewing"
    /\ Len(run[p].passes) = 2

AppendCheckpoint(p, row) ==
    /\ BothPassesMade(p)
    /\ row \in First(run[p].todo)
    /\ checkpoint' = Written([row |-> row,
                              outcome |-> Reconcile(run[p].passes[1], run[p].passes[2])])
    /\ Leave(p, row)
    /\ UNCHANGED <<artifacts, failed, supports, hiccups, crashes>>
-----------------------------------------------------------------------------
(* The end of the batch: the checkpoint is read again, as it now is. *)
AtEnd(p) ==
    /\ run[p].pc = "reviewing"
    /\ run[p].todo = {}

Updated(p) == AppendReviewed(run[p].crosswalk, checkpoint)

Finish(p) ==
    /\ AtEnd(p)
    /\ Loadable
    /\ run[p].output = NoOutput
    /\ Exit(p, "ok")
    /\ UNCHANGED <<artifacts, checkpoint, failed, supports, hiccups, crashes>>

OpenOutput(p) ==
    /\ AtEnd(p)
    /\ Loadable
    /\ run[p].output # NoOutput
    /\ Updated(p) # Refused
    /\ Create(p, Updated(p), run[p].output)
    /\ UNCHANGED <<checkpoint, failed, supports, hiccups, crashes>>

FinishRefused(p) ==
    /\ AtEnd(p)
    /\ \/ ~ Loadable /\ Exit(p, "checkpoint_invalid")
       \/ /\ Loadable /\ run[p].output # NoOutput
          /\ Updated(p) = Refused
          /\ Exit(p, "duplicate_review")
       \/ /\ Loadable /\ run[p].output # NoOutput
          /\ Updated(p) # Refused
          /\ artifacts[run[p].output] # Absent
          /\ Exit(p, "output_exists")
    /\ UNCHANGED <<artifacts, checkpoint, failed, supports, hiccups, crashes>>

CloseOutput(p) ==
    /\ run[p].pc = "writing"
    /\ artifacts' = [artifacts EXCEPT ![run[p].output] = run[p].crosswalk]
    /\ Exit(p, "ok")
    /\ UNCHANGED <<checkpoint, failed, supports, hiccups, crashes>>

(* A runner dies between two steps, or in the middle of an append.  A file *)
(* it was writing stays behind as it is.                                   *)
Crash(p) ==
    /\ run[p].pc # "idle"
    /\ crashes < MaxCrashes
    /\ crashes' = crashes + 1
    /\ Exit(p, "crashed")
    /\ \/ UNCHANGED checkpoint
       \/ /\ TornWrites
          /\ BothPassesMade(p)
          /\ ~ Torn
          /\ checkpoint' = Append(checkpoint, Partial)
    /\ UNCHANGED <<artifacts, failed, supports, hiccups>>
-----------------------------------------------------------------------------
(* The steps of a program that runs, and the operator's invocations. *)
Step(p) ==
    \/ \E row \in Rows, verdict \in Verdicts : ReviewPass(p, row, verdict)
    \/ \E row \in Rows : ReviewFails(p, row)
    \/ \E row \in Rows : AppendCheckpoint(p, row)
    \/ Finish(p)
    \/ OpenOutput(p)
    \/ FinishRefused(p)
    \/ CloseOutput(p)

Invoke(p) ==
    \/ \E b \in Bases, output \in Names : Compile(p, b, output)
    \/ \E output \in Names : CompileRefused(p, output)
    \/ \E input \in Names, output \in Names \cup {NoOutput}, models \in ModelPairs :
           Start(p, input, output, models)
    \/ \E input \in Names : StartRefused(p, input)

Next == \E p \in Runners : Step(p) \/ Invoke(p) \/ Crash(p)

Spec == Init /\ [][Next]_vars

(* A program that runs goes on until it ends.  The operator goes on        *)
(* starting review runs; which output and which models a run is given is   *)
(* not constrained.                                                        *)
StartsReview(p) ==
    \E input \in Names, output \in Names \cup {NoOutput}, models \in ModelPairs :
        Start(p, input, output, models)

Fairness == \A p \in Runners : WF_vars(Step(p)) /\ WF_vars(StartsReview(p))

FairSpec == Spec /\ Fairness
-----------------------------------------------------------------------------
(* Every variable holds what the programs can put there. *)
TypeOK ==
    /\ artifacts \in [Names -> CrosswalkSet \cup {Absent, Partial}]
    /\ checkpoint \in Seq(Line)
    /\ failed \subseteq Rows
    /\ supports \subseteq Models \X Rows
    /\ run \in [Runners -> Idle \cup Reviewing \cup Writing]
    /\ hiccups \in 0..MaxHiccups
    /\ crashes \in 0..MaxCrashes

(* An output that is being written exists, unfinished, and belongs to the  *)
(* one runner that created it.                                             *)
OutputsOwned ==
    /\ \A p \in Runners : run[p].pc = "writing" => artifacts[run[p].output] = Partial
    /\ \A p, q \in Runners :
           run[p].pc = "writing" /\ run[q].pc = "writing" /\ run[p].output = run[q].output
           => p = q

(* A row that a finished crosswalk calls tentatively verified was supported *)
(* by two different models, whatever runs, crashes and re-runs went before. *)
Supported(r) ==
    \E m, n \in Models : m # n /\ <<m, r>> \in supports /\ <<n, r>> \in supports

Justified(cw) ==
    \A rec \in cw.records : rec.state = "tentatively_verified" => Supported(rec.row)

TentativelyVerifiedJustified == \A n \in Files : Justified(artifacts[n])

(* The same of everything a finished crosswalk is made from: the saved     *)
(* results, the crosswalks runners hold, and the passes they have made.    *)
PassesTruthful(rn) ==
    /\ Len(rn.passes) <= 2
    /\ rn.passes # <<>> => rn.models[1] # rn.models[2]
    /\ \A i \in DOMAIN rn.passes, row \in First(rn.todo) :
           rn.passes[i] = "supports" => <<rn.models[i], row>> \in supports

SupportTraced ==
    /\ TentativelyVerifiedJustified
    /\ \A i \in DOMAIN checkpoint :
           checkpoint[i] \in Result /\ checkpoint[i].outcome = "tentatively_verified"
           => Supported(checkpoint[i].row)
    /\ \A p \in Runners :
           /\ run[p].pc \in {"reviewing", "writing"} => Justified(run[p].crosswalk)
           /\ run[p].pc = "reviewing" => PassesTruthful(run[p])

(* A review never rewrites the donor's own records or the SUMO reviews:    *)
(* those of a finished crosswalk are the ones compiled for its base.       *)
DonorRowsPreserved ==
    \A n \in Files :
        {rec \in artifacts[n].records : rec.key # DonorReviewKey}
            = CompileCrosswalk(artifacts[n].base).records

(* A finished crosswalk file is immutable, and a runner that fills a file  *)
(* fills the one it created.                                               *)
ArtifactsImmutable ==
    [][\A n \in Files : artifacts'[n] = artifacts[n]]_vars

(* A single runner, crashed and restarted at any point, never saves two    *)
(* results of one row.                                                     *)
NoRowReviewedTwice ==
    \A i, j \in DOMAIN checkpoint :
        /\ checkpoint[i] \in Result /\ checkpoint[j] \in Result
        /\ checkpoint[i].row = checkpoint[j].row
        => i = j

(* ... because no row it still has to review is in the checkpoint. *)
TodoUnreviewed ==
    \A p \in Runners : run[p].pc = "reviewing" => run[p].todo \cap Checkpointed = {}

(* A kill spoils at most one line of the checkpoint, however many runners  *)
(* append to the file afterwards, and no program ends for a checkpoint     *)
(* that does not load unless a line was spoilt.                            *)
BrokenLines == {i \in DOMAIN checkpoint : checkpoint[i] \notin Result}

DamageIsOfKills ==
    /\ Cardinality(BrokenLines) <= crashes
    /\ BrokenLines = {} =>
           \A p \in Runners : run[p] # [pc |-> "idle", exit |-> "checkpoint_invalid"]

(* A review record of a finished crosswalk reviews a candidate donor row   *)
(* of that same crosswalk.                                                 *)
ReviewsGrounded ==
    \A n \in Files :
        RowsWith(artifacts[n], DonorReviewKey, States)
            \subseteq RowsWith(artifacts[n], "framenet_candidate", {"candidate"})

(* The outcome of a row is the one of its first line in the checkpoint and *)
(* a finished crosswalk publishes its review records: together a ledger.   *)
ResultsOf(lines, r) == {i \in DOMAIN lines : lines[i] \in Result /\ lines[i].row = r}

OutcomeOf(lines, r) ==
    LET results == ResultsOf(lines, r)
    IN  IF results = {} THEN Undecided
        ELSE lines[CHOOSE i \in results : \A j \in results : i <= j].outcome

ReviewState(cw, r) ==
    (CHOOSE rec \in cw.records : RecordId(rec) = <<DonorReviewKey, r>>).state

PublishedOutcomes(n) ==
    IF n \notin Files THEN Unpublished
    ELSE [r \in RowsWith(artifacts[n], DonorReviewKey, States) |->
             ReviewState(artifacts[n], r)]

Decided == [r \in Rows |-> OutcomeOf(checkpoint, r)]
Published == [n \in Names |-> PublishedOutcomes(n)]

Ledger == INSTANCE ReviewLedger WITH decided <- Decided, published <- Published

(* Runners, crashes and half-written lines together keep the ledger: no    *)
(* outcome is decided twice and no file publishes one that was not decided. *)
LedgerKept == Ledger!Spec

(* A candidate row the models can answer is reviewed at last: rows that    *)
(* fail on every run cannot starve the others as long as fewer of them     *)
(* than Limit come first, and no crash loses the work of a batch.          *)
EveryRowReviewed ==
    \A r \in Rows \ Unanswerable :
        (\E n \in Files : r \in Reviewable(artifacts[n])) ~> r \in Checkpointed
-----------------------------------------------------------------------------
(* "additionally emit a new crosswalk artifact with the reviewed rows      *)
(* appended": --write-crosswalk never ends with no crosswalk because the   *)
(* rows it was asked to append are in its input already.                   *)
AppendNeverRefused == \A p \in Runners : run[p] # [pc |-> "idle", exit |-> "duplicate_review"]

(* "a mid-batch failure never loses completed rows": no failure in the     *)
(* middle of a batch leaves a checkpoint with completed rows in it that no *)
(* later run can load.                                                     *)
CheckpointSurvives ==
    Checkpointed # {} =>
        \A p \in Runners : run[p] # [pc |-> "idle", exit |-> "checkpoint_invalid"]

(* "Machine-consumed complete classification evidence for the crosswalk":  *)
(* a coverage report can be made of every finished crosswalk.              *)
EveryCrosswalkReportable == \A n \in Files : CoverageReconciles(artifacts[n])
=============================================================================
