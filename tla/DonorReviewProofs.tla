-------------------------- MODULE DonorReviewProofs --------------------------
(***************************************************************************)
(* Theorems about DonorReview for every value of its constants: any number *)
(* of runners, files, rows, models and versions of the mappings, and any   *)
(* bound on the failures.                                                  *)
(***************************************************************************)
EXTENDS DonorReview, TLAPS

(***************************************************************************)
(* The constructions of a crosswalk, for every population.                 *)
(***************************************************************************)

(* What a construction returns when it is not refused. *)
LEMMA ConstructResult ==
    ASSUME NEW base, NEW old, NEW added, Construct(base, old, added) # Refused
    PROVE  /\ Construct(base, old, added)
                = [base |-> base, records |-> old \cup Range(added)]
           /\ Closed(old, added)
           /\ \A i \in DOMAIN added : NonPromotional(added[i])
BY DEF Construct

(* A construction from records of a crosswalk is a crosswalk or refused. *)
LEMMA ConstructType ==
    ASSUME NEW base \in Bases, NEW old \in SUBSET Record, NEW added,
           \A i \in DOMAIN added : added[i] \in Record
    PROVE  Construct(base, old, added) \in CrosswalkSet \cup {Refused}
BY DEF Construct, CrosswalkSet, Range

LEMMA DonorRecordType == \A r \in Rows : DonorRecord(r) \in Record
BY DEF DonorRecord, Record, RecordOf, DonorKeys, States, Outcomes, VerificationBases

LEMMA SumoRecordType == \A c \in SumoCases : SumoRecord(c) \in Record
BY CrosswalkConstants
   DEF SumoRecord, Record, RecordOf, States, Outcomes, VerificationBases

LEMMA ReviewRecordType ==
    \A result \in [row : Rows, outcome : Outcomes] : ReviewRecord(result) \in Record
BY DEF ReviewRecord, Record, RecordOf, States, Outcomes, VerificationBases

(* Compiling a version of the mappings is never refused: it yields the     *)
(* donor records of its rows and the SUMO reviews.                         *)
LEMMA CompileMappingsResult ==
    ASSUME NEW b \in Bases
    PROVE  CompileMappings(b)
             = [base |-> b, records |-> {DonorRecord(r) : r \in RowsOf[b]}]
<1> DEFINE added == [r \in RowsOf[b] |-> DonorRecord(r)]
<1>1. Closed({}, added)
  BY DEF Closed, IsInjective, RecordId, DonorRecord
<1>2. \A r \in DOMAIN added : NonPromotional(added[r])
  BY DEF NonPromotional, DonorRecord, ReviewKeys, SumoReviewKey, DonorReviewKey
<1>3. {} \cup Range(added) = {DonorRecord(r) : r \in RowsOf[b]}
  BY DEF Range
<1> QED
  BY <1>1, <1>2, <1>3 DEF CompileMappings, Construct

LEMMA CompileCrosswalkResult ==
    ASSUME NEW b \in Bases
    PROVE  CompileCrosswalk(b)
             = [base |-> b,
                records |-> {DonorRecord(r) : r \in RowsOf[b]}
                              \cup {SumoRecord(c) : c \in SumoCases}]
<1> DEFINE old == {DonorRecord(r) : r \in RowsOf[b]}
           added == [c \in SumoCases |-> SumoRecord(c)]
<1>1. Closed(old, added)
  BY DEF Closed, IsInjective, RecordId, SumoRecord, DonorRecord, SumoReviewKey
<1>2. \A c \in DOMAIN added : NonPromotional(added[c])
  BY CrosswalkConstants DEF NonPromotional, SumoRecord, ReviewKeys, Outcomes
<1>3. Range(added) = {SumoRecord(c) : c \in SumoCases}
  BY DEF Range
<1>4. CompileMappings(b).base = b /\ CompileMappings(b).records = old
  BY CompileMappingsResult
<1>5. CompileCrosswalk(b) = Construct(b, old, added)
  BY <1>4 DEF CompileCrosswalk, AppendSumo
<1> QED
  BY <1>1, <1>2, <1>3, <1>5 DEF Construct

LEMMA CompileCrosswalkType ==
    ASSUME NEW b \in Bases
    PROVE  CompileCrosswalk(b) \in CrosswalkSet
BY CompileCrosswalkResult, DonorRecordType, SumoRecordType, CrosswalkConstants
   DEF CrosswalkSet

(* Appending reviews gives a crosswalk of the same base that keeps every   *)
(* record and adds the review records, or is refused.                      *)
LEMMA AppendReviewedType ==
    ASSUME NEW cw \in CrosswalkSet, NEW results,
           \A i \in DOMAIN results : results[i] \in [row : Rows, outcome : Outcomes]
    PROVE  AppendReviewed(cw, results) \in CrosswalkSet \cup {Refused}
<1>1. cw.base \in Bases /\ cw.records \in SUBSET Record
  BY DEF CrosswalkSet
<1> QED
  BY <1>1, ConstructType, ReviewRecordType DEF AppendReviewed

LEMMA AppendReviewedResult ==
    ASSUME NEW cw, NEW results, AppendReviewed(cw, results) # Refused
    PROVE  /\ AppendReviewed(cw, results).base = cw.base
           /\ AppendReviewed(cw, results).records
                = cw.records \cup {ReviewRecord(results[i]) : i \in DOMAIN results}
<1> DEFINE added == [i \in DOMAIN results |-> ReviewRecord(results[i])]
<1>1. AppendReviewed(cw, results)
        = [base |-> cw.base, records |-> cw.records \cup Range(added)]
  BY ConstructResult DEF AppendReviewed
<1>2. Range(added) = {ReviewRecord(results[i]) : i \in DOMAIN results}
  BY DEF Range
<1> QED
  BY <1>1, <1>2

(***************************************************************************)
(* The reviewers and the files.                                            *)
(***************************************************************************)

(* The local state of a runner is told apart by its pc. *)
LEMMA RunTypes ==
    ASSUME TypeOK, NEW p \in Runners
    PROVE  /\ run[p].pc = "idle" => run[p] \in Idle
           /\ run[p].pc = "reviewing" => run[p] \in Reviewing
           /\ run[p].pc = "writing" => run[p] \in Writing
           /\ run[p].pc \in {"idle", "reviewing", "writing"}
BY DEF TypeOK, Idle, Reviewing, Writing

LEMMA ReconcileType == \A a, b : Reconcile(a, b) \in Outcomes
BY DEF Reconcile, Outcomes

LEMMA TakeSubset == \A S : Take(S) \subseteq S
BY DEF Take

LEMMA FirstSubset == \A S : First(S) \subseteq S
BY DEF First

LEMMA ReviewableRows ==
    ASSUME NEW cw \in CrosswalkSet
    PROVE  Reviewable(cw) \subseteq Rows
BY DEF Reviewable, RowsWith, CrosswalkSet, Record, RecordOf, SumoReviewKey

(* A loadable checkpoint makes a crosswalk, or the append is refused. *)
LEMMA UpdatedType ==
    ASSUME TypeOK, Loadable, NEW p \in Runners, run[p].pc = "reviewing"
    PROVE  Updated(p) \in CrosswalkSet \cup {Refused}
<1>1. run[p].crosswalk \in CrosswalkSet
  BY RunTypes DEF Reviewing
<1>2. \A i \in DOMAIN checkpoint : checkpoint[i] \in [row : Rows, outcome : Outcomes]
  BY DEF Loadable, Result
<1> QED
  BY <1>1, <1>2, AppendReviewedType DEF Updated

(* A line that was not written whole is not a result. *)
LEMMA GarbageNotResult == Partial \notin Result /\ Garbage \notin Result
BY DonorReviewConstants DEF Result

LEMMA TypeOKInit == Init => TypeOK
BY DonorReviewConstants DEF Init, TypeOK, Idle, Exits

(* Leaving a run and creating a file keep the types of what they change. *)
LEMMA ExitType ==
    ASSUME TypeOK, NEW p \in Runners, NEW reason \in Exits, Exit(p, reason)
    PROVE  run' \in [Runners -> Idle \cup Reviewing \cup Writing]
BY DEF TypeOK, Exit, Idle

LEMMA CreateType ==
    ASSUME TypeOK, NEW p \in Runners, NEW cw \in CrosswalkSet, NEW output \in Names,
           Create(p, cw, output)
    PROVE  /\ run' \in [Runners -> Idle \cup Reviewing \cup Writing]
           /\ artifacts' \in [Names -> CrosswalkSet \cup {Absent, Partial}]
BY DEF TypeOK, Create, Writing

LEMMA LeaveType ==
    ASSUME TypeOK, NEW p \in Runners, NEW row, run[p].pc = "reviewing", Leave(p, row)
    PROVE  run' \in [Runners -> Idle \cup Reviewing \cup Writing]
<1>1. run[p] \in Reviewing
  BY RunTypes
<1>2. <<>> \in Seq(Verdicts)
  OBVIOUS
<1>3. [run[p] EXCEPT !.todo = @ \ {row}, !.passes = <<>>] \in Reviewing
  BY <1>1, <1>2 DEF Reviewing
<1> QED
  BY <1>3 DEF TypeOK, Leave

LEMMA TypeOKNext == TypeOK /\ [Next]_vars => TypeOK'
<1> SUFFICES ASSUME TypeOK, [Next]_vars PROVE TypeOK'
  OBVIOUS
<1> USE DEF Exits
<1>1. ASSUME NEW p \in Runners, NEW b \in Bases, NEW output \in Names, Compile(p, b, output)
      PROVE  TypeOK'
  BY <1>1, CompileCrosswalkType, CreateType DEF Compile, TypeOK
<1>2. ASSUME NEW p \in Runners, NEW output \in Names, CompileRefused(p, output)
      PROVE  TypeOK'
  BY <1>2, ExitType DEF CompileRefused, TypeOK
<1>3. ASSUME NEW p \in Runners, NEW input \in Names, NEW output \in Names \cup {NoOutput},
             NEW models \in ModelPairs, Start(p, input, output, models)
      PROVE  TypeOK'
  <2> DEFINE todo == Selected(artifacts[input])
             started == [pc |-> "reviewing", crosswalk |-> artifacts[input],
                         output |-> output, models |-> models, todo |-> todo,
                         passes |-> <<>>]
  <2>1. artifacts[input] \in CrosswalkSet
    BY <1>3 DEF Start, Files
  <2>2. todo \subseteq Rows
    BY <2>1, TakeSubset, ReviewableRows DEF Selected
  <2>3. started \in Reviewing
    <3>1. models \in Models \X Models /\ <<>> \in Seq(Verdicts)
      BY DonorReviewConstants
    <3> QED
      BY <2>1, <2>2, <3>1 DEF Reviewing
  <2>4. run' = [run EXCEPT ![p] = started]
    BY <1>3 DEF Start
  <2> QED
    BY <1>3, <2>3, <2>4 DEF Start, TypeOK
<1>4. ASSUME NEW p \in Runners, NEW input \in Names, StartRefused(p, input)
      PROVE  TypeOK'
  BY <1>4, ExitType DEF StartRefused, TypeOK
<1>5. ASSUME NEW p \in Runners, NEW row \in Rows, NEW verdict \in Verdicts,
             ReviewPass(p, row, verdict)
      PROVE  TypeOK'
  <2>1. run[p] \in Reviewing
    BY <1>5, RunTypes DEF ReviewPass, AtPass
  <2>2. [run[p] EXCEPT !.passes = Append(@, verdict)] \in Reviewing
    <3>1. Append(run[p].passes, verdict) \in Seq(Verdicts)
      BY <2>1 DEF Reviewing
    <3> QED
      BY <2>1, <3>1 DEF Reviewing
  <2>3. run' \in [Runners -> Idle \cup Reviewing \cup Writing]
    BY <1>5, <2>2 DEF ReviewPass, TypeOK
  <2>4. Len(run[p].passes) + 1 \in {1, 2}
    BY <1>5, <2>1 DEF ReviewPass, AtPass, Reviewing
  <2>5. run[p].models[Len(run[p].passes) + 1] \in Models
    BY <2>1, <2>4 DEF Reviewing
  <2>6. supports' \subseteq Models \X Rows
    BY <1>5, <2>5 DEF ReviewPass, TypeOK
  <2> QED
    BY <1>5, <2>3, <2>6 DEF ReviewPass, TypeOK
<1>6. ASSUME NEW p \in Runners, NEW row \in Rows, ReviewFails(p, row)
      PROVE  TypeOK'
  <2>1. hiccups' \in 0..MaxHiccups
    BY <1>6, DonorReviewConstants DEF ReviewFails, TypeOK
  <2> QED
    BY <1>6, <2>1, LeaveType DEF ReviewFails, AtPass, TypeOK
<1>7. ASSUME NEW p \in Runners, NEW row \in Rows, AppendCheckpoint(p, row)
      PROVE  TypeOK'
  <2> DEFINE line == [row |-> row,
                      outcome |-> Reconcile(run[p].passes[1], run[p].passes[2])]
  <2>1. line \in Line
    BY ReconcileType DEF Line, Result
  <2>2. Written(line) \in Seq(Line)
    BY <2>1 DEF Written, Torn, TypeOK, Line
  <2> QED
    BY <1>7, <2>2, LeaveType DEF AppendCheckpoint, BothPassesMade, TypeOK
<1>8. ASSUME NEW p \in Runners, Finish(p)
      PROVE  TypeOK'
  BY <1>8, ExitType DEF Finish, TypeOK
<1>9. ASSUME NEW p \in Runners, OpenOutput(p)
      PROVE  TypeOK'
  <2>1. Updated(p) \in CrosswalkSet
    BY <1>9, UpdatedType DEF OpenOutput, AtEnd
  <2>2. run[p].output \in Names
    BY <1>9, RunTypes DEF OpenOutput, AtEnd, Reviewing
  <2> QED
    BY <1>9, <2>1, <2>2, CreateType DEF OpenOutput, TypeOK
<1>10. ASSUME NEW p \in Runners, FinishRefused(p)
       PROVE  TypeOK'
  BY <1>10, ExitType DEF FinishRefused, TypeOK
<1>11. ASSUME NEW p \in Runners, CloseOutput(p)
       PROVE  TypeOK'
  <2>1. run[p] \in Writing
    BY <1>11, RunTypes DEF CloseOutput
  <2> QED
    BY <1>11, <2>1, ExitType DEF CloseOutput, TypeOK, Writing
<1>12. ASSUME NEW p \in Runners, Crash(p)
       PROVE  TypeOK'
  <2>1. checkpoint' \in Seq(Line)
    BY <1>12 DEF Crash, TypeOK, Line
  <2>2. crashes' \in 0..MaxCrashes
    BY <1>12, DonorReviewConstants DEF Crash, TypeOK
  <2> QED
    BY <1>12, <2>1, <2>2, ExitType DEF Crash, TypeOK
<1>13. CASE UNCHANGED vars
  BY <1>13 DEF vars, TypeOK
<1> QED
  BY <1>1, <1>2, <1>3, <1>4, <1>5, <1>6, <1>7, <1>8, <1>9, <1>10, <1>11, <1>12, <1>13
     DEF Next, Step, Invoke

(* Every variable keeps its type. *)
THEOREM TypeCorrect == Spec => []TypeOK
BY TypeOKInit, TypeOKNext, PTL DEF Spec
-----------------------------------------------------------------------------
LEMMA OutputsOwnedNext == TypeOK /\ OutputsOwned /\ [Next]_vars => OutputsOwned'
<1> SUFFICES ASSUME TypeOK, OutputsOwned, [Next]_vars PROVE OutputsOwned'
  OBVIOUS
<1>1. ASSUME NEW p \in Runners, NEW reason, Exit(p, reason), UNCHANGED artifacts
      PROVE  OutputsOwned'
  BY <1>1 DEF Exit, OutputsOwned, TypeOK
<1>2. ASSUME NEW p \in Runners, NEW cw, NEW output \in Names, Create(p, cw, output),
             run[p].pc # "writing"
      PROVE  OutputsOwned'
  <2>1. /\ artifacts[output] = Absent
        /\ artifacts' = [artifacts EXCEPT ![output] = Partial]
        /\ run'[p] = [pc |-> "writing", crosswalk |-> cw, output |-> output]
        /\ \A q \in Runners \ {p} : run'[q] = run[q]
    BY <1>2 DEF Create, TypeOK
  <2>2. \A q \in Runners : run[q].pc = "writing" =>
            run[q].output \in Names /\ run[q].output # output
    BY <2>1, RunTypes, DonorReviewConstants DEF OutputsOwned, Writing
  <2>3. \A q \in Runners : run'[q].pc = "writing" => artifacts'[run'[q].output] = Partial
    BY <2>1, <2>2 DEF OutputsOwned, TypeOK
  <2> QED
    BY <2>1, <2>2, <2>3 DEF OutputsOwned
<1>3. ASSUME NEW p \in Runners, run[p].pc = "reviewing",
             \A q \in Runners : run'[q].pc = run[q].pc /\ (q # p => run'[q] = run[q]),
             UNCHANGED artifacts
      PROVE  OutputsOwned'
  BY <1>3 DEF OutputsOwned
<1>4. ASSUME NEW p \in Runners, NEW b \in Bases, NEW output \in Names, Compile(p, b, output)
      PROVE  OutputsOwned'
  BY <1>2, <1>4 DEF Compile
<1>5. ASSUME NEW p \in Runners, NEW output \in Names, CompileRefused(p, output)
      PROVE  OutputsOwned'
  BY <1>1, <1>5 DEF CompileRefused
<1>6. ASSUME NEW p \in Runners, NEW input \in Names, NEW output \in Names \cup {NoOutput},
             NEW models \in ModelPairs, Start(p, input, output, models)
      PROVE  OutputsOwned'
  <2>1. UNCHANGED artifacts /\ run'[p].pc = "reviewing"
        /\ \A q \in Runners \ {p} : run'[q] = run[q]
    BY <1>6 DEF Start, TypeOK
  <2> QED
    BY <2>1 DEF OutputsOwned
<1>7. ASSUME NEW p \in Runners, NEW input \in Names, StartRefused(p, input)
      PROVE  OutputsOwned'
  BY <1>1, <1>7 DEF StartRefused
<1>8. ASSUME NEW p \in Runners, NEW row \in Rows, NEW verdict \in Verdicts,
             ReviewPass(p, row, verdict)
      PROVE  OutputsOwned'
  <2>1. run[p] \in Reviewing
    BY <1>8, RunTypes DEF ReviewPass, AtPass
  <2> QED
    BY <1>3, <1>8, <2>1 DEF ReviewPass, AtPass, TypeOK, Reviewing
<1>9. ASSUME NEW p \in Runners, NEW row \in Rows, run[p].pc = "reviewing",
             Leave(p, row), UNCHANGED artifacts
      PROVE  OutputsOwned'
  <2>1. run[p] \in Reviewing
    BY <1>9, RunTypes
  <2> QED
    BY <1>3, <1>9, <2>1 DEF Leave, TypeOK, Reviewing
<1>10. ASSUME NEW p \in Runners, NEW row \in Rows, ReviewFails(p, row) \/ AppendCheckpoint(p, row)
       PROVE  OutputsOwned'
  BY <1>9, <1>10 DEF ReviewFails, AtPass, AppendCheckpoint, BothPassesMade
<1>11. ASSUME NEW p \in Runners, Finish(p) \/ FinishRefused(p) \/ Crash(p)
       PROVE  OutputsOwned'
  BY <1>1, <1>11 DEF Finish, FinishRefused, Crash
<1>12. ASSUME NEW p \in Runners, OpenOutput(p)
       PROVE  OutputsOwned'
  <2>1. run[p].output \in Names
    BY <1>12, RunTypes DEF OpenOutput, AtEnd, Reviewing
  <2> QED
    BY <1>2, <1>12, <2>1 DEF OpenOutput, AtEnd
<1>13. ASSUME NEW p \in Runners, CloseOutput(p)
       PROVE  OutputsOwned'
  <2>1. /\ \A n \in Names : n # run[p].output => artifacts'[n] = artifacts[n]
        /\ run'[p].pc = "idle"
        /\ \A q \in Runners \ {p} : run'[q] = run[q]
    BY <1>13 DEF CloseOutput, Exit, TypeOK
  <2>2. \A q \in Runners : run[q].pc = "writing" => run[q].output \in Names
    BY RunTypes DEF Writing
  <2> QED
    BY <1>13, <2>1, <2>2 DEF OutputsOwned, CloseOutput
<1>14. CASE UNCHANGED vars
  BY <1>14 DEF vars, OutputsOwned
<1> QED
  BY <1>4, <1>5, <1>6, <1>7, <1>8, <1>10, <1>11, <1>12, <1>13, <1>14
     DEF Next, Step, Invoke

(* A file being written belongs to the runner that created it. *)
THEOREM WritersOwnTheirFiles == Spec => []OutputsOwned
<1>1. Init => OutputsOwned
  BY DEF Init, OutputsOwned
<1> QED
  BY <1>1, TypeCorrect, OutputsOwnedNext, PTL DEF Spec

(* Because of that, no step of any runner changes a finished file. *)
LEMMA FilesKept ==
    TypeOK /\ OutputsOwned /\ [Next]_vars => \A n \in Files : artifacts'[n] = artifacts[n]
<1> SUFFICES ASSUME TypeOK, OutputsOwned, [Next]_vars, NEW n \in Files
             PROVE  artifacts'[n] = artifacts[n]
  OBVIOUS
<1>1. n \in Names /\ artifacts[n] # Absent /\ artifacts[n] # Partial
  BY DonorReviewConstants DEF Files
<1>2. ASSUME NEW p, NEW cw, NEW output, Create(p, cw, output)
      PROVE  artifacts'[n] = artifacts[n]
  BY <1>1, <1>2 DEF Create, TypeOK
<1>3. ASSUME NEW p \in Runners, CloseOutput(p)
      PROVE  artifacts'[n] = artifacts[n]
  BY <1>1, <1>3 DEF CloseOutput, OutputsOwned, TypeOK
<1> QED
  BY <1>2, <1>3 DEF Next, Step, Invoke, Compile, CompileRefused, Start, StartRefused,
     ReviewPass, ReviewFails, AppendCheckpoint, Finish, OpenOutput, FinishRefused,
     Crash, vars

THEOREM FinishedFilesImmutable == Spec => ArtifactsImmutable
BY TypeCorrect, WritersOwnTheirFiles, FilesKept, PTL DEF Spec, ArtifactsImmutable
-----------------------------------------------------------------------------
(* Support once given is never withdrawn. *)
LEMMA SupportGrows ==
    ASSUME supports \subseteq supports'
    PROVE  /\ \A r : Supported(r) => Supported(r)'
           /\ \A cw : Justified(cw) => Justified(cw)'
BY DEF Supported, Justified

(* The compiler emits no tentatively verified record. *)
LEMMA CompiledJustified == \A b \in Bases : Justified(CompileCrosswalk(b))
BY CompileCrosswalkResult, CrosswalkConstants DEF Justified, DonorRecord, SumoRecord

(* Neither does the append, but for the results of the checkpoint. *)
LEMMA UpdatedJustified ==
    ASSUME TypeOK, SupportTraced, Loadable, NEW p \in Runners,
           run[p].pc = "reviewing", Updated(p) # Refused
    PROVE  Justified(Updated(p))
<1>1. Updated(p).records = run[p].crosswalk.records
                             \cup {ReviewRecord(checkpoint[i]) : i \in DOMAIN checkpoint}
  BY AppendReviewedResult DEF Updated
<1>2. \A i \in DOMAIN checkpoint :
        ReviewRecord(checkpoint[i]).state = "tentatively_verified"
        => Supported(ReviewRecord(checkpoint[i]).row)
  BY DEF SupportTraced, Loadable, ReviewRecord
<1> QED
  BY <1>1, <1>2 DEF SupportTraced, Justified

(* The first row of a set is one row. *)
LEMMA FirstUnique ==
    ASSUME NEW S \in SUBSET Rows, NEW r \in First(S), NEW s \in First(S)
    PROVE  r = s
<1>1. r \in Rows /\ s \in Rows /\ Rank[r] <= Rank[s] /\ Rank[s] <= Rank[r]
  BY DEF First
<1>2. Rank[r] \in Int /\ Rank[s] \in Int
  BY <1>1, DonorReviewConstants
<1> QED
  BY <1>1, <1>2, DonorReviewConstants

LEMMA SupportTracedNext == TypeOK /\ SupportTraced /\ [Next]_vars => SupportTraced'
<1> SUFFICES ASSUME TypeOK, SupportTraced, [Next]_vars PROVE SupportTraced'
  OBVIOUS
<1> DEFINE Saved == \A i \in DOMAIN checkpoint :
               checkpoint[i] \in Result /\ checkpoint[i].outcome = "tentatively_verified"
               => Supported(checkpoint[i].row)
           Held(p) == /\ run[p].pc \in {"reviewing", "writing"} => Justified(run[p].crosswalk)
                      /\ run[p].pc = "reviewing" => PassesTruthful(run[p])
<1>a. TentativelyVerifiedJustified /\ Saved /\ \A p \in Runners : Held(p)
  BY DEF SupportTraced
<1>1. ASSUME UNCHANGED <<artifacts, supports>> PROVE TentativelyVerifiedJustified'
  BY <1>a, <1>1 DEF TentativelyVerifiedJustified, Files, Justified, Supported
<1>2. ASSUME UNCHANGED <<checkpoint, supports>> PROVE Saved'
  BY <1>a, <1>2 DEF Supported
<1>3. ASSUME NEW p, NEW q \in Runners, run' = [run EXCEPT ![p] = run'[p]], q # p,
             UNCHANGED supports
      PROVE  Held(q)'
  <2>1. run'[q] = run[q]
    BY <1>3 DEF TypeOK
  <2> QED
    BY <1>a, <1>3, <2>1 DEF Justified, Supported, PassesTruthful
<1>4. ASSUME NEW p \in Runners, NEW reason, Exit(p, reason), UNCHANGED supports
      PROVE  \A q \in Runners : Held(q)'
  <2>1. run'[p].pc = "idle" /\ run' = [run EXCEPT ![p] = run'[p]]
    BY <1>4 DEF Exit, TypeOK
  <2> QED
    BY <1>3, <1>4, <2>1
<1>5. ASSUME NEW p \in Runners, NEW cw, NEW output \in Names, Create(p, cw, output),
             Justified(cw), UNCHANGED <<checkpoint, supports>>
      PROVE  SupportTraced'
  <2>1. /\ run'[p] = [pc |-> "writing", crosswalk |-> cw, output |-> output]
        /\ run' = [run EXCEPT ![p] = run'[p]]
    BY <1>5 DEF Create, TypeOK
  <2>2. Held(p)'
    <3>1. Justified(cw)'
      BY <1>5, SupportGrows
    <3>2. run'[p].pc = "writing" /\ run'[p].crosswalk = cw
      BY <2>1
    <3> QED
      BY <3>1, <3>2 DEF Justified
  <2>3. TentativelyVerifiedJustified'
    <3> SUFFICES ASSUME NEW n \in Files' PROVE Justified(artifacts[n])'
      BY DEF TentativelyVerifiedJustified
    <3>1. n \in Files /\ artifacts'[n] = artifacts[n]
      BY <1>5, DonorReviewConstants DEF Create, Files, TypeOK
    <3> QED
      BY <1>a, <1>5, <3>1 DEF TentativelyVerifiedJustified, Justified, Supported
  <2> QED
    BY <1>2, <1>3, <1>5, <2>1, <2>2, <2>3 DEF SupportTraced
<1>6. ASSUME NEW p \in Runners, NEW b \in Bases, NEW output \in Names, Compile(p, b, output)
      PROVE  SupportTraced'
  BY <1>5, <1>6, CompiledJustified DEF Compile
<1>7. ASSUME NEW p \in Runners, NEW reason, Exit(p, reason),
             UNCHANGED <<artifacts, checkpoint, supports>>
      PROVE  SupportTraced'
  BY <1>1, <1>2, <1>4, <1>7 DEF SupportTraced
<1>8. ASSUME NEW p \in Runners, NEW input \in Names, NEW output \in Names \cup {NoOutput},
             NEW models \in ModelPairs, Start(p, input, output, models)
      PROVE  SupportTraced'
  <2>1. /\ run'[p].pc = "reviewing"
        /\ run'[p].crosswalk = artifacts[input]
        /\ run'[p].passes = <<>>
        /\ run' = [run EXCEPT ![p] = run'[p]]
    BY <1>8 DEF Start, TypeOK
  <2>2. Justified(run'[p].crosswalk)
    BY <1>8, <1>a, <2>1 DEF Start, TentativelyVerifiedJustified
  <2>3. Held(p)'
    <3>1. Justified(run[p].crosswalk)'
      BY <1>8, <2>2 DEF Start, Justified, Supported
    <3>2. PassesTruthful(run[p])'
      BY <2>1 DEF PassesTruthful
    <3> QED
      BY <3>1, <3>2
  <2> QED
    BY <1>1, <1>2, <1>3, <1>8, <2>1, <2>3 DEF Start, SupportTraced
<1>9. ASSUME NEW p \in Runners, NEW row \in Rows, NEW verdict \in Verdicts,
             ReviewPass(p, row, verdict)
      PROVE  SupportTraced'
  <2> DEFINE k == Len(run[p].passes) + 1
             given == <<run[p].models[k], row>>
  <2>1. run[p] \in Reviewing /\ PassesTruthful(run[p]) /\ Justified(run[p].crosswalk)
    BY <1>9, <1>a, RunTypes DEF ReviewPass, AtPass
  <2>2. supports \subseteq supports'
    BY <1>9 DEF ReviewPass
  <2>3. run'[p] = [run[p] EXCEPT !.passes = Append(run[p].passes, verdict)]
        /\ run' = [run EXCEPT ![p] = run'[p]]
    BY <1>9 DEF ReviewPass, TypeOK
  <2>4. /\ run'[p].pc = "reviewing" /\ run'[p].todo = run[p].todo
        /\ run'[p].models = run[p].models /\ run'[p].crosswalk = run[p].crosswalk
        /\ run'[p].passes = Append(run[p].passes, verdict)
    BY <2>1, <2>3 DEF Reviewing
  <2>5. verdict = "supports" => given \in supports'
    BY <1>9 DEF ReviewPass
  <2>6. /\ DOMAIN run'[p].passes = DOMAIN run[p].passes \cup {k}
        /\ run'[p].passes[k] = verdict
        /\ \A i \in DOMAIN run[p].passes : run'[p].passes[i] = run[p].passes[i]
        /\ Len(run'[p].passes) = k
    BY <2>1, <2>4 DEF Reviewing
  <2>7. \A s \in First(run[p].todo) : s = row
    BY <1>9, <2>1, FirstUnique DEF ReviewPass, AtPass, Reviewing
  <2>8. PassesTruthful(run[p])'
    <3>1. Len(run'[p].passes) <= 2
      BY <1>9, <2>1, <2>6 DEF ReviewPass, AtPass, Reviewing
    <3>2. run'[p].models[1] # run'[p].models[2]
      BY <1>9, <2>4 DEF ReviewPass
    <3>3. \A i \in DOMAIN run'[p].passes, s \in First(run'[p].todo) :
            run'[p].passes[i] = "supports" => <<run'[p].models[i], s>> \in supports'
      BY <2>1, <2>2, <2>4, <2>5, <2>6, <2>7 DEF PassesTruthful
    <3> QED
      BY <3>1, <3>2, <3>3 DEF PassesTruthful, First
  <2>9. Held(p)'
    BY <2>1, <2>2, <2>4, <2>8, SupportGrows DEF Justified
  <2>10. \A q \in Runners : q # p => Held(q)'
    <3> SUFFICES ASSUME NEW q \in Runners, q # p PROVE Held(q)'
      OBVIOUS
    <3>1. run'[q] = run[q]
      BY <2>3 DEF TypeOK
    <3>2. run[q].pc = "reviewing" => PassesTruthful(run[q])'
      BY <1>a, <2>2, <3>1 DEF PassesTruthful
    <3> QED
      BY <1>a, <2>2, <3>1, <3>2, SupportGrows DEF Justified
  <2>11. TentativelyVerifiedJustified'
    BY <1>9, <1>a, <2>2, SupportGrows
       DEF TentativelyVerifiedJustified, Justified, Files, ReviewPass
  <2>12. Saved'
    BY <1>9, <1>a, <2>2, SupportGrows DEF ReviewPass
  <2> QED
    BY <2>9, <2>10, <2>11, <2>12 DEF SupportTraced
<1>10. ASSUME NEW p \in Runners, NEW row \in Rows, run[p].pc = "reviewing", Leave(p, row),
              UNCHANGED supports
       PROVE  \A q \in Runners : Held(q)'
  <2>1. run[p] \in Reviewing
    BY <1>10, RunTypes
  <2>2. /\ run'[p].pc = "reviewing" /\ run'[p].crosswalk = run[p].crosswalk
        /\ run'[p].passes = <<>> /\ run' = [run EXCEPT ![p] = run'[p]]
    BY <1>10, <2>1 DEF Leave, TypeOK, Reviewing
  <2>3. PassesTruthful(run[p])'
    BY <2>2 DEF PassesTruthful
  <2>4. Held(p)'
    BY <1>10, <1>a, <2>2, <2>3 DEF Justified, Supported
  <2> QED
    BY <1>3, <1>10, <2>2, <2>4
<1>11. ASSUME NEW p \in Runners, NEW row \in Rows, ReviewFails(p, row)
       PROVE  SupportTraced'
  BY <1>1, <1>2, <1>10, <1>11 DEF ReviewFails, AtPass, SupportTraced
<1>12. ASSUME NEW p \in Runners, NEW row \in Rows, AppendCheckpoint(p, row)
       PROVE  SupportTraced'
  <2> DEFINE passes == run[p].passes
             line == [row |-> row, outcome |-> Reconcile(passes[1], passes[2])]
  <2>1. run[p] \in Reviewing /\ PassesTruthful(run[p]) /\ Len(passes) = 2
    BY <1>12, <1>a, RunTypes DEF AppendCheckpoint, BothPassesMade
  <2>2. line.outcome = "tentatively_verified" => Supported(row)
    <3> SUFFICES ASSUME line.outcome = "tentatively_verified" PROVE Supported(row)
      OBVIOUS
    <3>1. passes[1] = "supports" /\ passes[2] = "supports"
      BY DEF Reconcile
    <3>2. DOMAIN passes = {1, 2} /\ passes # <<>>
      BY <2>1 DEF Reviewing
    <3>3. /\ <<run[p].models[1], row>> \in supports
          /\ <<run[p].models[2], row>> \in supports
          /\ run[p].models[1] # run[p].models[2]
      BY <1>12, <2>1, <3>1, <3>2 DEF PassesTruthful, AppendCheckpoint
    <3> QED
      BY <2>1, <3>3 DEF Supported, Reviewing
  <2>3. \A i \in DOMAIN checkpoint' :
           \/ checkpoint'[i] = line
           \/ checkpoint'[i] = Garbage
           \/ i \in DOMAIN checkpoint /\ checkpoint'[i] = checkpoint[i]
    BY <1>12 DEF AppendCheckpoint, Written, Torn, TypeOK
  <2>4. Saved'
    <3> SUFFICES ASSUME NEW i \in DOMAIN checkpoint', checkpoint'[i] \in Result,
                        checkpoint'[i].outcome = "tentatively_verified"
                 PROVE  Supported(checkpoint'[i].row)
      BY <1>12 DEF AppendCheckpoint, Supported
    <3>1. CASE checkpoint'[i] = line
      BY <2>2, <3>1
    <3>2. CASE i \in DOMAIN checkpoint /\ checkpoint'[i] = checkpoint[i]
      BY <1>a, <3>2
    <3> QED
      BY <2>3, <3>1, <3>2, GarbageNotResult
  <2> QED
    BY <1>1, <1>10, <1>12, <2>4 DEF AppendCheckpoint, BothPassesMade, SupportTraced
<1>13. ASSUME NEW p \in Runners, Finish(p) \/ FinishRefused(p)
       PROVE  SupportTraced'
  BY <1>7, <1>13 DEF Finish, FinishRefused
<1>14. ASSUME NEW p \in Runners, OpenOutput(p)
       PROVE  SupportTraced'
  <2>1. run[p].output \in Names
    BY <1>14, RunTypes DEF OpenOutput, AtEnd, Reviewing
  <2> QED
    BY <1>5, <1>14, <2>1, UpdatedJustified DEF OpenOutput, AtEnd
<1>15. ASSUME NEW p \in Runners, CloseOutput(p)
       PROVE  SupportTraced'
  <2>1. Justified(run[p].crosswalk)
    BY <1>15, <1>a DEF CloseOutput
  <2>2. TentativelyVerifiedJustified'
    <3> SUFFICES ASSUME NEW n \in Files' PROVE Justified(artifacts[n])'
      BY DEF TentativelyVerifiedJustified
    <3>1. artifacts'[n] = run[p].crosswalk \/ (n \in Files /\ artifacts'[n] = artifacts[n])
      BY <1>15 DEF CloseOutput, Files, TypeOK
    <3> QED
      BY <1>15, <1>a, <2>1, <3>1
         DEF CloseOutput, TentativelyVerifiedJustified, Justified, Supported
  <2> QED
    BY <1>2, <1>4, <1>15, <2>2 DEF CloseOutput, SupportTraced
<1>16. ASSUME NEW p \in Runners, Crash(p)
       PROVE  SupportTraced'
  <2>1. \A i \in DOMAIN checkpoint' :
           \/ checkpoint'[i] = Partial
           \/ i \in DOMAIN checkpoint /\ checkpoint'[i] = checkpoint[i]
    BY <1>16 DEF Crash, TypeOK
  <2>2. Saved'
    BY <1>16, <1>a, <2>1, GarbageNotResult DEF Crash, Supported
  <2> QED
    BY <1>1, <1>4, <1>16, <2>2 DEF Crash, SupportTraced
<1>17. CASE UNCHANGED vars
  BY <1>17 DEF vars, SupportTraced, TentativelyVerifiedJustified, Files, Justified,
     Supported, PassesTruthful
<1> QED
  BY <1>6, <1>7, <1>8, <1>9, <1>11, <1>12, <1>13, <1>14, <1>15, <1>16, <1>17
     DEF Next, Step, Invoke, CompileRefused, StartRefused

THEOREM SupportIsTraced == Spec => []SupportTraced
<1>1. Init => SupportTraced
  BY DonorReviewConstants DEF Init, SupportTraced, TentativelyVerifiedJustified, Files
<1> QED
  BY <1>1, TypeCorrect, SupportTracedNext, PTL DEF Spec

(* No finished crosswalk says tentatively verified of a row that two       *)
(* different models have not both supported.                               *)
THEOREM TentativelyVerifiedIsJustified == Spec => []TentativelyVerifiedJustified
<1>1. SupportTraced => TentativelyVerifiedJustified
  BY DEF SupportTraced
<1> QED
  BY <1>1, SupportIsTraced, PTL
-----------------------------------------------------------------------------
(* The checkpoint after a line, or half of one, went to its end: the       *)
(* results it held are the results it holds, but for a new last one.       *)
LEMMA WrittenLines ==
    ASSUME checkpoint \in Seq(Line), NEW line \in Result
    PROVE  \/ /\ DOMAIN Written(line) = DOMAIN checkpoint
              /\ \A i \in DOMAIN checkpoint :
                    \/ Written(line)[i] = checkpoint[i]
                    \/ Written(line)[i] = Garbage /\ checkpoint[i] = Partial
           \/ /\ DOMAIN Written(line) = 1..(Len(checkpoint) + 1)
              /\ DOMAIN checkpoint = 1..Len(checkpoint)
              /\ Written(line)[Len(checkpoint) + 1] = line
              /\ \A i \in DOMAIN checkpoint : Written(line)[i] = checkpoint[i]
BY DEF Written, Torn, Line

LEMMA TornLines ==
    ASSUME checkpoint \in Seq(Line), checkpoint' = Append(checkpoint, Partial)
    PROVE  /\ DOMAIN checkpoint' = 1..(Len(checkpoint) + 1)
           /\ DOMAIN checkpoint = 1..Len(checkpoint)
           /\ checkpoint'[Len(checkpoint) + 1] = Partial
           /\ \A i \in DOMAIN checkpoint : checkpoint'[i] = checkpoint[i]
OBVIOUS

SingleRunner == \A p, q \in Runners : p = q

Resumable == NoRowReviewedTwice /\ TodoUnreviewed

LEMMA ResumableNext ==
    ASSUME SingleRunner
    PROVE  TypeOK /\ Resumable /\ [Next]_vars => Resumable'
<1> SUFFICES ASSUME TypeOK, Resumable, [Next]_vars PROVE Resumable'
  OBVIOUS
<1>1. ASSUME UNCHANGED checkpoint,
             \A p \in Runners : run'[p].pc = "reviewing" =>
                 \/ run[p].pc = "reviewing" /\ run'[p].todo \subseteq run[p].todo
                 \/ run'[p].todo \cap Checkpointed = {}
      PROVE  Resumable'
  BY <1>1 DEF Resumable, NoRowReviewedTwice, TodoUnreviewed, Checkpointed
<1>2. ASSUME NEW p \in Runners, NEW reason, Exit(p, reason), UNCHANGED checkpoint
      PROVE  Resumable'
  BY <1>1, <1>2 DEF Exit, TypeOK
<1>3. ASSUME NEW p \in Runners, NEW cw, NEW output, Create(p, cw, output),
             UNCHANGED checkpoint
      PROVE  Resumable'
  BY <1>1, <1>3 DEF Create, TypeOK
<1>4. ASSUME NEW p \in Runners, NEW input \in Names, NEW output \in Names \cup {NoOutput},
             NEW models \in ModelPairs, Start(p, input, output, models)
      PROVE  Resumable'
  <2>1. run'[p].todo \cap Checkpointed = {}
    BY <1>4, TakeSubset DEF Start, Selected, TypeOK
  <2> QED
    BY <1>1, <1>4, <2>1 DEF Start, TypeOK
<1>5. ASSUME NEW p \in Runners, NEW row \in Rows, NEW verdict \in Verdicts,
             ReviewPass(p, row, verdict)
      PROVE  Resumable'
  <2>1. run[p] \in Reviewing
    BY <1>5, RunTypes DEF ReviewPass, AtPass
  <2>2. run'[p].todo = run[p].todo
    BY <1>5, <2>1 DEF ReviewPass, TypeOK, Reviewing
  <2> QED
    BY <1>1, <1>5, <2>2 DEF ReviewPass, AtPass, TypeOK
<1>6. ASSUME NEW p \in Runners, NEW row \in Rows, run[p].pc = "reviewing", Leave(p, row)
      PROVE  /\ run'[p].todo = run[p].todo \ {row}
             /\ \A q \in Runners \ {p} : run'[q] = run[q]
  <2>1. run[p] \in Reviewing
    BY <1>6, RunTypes
  <2> QED
    BY <1>6, <2>1 DEF Leave, TypeOK, Reviewing
<1>7. ASSUME NEW p \in Runners, NEW row \in Rows, ReviewFails(p, row)
      PROVE  Resumable'
  BY <1>1, <1>6, <1>7 DEF ReviewFails, AtPass
<1>8. ASSUME NEW p \in Runners, NEW row \in Rows, AppendCheckpoint(p, row)
      PROVE  Resumable'
  <2> DEFINE line == [row |-> row,
                      outcome |-> Reconcile(run[p].passes[1], run[p].passes[2])]
  <2>1. line \in Result /\ line.row = row /\ checkpoint' = Written(line)
    BY <1>8, ReconcileType DEF AppendCheckpoint, Result
  <2>2. row \in run[p].todo /\ run[p].pc = "reviewing"
    BY <1>8, FirstSubset DEF AppendCheckpoint, BothPassesMade
  <2>3. \A i \in DOMAIN checkpoint : checkpoint[i] \in Result => checkpoint[i].row # row
    BY <2>2 DEF Resumable, TodoUnreviewed, Checkpointed
  <2>4. run'[p].todo = run[p].todo \ {row}
    BY <1>6, <1>8, <2>2 DEF AppendCheckpoint
  <2>5. checkpoint \in Seq(Line)
    BY DEF TypeOK
  <2>6. NoRowReviewedTwice'
    BY <2>1, <2>3, <2>5, WrittenLines, GarbageNotResult
       DEF Resumable, NoRowReviewedTwice
  <2>7. Checkpointed' \subseteq Checkpointed \cup {row}
    BY <2>1, <2>5, WrittenLines, GarbageNotResult DEF Checkpointed
  <2>8. TodoUnreviewed'
    BY <2>2, <2>4, <2>7 DEF Resumable, TodoUnreviewed, SingleRunner
  <2> QED
    BY <2>6, <2>8 DEF Resumable
<1>9. ASSUME NEW p \in Runners, Crash(p)
      PROVE  Resumable'
  <2>1. CASE UNCHANGED checkpoint
    BY <1>2, <1>9, <2>1 DEF Crash
  <2>2. CASE checkpoint' = Append(checkpoint, Partial)
    <3>1. run'[p].pc = "idle"
      BY <1>9 DEF Crash, Exit, TypeOK
    <3>2. checkpoint \in Seq(Line)
      BY DEF TypeOK
    <3>3. NoRowReviewedTwice'
      BY <2>2, <3>2, TornLines, GarbageNotResult DEF Resumable, NoRowReviewedTwice
    <3>4. TodoUnreviewed'
      BY <3>1 DEF TodoUnreviewed, SingleRunner
    <3> QED
      BY <3>3, <3>4 DEF Resumable
  <2> QED
    BY <1>9, <2>1, <2>2 DEF Crash
<1>10. CASE UNCHANGED vars
  BY <1>10 DEF vars, Resumable, NoRowReviewedTwice, TodoUnreviewed, Checkpointed
<1> QED
  BY <1>2, <1>3, <1>4, <1>5, <1>7, <1>8, <1>9, <1>10
     DEF Next, Step, Invoke, Compile, CompileRefused, StartRefused, Finish,
     OpenOutput, FinishRefused, CloseOutput

(* However often a single runner is crashed and started again, with half   *)
(* lines or without, it saves no second result of a row.                   *)
THEOREM SingleRunnerReviewsOnce ==
    ASSUME SingleRunner
    PROVE  Spec => []NoRowReviewedTwice
<1>1. Init => Resumable
  BY DEF Init, Resumable, NoRowReviewedTwice, TodoUnreviewed
<1>2. Resumable => NoRowReviewedTwice
  BY DEF Resumable
<1>3. TypeOK /\ Resumable /\ [Next]_vars => Resumable'
  BY ResumableNext
<1> QED
  BY <1>1, <1>2, <1>3, TypeCorrect, PTL DEF Spec
=============================================================================
