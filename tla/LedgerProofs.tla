----------------------------- MODULE LedgerProofs -----------------------------
(***************************************************************************)
(* What the crosswalks of DonorReview are made of, and that DonorReview    *)
(* implements ReviewLedger, for every value of the constants and any       *)
(* number of runners on one checkpoint.                                    *)
(***************************************************************************)
EXTENDS DonorReviewProofs, FiniteSetTheorems

(***************************************************************************)
(* Rows: the records compiled for a base, and reviews of them.             *)
(***************************************************************************)
(* The crosswalks there are: finished files, and what runners hold.        *)
Held ==
    {artifacts[n] : n \in Files}
        \cup {run[p].crosswalk : p \in {q \in Runners : run[q].pc # "idle"}}

(* A crosswalk that appears was compiled, or is one that a runner held     *)
(* with the results of a checkpoint without damage.                        *)
Appended(cw) ==
    \E p \in Runners :
        /\ run[p].pc = "reviewing" /\ Loadable /\ Updated(p) # Refused
        /\ cw = Updated(p)

Grown(cw) == cw \in Held \/ (\E b \in Bases : cw = CompileCrosswalk(b)) \/ Appended(cw)

LEMMA HeldTypes ==
    ASSUME TypeOK
    PROVE  Held \subseteq CrosswalkSet
BY RunTypes DEF Held, Files, Reviewing, Writing

(* The runner that takes a step is the only one whose crosswalk changes.   *)
LEMMA HeldGrows ==
    ASSUME TypeOK, OutputsOwned, [Next]_vars
    PROVE  \A cw \in Held' : Grown(cw)
<1>1. ASSUME NEW p \in Runners, NEW state, run' = [run EXCEPT ![p] = state],
             state.pc # "idle" => Grown(state.crosswalk),
             \A n \in Files' : n \in Files /\ artifacts'[n] = artifacts[n]
      PROVE  \A cw \in Held' : Grown(cw)
    <2>1. run'[p] = state /\ \A q \in Runners \ {p} : run'[q] = run[q]
        BY <1>1 DEF TypeOK
    <2>2. ASSUME NEW q \in Runners, run'[q].pc # "idle"
          PROVE  Grown(run'[q].crosswalk)
        BY <1>1, <2>1, <2>2 DEF Grown, Held
    <2>3. ASSUME NEW n \in Files'
          PROVE  Grown(artifacts'[n])
        BY <1>1, <2>3 DEF Grown, Held
    <2>. QED
        BY <2>2, <2>3 DEF Held
<1>2. ASSUME UNCHANGED artifacts
      PROVE  \A n \in Files' : n \in Files /\ artifacts'[n] = artifacts[n]
    BY <1>2 DEF Files
<1>3. ASSUME NEW p \in Runners, NEW reason, Exit(p, reason), UNCHANGED artifacts
      PROVE  \A cw \in Held' : Grown(cw)
    BY <1>1, <1>2, <1>3 DEF Exit
<1>4. ASSUME NEW p \in Runners, NEW cw, NEW output \in Names, Create(p, cw, output), Grown(cw)
      PROVE  \A c \in Held' : Grown(c)
    <2>1. \A n \in Files' : n \in Files /\ artifacts'[n] = artifacts[n]
        BY <1>4, DonorReviewConstants DEF Create, Files, TypeOK
    <2>. QED
        BY <1>1, <1>4, <2>1 DEF Create
<1>5. ASSUME NEW p \in Runners, NEW b \in Bases, NEW output \in Names, Compile(p, b, output)
      PROVE  \A cw \in Held' : Grown(cw)
    BY <1>4, <1>5 DEF Compile, Grown
<1>6. ASSUME NEW p \in Runners, NEW output \in Names, CompileRefused(p, output)
      PROVE  \A cw \in Held' : Grown(cw)
    BY <1>3, <1>6 DEF CompileRefused
<1>7. ASSUME NEW p \in Runners, NEW input \in Names, NEW output \in Names \cup {NoOutput},
             NEW models \in ModelPairs, Start(p, input, output, models)
      PROVE  \A cw \in Held' : Grown(cw)
    <2> DEFINE started == [pc |-> "reviewing", crosswalk |-> artifacts[input],
                           output |-> output, models |-> models,
                           todo |-> Selected(artifacts[input]), passes |-> <<>>]
    <2>1. run' = [run EXCEPT ![p] = started] /\ UNCHANGED artifacts
        BY <1>7 DEF Start
    <2>2. started.crosswalk = artifacts[input] /\ artifacts[input] \in Held
        BY <1>7 DEF Start, Held
    <2>3. Grown(started.crosswalk)
        BY <2>2 DEF Grown
    <2>. HIDE DEF started
    <2>. QED
        BY <1>1, <1>2, <2>1, <2>3
<1>8. ASSUME NEW p \in Runners, NEW input \in Names, StartRefused(p, input)
      PROVE  \A cw \in Held' : Grown(cw)
    BY <1>3, <1>8 DEF StartRefused
<1>9. ASSUME NEW p \in Runners, run[p].pc = "reviewing", NEW state, state.crosswalk = run[p].crosswalk,
             run' = [run EXCEPT ![p] = state], UNCHANGED artifacts
      PROVE  \A cw \in Held' : Grown(cw)
    BY <1>1, <1>2, <1>9 DEF Grown, Held
<1>10. ASSUME NEW p \in Runners, NEW row \in Rows, NEW verdict \in Verdicts,
              ReviewPass(p, row, verdict)
       PROVE  \A cw \in Held' : Grown(cw)
    <2>1. run[p] \in Reviewing
        BY <1>10, RunTypes DEF ReviewPass, AtPass
    <2> DEFINE state == [run[p] EXCEPT !.passes = Append(@, verdict)]
    <2>2. state.crosswalk = run[p].crosswalk
        BY <2>1 DEF Reviewing
    <2>3. run' = [run EXCEPT ![p] = state] /\ UNCHANGED artifacts /\ run[p].pc = "reviewing"
        BY <1>10 DEF ReviewPass, AtPass
    <2>. HIDE DEF state
    <2>. QED
        BY <1>9, <2>2, <2>3
<1>11. ASSUME NEW p \in Runners, NEW row \in Rows, run[p].pc = "reviewing",
              Leave(p, row), UNCHANGED artifacts
       PROVE  \A cw \in Held' : Grown(cw)
    <2>1. run[p] \in Reviewing
        BY <1>11, RunTypes
    <2> DEFINE state == [run[p] EXCEPT !.todo = @ \ {row}, !.passes = <<>>]
    <2>2. state.crosswalk = run[p].crosswalk
        BY <2>1 DEF Reviewing
    <2>3. run' = [run EXCEPT ![p] = state]
        BY <1>11 DEF Leave
    <2>. HIDE DEF state
    <2>. QED
        BY <1>9, <1>11, <2>2, <2>3
<1>12. ASSUME NEW p \in Runners, NEW row \in Rows, ReviewFails(p, row) \/ AppendCheckpoint(p, row)
       PROVE  \A cw \in Held' : Grown(cw)
    BY <1>11, <1>12 DEF ReviewFails, AtPass, AppendCheckpoint, BothPassesMade
<1>13. ASSUME NEW p \in Runners, Finish(p) \/ FinishRefused(p) \/ Crash(p)
       PROVE  \A cw \in Held' : Grown(cw)
    BY <1>3, <1>13 DEF Finish, FinishRefused, Crash
<1>14. ASSUME NEW p \in Runners, OpenOutput(p)
       PROVE  \A cw \in Held' : Grown(cw)
    <2>1. run[p].output \in Names /\ Grown(Updated(p))
        BY <1>14, RunTypes DEF OpenOutput, AtEnd, Reviewing, Grown, Appended
    <2>. QED
        BY <1>4, <1>14, <2>1 DEF OpenOutput
<1>15. ASSUME NEW p \in Runners, CloseOutput(p)
       PROVE  \A cw \in Held' : Grown(cw)
    <2>1. run[p] \in Writing /\ run[p].crosswalk \in Held
        BY <1>15, RunTypes DEF CloseOutput, Held
    <2>2. \A q \in Runners : run'[q].pc # "idle" => run'[q] = run[q]
        BY <1>15 DEF CloseOutput, Exit, TypeOK
    <2>3. ASSUME NEW n \in Files'
          PROVE  Grown(artifacts'[n])
        <3>1. artifacts'[n] = run[p].crosswalk \/ (n \in Files /\ artifacts'[n] = artifacts[n])
            BY <1>15, <2>3 DEF CloseOutput, Files, TypeOK
        <3>. QED
            BY <2>1, <3>1 DEF Grown, Held
    <2>. QED
        BY <2>2, <2>3 DEF Held, Grown
<1>16. CASE UNCHANGED vars
    BY <1>16 DEF vars, Held, Files, Grown
<1>. QED
    BY <1>5, <1>6, <1>7, <1>8, <1>10, <1>12, <1>13, <1>14, <1>15, <1>16 DEF Next, Step, Invoke
-----------------------------------------------------------------------------
(* What a crosswalk holds besides the reviews of donor rows.               *)
Donors(cw) == {rec \in cw.records : rec.key # DonorReviewKey}
DonorsIntact(cw) == cw.base \in Bases /\ Donors(cw) = CompileCrosswalk(cw.base).records

LEMMA CompiledIntact == \A b \in Bases : DonorsIntact(CompileCrosswalk(b))
BY CompileCrosswalkResult DEF DonorsIntact, Donors, DonorRecord, SumoRecord,
   DonorReviewKey, SumoReviewKey

LEMMA AppendedIntact ==
    ASSUME NEW p \in Runners, DonorsIntact(run[p].crosswalk), Updated(p) # Refused
    PROVE  DonorsIntact(Updated(p))
<1>1. /\ Updated(p).base = run[p].crosswalk.base
      /\ Updated(p).records = run[p].crosswalk.records
                                \cup {ReviewRecord(checkpoint[i]) : i \in DOMAIN checkpoint}
    BY AppendReviewedResult DEF Updated
<1>2. \A i \in DOMAIN checkpoint : ReviewRecord(checkpoint[i]).key = DonorReviewKey
    BY DEF ReviewRecord
<1>3. Donors(Updated(p)) = Donors(run[p].crosswalk)
    BY <1>1, <1>2 DEF Donors
<1>. QED
    BY <1>1, <1>3 DEF DonorsIntact

AllIntact == \A cw \in Held : DonorsIntact(cw)

LEMMA IntactNext == TypeOK /\ OutputsOwned /\ AllIntact /\ [Next]_vars => AllIntact'
<1> SUFFICES ASSUME TypeOK, OutputsOwned, AllIntact, [Next]_vars, NEW cw \in Held'
             PROVE  DonorsIntact(cw)
    BY DEF AllIntact, DonorsIntact, Donors
<1>1. ASSUME NEW p \in Runners, run[p].pc = "reviewing", Updated(p) # Refused, cw = Updated(p)
      PROVE  DonorsIntact(cw)
    <2>1. run[p].crosswalk \in Held
        BY <1>1 DEF Held
    <2>. QED
        BY <1>1, <2>1, AppendedIntact DEF AllIntact
<1>2. Grown(cw)
    BY HeldGrows
<1>. QED
    BY <1>1, <1>2, CompiledIntact DEF Grown, Appended, AllIntact

(* Reviews are layered on the records of the donor: whatever runs, crashes *)
(* and chained runs went before, a finished crosswalk holds besides its    *)
(* reviews exactly the records compiled for its base.                      *)
THEOREM ReviewsAreLayered == Spec => []DonorRowsPreserved
<1>1. Init => AllIntact
    BY DonorReviewConstants DEF Init, AllIntact, Held, Files
<1>2. AllIntact => DonorRowsPreserved
    BY DEF AllIntact, DonorRowsPreserved, Held, DonorsIntact, Donors
<1>. QED
    BY <1>1, <1>2, IntactNext, TypeCorrect, WritersOwnTheirFiles, PTL DEF Spec
-----------------------------------------------------------------------------
(* The rows a review may be of, when there is one version of the mappings. *)
OneVersion == \E b : Bases = {b}
Groundable == {r \in Rows \cap FrameNet \cap Candidates : \A b \in Bases : r \in RowsOf[b]}
ReviewedRows(cw) == RowsWith(cw, DonorReviewKey, States)
CandidateRows(cw) == RowsWith(cw, "framenet_candidate", {"candidate"})

LEMMA IntactCandidates ==
    ASSUME OneVersion, NEW cw, DonorsIntact(cw)
    PROVE  CandidateRows(cw) = Groundable
<1>1. PICK b \in Bases : cw.base = b /\ Bases = {b}
    BY DEF OneVersion, DonorsIntact
<1>2. Donors(cw) = {DonorRecord(r) : r \in RowsOf[b]} \cup {SumoRecord(c) : c \in SumoCases}
    BY <1>1, CompileCrosswalkResult DEF DonorsIntact
<1>3. \A rec \in Donors(cw) :
          rec.key = "framenet_candidate" /\ rec.state = "candidate"
              => rec.row \in RowsOf[b] /\ rec.row \in FrameNet /\ rec.row \in Candidates
    BY <1>2 DEF DonorRecord, SumoRecord, SumoReviewKey
<1>4. \A r \in RowsOf[b] : r \in FrameNet /\ r \in Candidates =>
          /\ DonorRecord(r) \in Donors(cw) /\ DonorRecord(r).row = r
          /\ DonorRecord(r).key = "framenet_candidate" /\ DonorRecord(r).state = "candidate"
    BY <1>2 DEF DonorRecord
<1>5. RowsOf[b] \subseteq Rows
    BY <1>1, CrosswalkConstants
<1>6. CandidateRows(cw) = {rec.row : rec \in {rec \in Donors(cw) :
                              rec.key = "framenet_candidate" /\ rec.state = "candidate"}}
    BY DEF CandidateRows, RowsWith, Donors, DonorReviewKey
<1>7. CandidateRows(cw) \subseteq Groundable
    BY <1>1, <1>3, <1>5, <1>6 DEF Groundable
<1>8. Groundable \subseteq CandidateRows(cw)
    BY <1>1, <1>4, <1>6 DEF Groundable
<1>. QED
    BY <1>7, <1>8

LEMMA CompiledUnreviewed == \A b \in Bases : ReviewedRows(CompileCrosswalk(b)) = {}
BY CompileCrosswalkResult DEF ReviewedRows, RowsWith, DonorRecord, SumoRecord,
   DonorReviewKey, SumoReviewKey

LineGrounded(line) == line \in Result => line.row \in Groundable

(* Reviewed rows, saved rows and rows to review are candidates of the      *)
(* mappings.                                                               *)
Grounded ==
    /\ \A i \in DOMAIN checkpoint : LineGrounded(checkpoint[i])
    /\ \A p \in Runners : run[p].pc = "reviewing" => run[p].todo \subseteq Groundable
    /\ \A cw \in Held : ReviewedRows(cw) \subseteq Groundable

LEMMA AppendedGrounded ==
    ASSUME Grounded, NEW cw, Appended(cw)
    PROVE  ReviewedRows(cw) \subseteq Groundable
<1>1. PICK p \in Runners : run[p].pc = "reviewing" /\ Loadable /\ Updated(p) # Refused
                               /\ cw = Updated(p)
    BY DEF Appended
<1>2. cw.records = run[p].crosswalk.records
                       \cup {ReviewRecord(checkpoint[i]) : i \in DOMAIN checkpoint}
    BY <1>1, AppendReviewedResult DEF Updated
<1>3. \A i \in DOMAIN checkpoint : ReviewRecord(checkpoint[i]).row \in Groundable
    BY <1>1 DEF Grounded, LineGrounded, Loadable, ReviewRecord
<1>4. ReviewedRows(run[p].crosswalk) \subseteq Groundable
    BY <1>1 DEF Grounded, Held
<1>. QED
    BY <1>2, <1>3, <1>4 DEF ReviewedRows, RowsWith

LEMMA SelectedGrounded ==
    ASSUME OneVersion, AllIntact, NEW n \in Files
    PROVE  Selected(artifacts[n]) \subseteq Groundable
<1>1. DonorsIntact(artifacts[n])
    BY DEF AllIntact, Held
<1>2. Selected(artifacts[n]) \subseteq CandidateRows(artifacts[n])
    BY TakeSubset DEF Selected, Reviewable, CandidateRows
<1>. QED
    BY <1>1, <1>2, IntactCandidates

LEMMA GroundedNext ==
    OneVersion /\ TypeOK /\ OutputsOwned /\ AllIntact /\ Grounded /\ [Next]_vars => Grounded'
<1> SUFFICES ASSUME OneVersion, TypeOK, OutputsOwned, AllIntact, Grounded, [Next]_vars
             PROVE  Grounded'
    OBVIOUS
<1> DEFINE Lines == \A i \in DOMAIN checkpoint : LineGrounded(checkpoint[i])
           Todo(q) == run[q].pc = "reviewing" => run[q].todo \subseteq Groundable
<1>1. \A cw \in Held' : ReviewedRows(cw) \subseteq Groundable
    BY HeldGrows, AppendedGrounded, CompiledUnreviewed DEF Grown, Grounded
<1>2. ASSUME UNCHANGED checkpoint PROVE Lines'
    BY <1>2 DEF Grounded, LineGrounded
<1>3. ASSUME NEW p \in Runners, NEW state, run' = [run EXCEPT ![p] = state],
             state.pc = "reviewing" => state.todo \subseteq Groundable
      PROVE  \A q \in Runners : Todo(q)'
    <2>1. run'[p] = state /\ \A q \in Runners \ {p} : run'[q] = run[q]
        BY <1>3 DEF TypeOK
    <2>. QED
        BY <1>3, <2>1 DEF Grounded
<1>4. ASSUME Lines', \A q \in Runners : Todo(q)'
      PROVE  Grounded'
    BY <1>1, <1>4 DEF Grounded, LineGrounded, ReviewedRows, RowsWith
<1>5. ASSUME NEW p \in Runners, NEW reason, Exit(p, reason)
      PROVE  \A q \in Runners : Todo(q)'
    BY <1>3, <1>5 DEF Exit
<1>6. ASSUME NEW p \in Runners, NEW row, run[p].pc = "reviewing", Leave(p, row)
      PROVE  \A q \in Runners : Todo(q)'
    <2> DEFINE state == [run[p] EXCEPT !.todo = @ \ {row}, !.passes = <<>>]
    <2>1. state.todo \subseteq run[p].todo
        BY <1>6, RunTypes DEF Reviewing
    <2>2. run' = [run EXCEPT ![p] = state] /\ state.todo \subseteq Groundable
        BY <1>6, <2>1 DEF Leave, Grounded
    <2>. HIDE DEF state
    <2>. QED
        BY <1>3, <2>2
<1>7. ASSUME NEW p \in Runners, NEW row \in Rows, AppendCheckpoint(p, row)
      PROVE  Lines'
    <2> DEFINE line == [row |-> row,
                        outcome |-> Reconcile(run[p].passes[1], run[p].passes[2])]
    <2>1. row \in Groundable /\ line.row = row
        BY <1>7, FirstSubset DEF AppendCheckpoint, BothPassesMade, Grounded
    <2>2. checkpoint \in Seq(Line) /\ checkpoint' = Written(line)
        BY <1>7 DEF AppendCheckpoint, TypeOK
    <2>3. \A i \in DOMAIN checkpoint' :
              \/ checkpoint'[i] = line
              \/ checkpoint'[i] = Garbage
              \/ i \in DOMAIN checkpoint /\ checkpoint'[i] = checkpoint[i]
        BY <2>2 DEF Written, Torn
    <2>4. LineGrounded(line) /\ LineGrounded(Garbage)
        BY <2>1, GarbageNotResult DEF LineGrounded
    <2>. QED
        BY <2>3, <2>4 DEF Grounded, LineGrounded
<1>8. ASSUME NEW p \in Runners, Crash(p)
      PROVE  Lines'
    <2>1. CASE checkpoint' = Append(checkpoint, Partial)
        <3>1. \A i \in DOMAIN checkpoint' :
                  \/ checkpoint'[i] = Partial
                  \/ i \in DOMAIN checkpoint /\ checkpoint'[i] = checkpoint[i]
            BY <2>1 DEF TypeOK
        <3>. QED
            BY <3>1, GarbageNotResult DEF Grounded, LineGrounded
    <2>. QED
        BY <1>2, <1>8, <2>1 DEF Crash
<1>9. ASSUME NEW p \in Runners, NEW input \in Names, NEW output \in Names \cup {NoOutput},
             NEW models \in ModelPairs, Start(p, input, output, models)
      PROVE  \A q \in Runners : Todo(q)'
    <2> DEFINE started == [pc |-> "reviewing", crosswalk |-> artifacts[input],
                           output |-> output, models |-> models,
                           todo |-> Selected(artifacts[input]), passes |-> <<>>]
    <2>1. run' = [run EXCEPT ![p] = started]
        BY <1>9 DEF Start
    <2>2. started.todo \subseteq Groundable
        BY <1>9, SelectedGrounded DEF Start
    <2>. HIDE DEF started
    <2>. QED
        BY <1>3, <2>1, <2>2
<1>10. ASSUME NEW p \in Runners, NEW cw, NEW output, Create(p, cw, output)
       PROVE  \A q \in Runners : Todo(q)'
    BY <1>3, <1>10 DEF Create
<1>11. ASSUME NEW p \in Runners, NEW row \in Rows, NEW verdict \in Verdicts,
              ReviewPass(p, row, verdict)
       PROVE  \A q \in Runners : Todo(q)'
    <2> DEFINE state == [run[p] EXCEPT !.passes = Append(@, verdict)]
    <2>1. run[p].pc = "reviewing" /\ run' = [run EXCEPT ![p] = state]
        BY <1>11 DEF ReviewPass, AtPass
    <2>2. state.todo = run[p].todo
        BY <2>1, RunTypes DEF Reviewing
    <2>3. state.todo \subseteq Groundable
        BY <2>1, <2>2 DEF Grounded
    <2>. HIDE DEF state
    <2>. QED
        BY <1>3, <2>1, <2>3
<1>12. CASE UNCHANGED vars
    BY <1>2, <1>4, <1>12 DEF vars, Grounded
<1>13. ASSUME NEW p \in Runners, Step(p)
       PROVE  Grounded'
    BY <1>2, <1>4, <1>5, <1>6, <1>7, <1>10, <1>11, <1>13
       DEF Step, ReviewPass, ReviewFails, AtPass, AppendCheckpoint, BothPassesMade,
       Finish, OpenOutput, FinishRefused, CloseOutput
<1>14. ASSUME NEW p \in Runners, Invoke(p)
       PROVE  Grounded'
    BY <1>2, <1>4, <1>5, <1>9, <1>10, <1>14
       DEF Invoke, Compile, CompileRefused, Start, StartRefused
<1>15. ASSUME NEW p \in Runners, Crash(p)
       PROVE  Grounded'
    BY <1>4, <1>5, <1>8, <1>15 DEF Crash
<1>. QED
    BY <1>12, <1>13, <1>14, <1>15 DEF Next

(* With one version of the mappings every review record of a finished      *)
(* crosswalk reviews a candidate donor row of that crosswalk, though the   *)
(* append never looks for the row; with two versions it is false.          *)
THEOREM ReviewsAreGrounded ==
    ASSUME OneVersion
    PROVE  Spec => []ReviewsGrounded
<1>1. Init => AllIntact /\ Grounded
    BY DonorReviewConstants DEF Init, AllIntact, Grounded, Held, Files
<1>2. AllIntact /\ Grounded => ReviewsGrounded
    BY IntactCandidates DEF AllIntact, Grounded, ReviewsGrounded, Held, CandidateRows, ReviewedRows
<1>3. TypeOK /\ OutputsOwned /\ AllIntact /\ Grounded /\ [Next]_vars => AllIntact' /\ Grounded'
    BY IntactNext, GroundedNext
<1>. QED
    BY <1>1, <1>2, <1>3, TypeCorrect, WritersOwnTheirFiles, PTL DEF Spec

(***************************************************************************)
(* The ledger: the outcome of a row's first line in the checkpoint is      *)
(* decided for good, and a finished crosswalk publishes outcomes that were *)
(* decided, although two runners may save two results of a row: no         *)
(* crosswalk is ever made of such a checkpoint.                            *)
(***************************************************************************)
(* The saved results of a row have a first one. *)
IsFirst(lines, i, r) ==
    i \in ResultsOf(lines, r) /\ \A j \in ResultsOf(lines, r) : i <= j

Ordered(lines) ==
    \A r \in Rows : ResultsOf(lines, r) # {} => \E i : IsFirst(lines, i, r)

(* The review records of a crosswalk are those the checkpoint decides. *)
Recorded(lines, cw) ==
    \A rec \in cw.records :
        rec.key = DonorReviewKey =>
            ResultsOf(lines, rec.row) # {} /\ OutcomeOf(lines, rec.row) = rec.state

LedgerInv ==
    /\ Ordered(checkpoint)
    /\ \A n \in Files : Recorded(checkpoint, artifacts[n])
    /\ \A p \in Runners :
           run[p].pc \in {"reviewing", "writing"} => Recorded(checkpoint, run[p].crosswalk)

LEMMA FirstDecides ==
    ASSUME NEW lines \in Seq(Line), NEW r, NEW i, IsFirst(lines, i, r)
    PROVE  OutcomeOf(lines, r) = lines[i].outcome
<1>1. \A k : (k \in ResultsOf(lines, r) /\ \A j \in ResultsOf(lines, r) : k <= j) => k = i
  BY DEF IsFirst, ResultsOf
<1>2. ResultsOf(lines, r) # {}
  BY DEF IsFirst
<1>3. (CHOOSE k \in ResultsOf(lines, r) : \A j \in ResultsOf(lines, r) : k <= j) = i
  BY <1>1 DEF IsFirst
<1> QED
  BY <1>2, <1>3 DEF OutcomeOf

(* A checkpoint that grew: it holds the results it held at the places they *)
(* were, and the places of new ones come after all the old places.         *)
Grew(old, new) ==
    /\ DOMAIN old \subseteq DOMAIN new
    /\ \A i \in DOMAIN old : old[i] \in Result => new[i] = old[i]
    /\ \A i \in DOMAIN old : new[i] \in Result => new[i] = old[i]
    /\ \A i \in DOMAIN new \ DOMAIN old : \A j \in DOMAIN old : j <= i

(* Then every row keeps its outcome. *)
LEMMA OutcomeKept ==
    ASSUME NEW old \in Seq(Line), NEW new \in Seq(Line), Grew(old, new), Ordered(old)
    PROVE  \A r \in Rows : ResultsOf(old, r) # {} =>
               ResultsOf(new, r) # {} /\ OutcomeOf(new, r) = OutcomeOf(old, r)
<1> SUFFICES ASSUME NEW r \in Rows, ResultsOf(old, r) # {}
             PROVE  ResultsOf(new, r) # {} /\ OutcomeOf(new, r) = OutcomeOf(old, r)
  OBVIOUS
<1>1. PICK i : IsFirst(old, i, r)
  BY DEF Ordered
<1>2. i \in ResultsOf(new, r) /\ new[i] = old[i]
  BY <1>1 DEF IsFirst, ResultsOf, Grew
<1>3. \A j \in ResultsOf(new, r) : i <= j
  BY <1>1 DEF IsFirst, ResultsOf, Grew
<1>4. OutcomeOf(old, r) = old[i].outcome
  BY <1>1, FirstDecides
<1>5. OutcomeOf(new, r) = new[i].outcome
  BY <1>2, <1>3, FirstDecides DEF IsFirst
<1> QED
  BY <1>2, <1>4, <1>5

LEMMA RecordedKept ==
    ASSUME NEW old \in Seq(Line), NEW new \in Seq(Line), Grew(old, new), Ordered(old),
           NEW cw \in CrosswalkSet, Recorded(old, cw)
    PROVE  Recorded(new, cw)
<1>1. \A rec \in cw.records : rec.key = DonorReviewKey => rec.row \in Rows
  BY DEF CrosswalkSet, Record, RecordOf, DonorReviewKey, SumoReviewKey
<1> QED
  BY <1>1, OutcomeKept DEF Recorded

(* A line written at the end, or half of one, makes a checkpoint that grew *)
(* and whose results of each row still have a first one.                   *)
LEMMA WrittenGrew ==
    ASSUME TypeOK, Ordered(checkpoint), NEW line \in Result
    PROVE  Grew(checkpoint, Written(line)) /\ Ordered(Written(line))
<1> DEFINE old == checkpoint
           new == Written(line)
           last == Len(checkpoint) + 1
<1>1. old \in Seq(Line)
  BY DEF TypeOK
<1>2. Grew(old, new)
  BY <1>1, WrittenLines, GarbageNotResult DEF Grew
<1>3. ASSUME NEW r \in Rows, ResultsOf(new, r) # {}
      PROVE  \E i : IsFirst(new, i, r)
  <2>1. CASE ResultsOf(old, r) # {}
    <3>1. PICK i : IsFirst(old, i, r)
      BY <2>1 DEF Ordered
    <3>2. IsFirst(new, i, r)
      BY <1>2, <3>1 DEF IsFirst, ResultsOf, Grew
    <3> QED
      BY <3>2
  <2>2. CASE ResultsOf(old, r) = {}
    <3>1. \A i \in ResultsOf(new, r) : i = last
      BY <1>1, <2>2, WrittenLines, GarbageNotResult DEF ResultsOf
    <3> QED
      BY <1>1, <1>3, <3>1 DEF IsFirst
  <2> QED
    BY <2>1, <2>2
<1> QED
  BY <1>2, <1>3 DEF Ordered

LEMMA TornGrew ==
    ASSUME TypeOK, Ordered(checkpoint)
    PROVE  /\ Grew(checkpoint, Append(checkpoint, Partial))
           /\ \A r : ResultsOf(Append(checkpoint, Partial), r) = ResultsOf(checkpoint, r)
           /\ Ordered(Append(checkpoint, Partial))
<1> DEFINE new == Append(checkpoint, Partial)
<1>1. /\ DOMAIN new = 1..(Len(checkpoint) + 1)
      /\ DOMAIN checkpoint = 1..Len(checkpoint)
      /\ new[Len(checkpoint) + 1] = Partial
      /\ \A i \in DOMAIN checkpoint : new[i] = checkpoint[i]
      /\ Len(checkpoint) \in Nat
  BY DEF TypeOK
<1>2. Grew(checkpoint, new)
  BY <1>1, GarbageNotResult DEF Grew
<1>3. \A r : ResultsOf(new, r) = ResultsOf(checkpoint, r)
  BY <1>1, GarbageNotResult DEF ResultsOf
<1> QED
  BY <1>2, <1>3 DEF Ordered, IsFirst

LEMMA CheckpointGrows ==
    ASSUME TypeOK, Ordered(checkpoint), [Next]_vars
    PROVE  Grew(checkpoint, checkpoint') /\ Ordered(checkpoint')
<1>1. ASSUME NEW p \in Runners, NEW row \in Rows, AppendCheckpoint(p, row)
      PROVE  Grew(checkpoint, checkpoint') /\ Ordered(checkpoint')
  <2>1. [row |-> row, outcome |-> Reconcile(run[p].passes[1], run[p].passes[2])] \in Result
    BY ReconcileType DEF Result
  <2> QED
    BY <1>1, <2>1, WrittenGrew DEF AppendCheckpoint
<1>2. ASSUME UNCHANGED checkpoint
      PROVE  Grew(checkpoint, checkpoint') /\ Ordered(checkpoint')
  BY <1>2 DEF Grew
<1>3. ASSUME NEW p \in Runners, Crash(p)
      PROVE  Grew(checkpoint, checkpoint') /\ Ordered(checkpoint')
  BY <1>2, <1>3, TornGrew DEF Crash
<1> QED
  BY <1>1, <1>2, <1>3 DEF Next, Step, Invoke, Compile, CompileRefused, Start, StartRefused,
     ReviewPass, ReviewFails, Finish, OpenOutput, FinishRefused, CloseOutput, vars
-----------------------------------------------------------------------------
LEMMA CompiledRecorded ==
    \A b \in Bases : \A lines : Recorded(lines, CompileCrosswalk(b))
BY CompileCrosswalkResult
   DEF Recorded, DonorRecord, SumoRecord, DonorReviewKey, SumoReviewKey

(* The append refuses a checkpoint with two results of one row, so the     *)
(* only result of a row is the one that decides it.                        *)
LEMMA UpdatedRecorded ==
    ASSUME TypeOK, LedgerInv, Loadable, NEW p \in Runners,
           run[p].pc = "reviewing", Updated(p) # Refused
    PROVE  Recorded(checkpoint, Updated(p))
<1> DEFINE added == [i \in DOMAIN checkpoint |-> ReviewRecord(checkpoint[i])]
<1>1. Updated(p).records = run[p].crosswalk.records
                             \cup {ReviewRecord(checkpoint[i]) : i \in DOMAIN checkpoint}
  BY AppendReviewedResult DEF Updated
<1>2. \A i, j \in DOMAIN checkpoint : checkpoint[i].row = checkpoint[j].row => i = j
  <2>1. IsInjective([i \in DOMAIN added |-> RecordId(added[i])])
    BY ConstructResult DEF Updated, AppendReviewed, Closed
  <2> QED
    BY <2>1 DEF IsInjective, RecordId, ReviewRecord
<1>3. ASSUME NEW i \in DOMAIN checkpoint
      PROVE  /\ ResultsOf(checkpoint, checkpoint[i].row) # {}
             /\ OutcomeOf(checkpoint, checkpoint[i].row) = checkpoint[i].outcome
  <2>1. IsFirst(checkpoint, i, checkpoint[i].row)
    BY <1>2, <1>3 DEF IsFirst, ResultsOf, Loadable, TypeOK
  <2> QED
    BY <2>1, FirstDecides DEF IsFirst, TypeOK
<1>4. Recorded(checkpoint, run[p].crosswalk)
  BY DEF LedgerInv
<1> QED
  BY <1>1, <1>3, <1>4 DEF Recorded, ReviewRecord

(* The crosswalks of the next state are recorded in this checkpoint. *)
LEMMA HeldRecorded ==
    ASSUME TypeOK, LedgerInv, [Next]_vars
    PROVE  /\ \A n \in Files' : Recorded(checkpoint, artifacts'[n])
           /\ \A p \in Runners : run'[p].pc \in {"reviewing", "writing"} =>
                  Recorded(checkpoint, run'[p].crosswalk)
<1> DEFINE RecordedBy(q) == run'[q].pc \in {"reviewing", "writing"} =>
                          Recorded(checkpoint, run'[q].crosswalk)
           FilesRecorded == \A n \in Files' : Recorded(checkpoint, artifacts'[n])
<1>1. ASSUME UNCHANGED artifacts PROVE FilesRecorded
  BY <1>1 DEF LedgerInv, Files
<1>2. ASSUME NEW p, NEW q \in Runners, run' = [run EXCEPT ![p] = run'[p]], q # p
      PROVE  RecordedBy(q)
  BY <1>2 DEF LedgerInv, TypeOK
<1>3. ASSUME NEW p \in Runners, NEW reason, Exit(p, reason)
      PROVE  \A q \in Runners : RecordedBy(q)
  <2>1. run'[p].pc = "idle" /\ run' = [run EXCEPT ![p] = run'[p]]
    BY <1>3 DEF Exit, TypeOK
  <2> QED
    BY <1>2, <2>1
<1>4. ASSUME NEW p \in Runners, NEW cw, NEW output, Create(p, cw, output),
             Recorded(checkpoint, cw)
      PROVE  FilesRecorded /\ \A q \in Runners : RecordedBy(q)
  <2>1. run'[p].crosswalk = cw /\ run' = [run EXCEPT ![p] = run'[p]]
    BY <1>4 DEF Create, TypeOK
  <2>2. \A n \in Files' : n \in Files /\ artifacts'[n] = artifacts[n]
    BY <1>4, DonorReviewConstants DEF Create, Files, TypeOK
  <2> QED
    BY <1>2, <1>4, <2>1, <2>2 DEF LedgerInv
<1>5. ASSUME NEW p \in Runners, NEW b \in Bases, NEW output \in Names, Compile(p, b, output)
      PROVE  FilesRecorded /\ \A q \in Runners : RecordedBy(q)
  BY <1>4, <1>5, CompiledRecorded DEF Compile
<1>6. ASSUME NEW p \in Runners, NEW input \in Names, NEW output \in Names \cup {NoOutput},
             NEW models \in ModelPairs, Start(p, input, output, models)
      PROVE  FilesRecorded /\ \A q \in Runners : RecordedBy(q)
  <2>1. run'[p].crosswalk = artifacts[input] /\ run' = [run EXCEPT ![p] = run'[p]]
    BY <1>6 DEF Start, TypeOK
  <2> QED
    BY <1>1, <1>2, <1>6, <2>1 DEF Start, LedgerInv
<1>7. ASSUME NEW p \in Runners, NEW row \in Rows, NEW verdict \in Verdicts,
             ReviewPass(p, row, verdict)
      PROVE  FilesRecorded /\ \A q \in Runners : RecordedBy(q)
  <2>1. run[p] \in Reviewing
    BY <1>7, RunTypes DEF ReviewPass, AtPass
  <2>2. run'[p].crosswalk = run[p].crosswalk /\ run' = [run EXCEPT ![p] = run'[p]]
    BY <1>7, <2>1 DEF ReviewPass, TypeOK, Reviewing
  <2>3. RecordedBy(p)
    BY <1>7, <2>2 DEF ReviewPass, AtPass, LedgerInv
  <2> QED
    BY <1>1, <1>2, <1>7, <2>2, <2>3 DEF ReviewPass
<1>8. ASSUME NEW p \in Runners, NEW row \in Rows, run[p].pc = "reviewing", Leave(p, row)
      PROVE  \A q \in Runners : RecordedBy(q)
  <2>1. run[p] \in Reviewing
    BY <1>8, RunTypes
  <2>2. run'[p].crosswalk = run[p].crosswalk /\ run' = [run EXCEPT ![p] = run'[p]]
    BY <1>8, <2>1 DEF Leave, TypeOK, Reviewing
  <2>3. RecordedBy(p)
    BY <1>8, <2>2 DEF LedgerInv
  <2> QED
    BY <1>2, <2>2, <2>3
<1>9. ASSUME NEW p \in Runners, NEW row \in Rows, ReviewFails(p, row) \/ AppendCheckpoint(p, row)
      PROVE  FilesRecorded /\ \A q \in Runners : RecordedBy(q)
  BY <1>1, <1>8, <1>9 DEF ReviewFails, AtPass, AppendCheckpoint, BothPassesMade
<1>10. ASSUME NEW p \in Runners, OpenOutput(p)
       PROVE  FilesRecorded /\ \A q \in Runners : RecordedBy(q)
  BY <1>4, <1>10, UpdatedRecorded DEF OpenOutput, AtEnd
<1>11. ASSUME NEW p \in Runners, CloseOutput(p)
       PROVE  FilesRecorded /\ \A q \in Runners : RecordedBy(q)
  <2>1. Recorded(checkpoint, run[p].crosswalk)
    BY <1>11 DEF CloseOutput, LedgerInv
  <2>2. \A n \in Files' : \/ artifacts'[n] = run[p].crosswalk
                          \/ n \in Files /\ artifacts'[n] = artifacts[n]
    BY <1>11 DEF CloseOutput, Files, TypeOK
  <2> QED
    BY <1>3, <1>11, <2>1, <2>2 DEF CloseOutput, LedgerInv
<1>12. CASE UNCHANGED vars
  BY <1>1, <1>12 DEF vars, LedgerInv
<1> QED
  BY <1>1, <1>3, <1>5, <1>6, <1>7, <1>9, <1>10, <1>11, <1>12
     DEF Next, Step, Invoke, CompileRefused, StartRefused, Finish, FinishRefused, Crash

LEMMA LedgerInvNext == TypeOK /\ TypeOK' /\ LedgerInv /\ [Next]_vars => LedgerInv'
<1> SUFFICES ASSUME TypeOK, TypeOK', LedgerInv, [Next]_vars PROVE LedgerInv'
  OBVIOUS
<1>1. /\ checkpoint \in Seq(Line) /\ checkpoint' \in Seq(Line)
      /\ Grew(checkpoint, checkpoint') /\ Ordered(checkpoint) /\ Ordered(checkpoint')
  BY CheckpointGrows DEF TypeOK, LedgerInv
<1>2. \A n \in Files' : Recorded(checkpoint', artifacts'[n])
  BY <1>1, HeldRecorded, RecordedKept DEF Files
<1>3. ASSUME NEW p \in Runners, run'[p].pc \in {"reviewing", "writing"}
      PROVE  Recorded(checkpoint', run'[p].crosswalk)
  <2>1. run'[p].crosswalk \in CrosswalkSet
    BY <1>3 DEF TypeOK, Idle, Reviewing, Writing
  <2> QED
    BY <1>1, <1>3, <2>1, HeldRecorded, RecordedKept
<1> QED
  BY <1>1, <1>2, <1>3 DEF LedgerInv

THEOREM LedgerIsRecorded == Spec => []LedgerInv
<1>1. Init => LedgerInv
  BY DonorReviewConstants DEF Init, LedgerInv, Ordered, ResultsOf, Files
<1>2. TypeOK /\ LedgerInv /\ [Next]_vars => LedgerInv'
  BY TypeOKNext, LedgerInvNext
<1> QED
  BY <1>1, <1>2, TypeCorrect, PTL DEF Spec
-----------------------------------------------------------------------------
LEMMA LedgerInit == Init => Ledger!Init
<1> SUFFICES ASSUME Init PROVE Ledger!Init
  OBVIOUS
<1>1. Decided = [r \in Rows |-> Undecided]
  BY DEF Init, Decided, OutcomeOf, ResultsOf
<1>2. Published = [n \in Names |-> Unpublished]
  BY DonorReviewConstants DEF Init, Published, PublishedOutcomes, Files
<1> QED
  BY <1>1, <1>2 DEF Ledger!Init

(* A row without a result is undecided, and a row with one is not. *)
LEMMA DecidedHasResult ==
    ASSUME TypeOK, Ordered(checkpoint), NEW r \in Rows
    PROVE  OutcomeOf(checkpoint, r) = Undecided <=> ResultsOf(checkpoint, r) = {}
<1>1. CASE ResultsOf(checkpoint, r) = {}
  BY <1>1 DEF OutcomeOf
<1>2. CASE ResultsOf(checkpoint, r) # {}
  <2>1. PICK i : IsFirst(checkpoint, i, r)
    BY <1>2 DEF Ordered
  <2>2. OutcomeOf(checkpoint, r) = checkpoint[i].outcome /\ checkpoint[i] \in Result
    BY <2>1, FirstDecides DEF TypeOK, IsFirst, ResultsOf
  <2> QED
    BY <1>2, <2>2, DonorReviewConstants DEF Result
<1> QED
  BY <1>1, <1>2

(* Appending a result decides its row, unless it was decided before or the *)
(* line runs into a half-written one.                                      *)
LEMMA AppendDecides ==
    ASSUME TypeOK, TypeOK', LedgerInv, [Next]_vars,
           NEW p \in Runners, NEW row \in Rows, AppendCheckpoint(p, row)
    PROVE  \/ UNCHANGED Decided
           \/ \E outcome \in Outcomes :
                 /\ Decided[row] = Undecided
                 /\ Decided' = [Decided EXCEPT ![row] = outcome]
<1> DEFINE line == [row |-> row,
                    outcome |-> Reconcile(run[p].passes[1], run[p].passes[2])]
           last == Len(checkpoint) + 1
           R(r) == ResultsOf(checkpoint, r)
           D(r) == OutcomeOf(checkpoint, r)
<1>1. /\ checkpoint \in Seq(Line) /\ checkpoint' \in Seq(Line)
      /\ Grew(checkpoint, checkpoint') /\ Ordered(checkpoint)
  BY CheckpointGrows DEF TypeOK, LedgerInv
<1>2. line \in Result /\ line.row = row /\ checkpoint' = Written(line)
  BY ReconcileType DEF Result, AppendCheckpoint
<1>3. \A r \in Rows : R(r) # {} => D(r)' = D(r)
  BY <1>1, OutcomeKept
<1>4. \A r \in Rows : \A i \in R(r)' : i \in R(r) \/ (i = last /\ checkpoint'[i] = line)
  BY <1>1, <1>2, WrittenLines, GarbageNotResult DEF ResultsOf
<1>5. ASSUME NEW r \in Rows, R(r) = {}, r # row
      PROVE  D(r)' = D(r)
  <2>1. R(r)' = {}
    <3> SUFFICES ASSUME NEW i \in R(r)' PROVE FALSE
      OBVIOUS
    <3>1. checkpoint'[i] = line
      BY <1>4, <1>5
    <3>2. checkpoint'[i].row = r
      BY DEF ResultsOf
    <3> QED
      BY <1>2, <1>5, <3>1, <3>2
  <2> QED
    BY <1>5, <2>1 DEF OutcomeOf
<1>6. CASE R(row) # {}
  <2>1. \A r \in Rows : D(r)' = D(r)
    BY <1>3, <1>5, <1>6
  <2> QED
    BY <2>1 DEF Decided
<1>7. CASE R(row) = {} /\ R(row)' = {}
  <2>1. D(row)' = D(row)
    BY <1>7 DEF OutcomeOf
  <2> QED
    BY <1>3, <1>5, <2>1 DEF Decided
<1>8. CASE R(row) = {} /\ R(row)' # {}
  <2>1. last \in R(row)' /\ \A j \in R(row)' : j = last
    BY <1>4, <1>8
  <2>2. IsFirst(checkpoint', last, row)
    BY <1>1, <2>1 DEF IsFirst
  <2>3. checkpoint'[last] = line
    BY <1>4, <1>8, <2>1
  <2>4. D(row)' = line.outcome
    BY <1>1, <2>2, <2>3, FirstDecides
  <2>5. D(row) = Undecided
    BY <1>8 DEF OutcomeOf
  <2>6. line.outcome \in Outcomes
    BY <1>2 DEF Result
  <2>7. Decided' = [Decided EXCEPT ![row] = line.outcome]
    BY <1>3, <1>5, <2>4 DEF Decided
  <2> QED
    BY <2>5, <2>6, <2>7 DEF Decided
<1> QED
  BY <1>6, <1>7, <1>8

(* Closing a file publishes the outcomes of the rows it has reviews of. *)
LEMMA ClosePublishes ==
    ASSUME TypeOK, OutputsOwned, LedgerInv, NEW p \in Runners, CloseOutput(p)
    PROVE  \E n \in Names, S \in SUBSET Ledger!DecidedRows : Ledger!Publish(n, S)
<1> DEFINE cw == run[p].crosswalk
           S == RowsWith(cw, DonorReviewKey, States)
<1>0. PICK n \in Names : n = run[p].output
  BY RunTypes DEF CloseOutput, Writing
<1>1. n \in Names /\ cw \in CrosswalkSet
  BY RunTypes DEF CloseOutput, Writing
<1>2. artifacts[n] = Partial /\ artifacts' = [artifacts EXCEPT ![n] = cw]
  BY <1>0 DEF CloseOutput, OutputsOwned
<1>3. Recorded(checkpoint, cw)
  BY DEF CloseOutput, LedgerInv
<1>4. \A rec \in cw.records : rec.key = DonorReviewKey => rec.row \in Rows
  BY <1>1 DEF CrosswalkSet, Record, RecordOf, DonorReviewKey, SumoReviewKey
<1>5. S \in SUBSET Ledger!DecidedRows
  <2> SUFFICES ASSUME NEW r \in S
               PROVE  r \in Rows /\ OutcomeOf(checkpoint, r) # Undecided
    BY DEF Ledger!DecidedRows, Decided
  <2>1. PICK rec \in cw.records : rec.key = DonorReviewKey /\ rec.row = r
    BY DEF RowsWith
  <2> QED
    BY <1>3, <1>4, <2>1, DecidedHasResult DEF Recorded, LedgerInv
<1>6. \A r \in S : ReviewState(cw, r) = OutcomeOf(checkpoint, r)
  <2> SUFFICES ASSUME NEW r \in S PROVE ReviewState(cw, r) = OutcomeOf(checkpoint, r)
    OBVIOUS
  <2> DEFINE rec == CHOOSE x \in cw.records : RecordId(x) = <<DonorReviewKey, r>>
  <2>1. \E x \in cw.records : RecordId(x) = <<DonorReviewKey, r>>
    BY DEF RowsWith, RecordId
  <2>2. rec \in cw.records /\ rec.key = DonorReviewKey /\ rec.row = r
    BY <2>1 DEF RecordId
  <2> QED
    BY <1>3, <2>2 DEF Recorded, ReviewState
<1>7. Published[n] = Unpublished
  BY <1>1, <1>2, DonorReviewConstants DEF Published, PublishedOutcomes, Files
<1>8. Published' = [Published EXCEPT ![n] = [r \in S |-> Decided[r]]]
  <2>1. PublishedOutcomes(n)' = [r \in S |-> Decided[r]]
    <3>1. n \in Files' /\ artifacts'[n] = cw
      BY <1>1, <1>2 DEF Files, TypeOK
    <3>2. PublishedOutcomes(n)' = [r \in S |-> ReviewState(cw, r)]
      BY <3>1 DEF PublishedOutcomes
    <3>3. \A r \in S : Decided[r] = OutcomeOf(checkpoint, r)
      BY <1>4 DEF Decided, RowsWith
    <3> QED
      BY <1>6, <3>2, <3>3
  <2>2. \A m \in Names \ {n} : PublishedOutcomes(m)' = PublishedOutcomes(m)
    BY <1>2 DEF PublishedOutcomes, Files, TypeOK
  <2> QED
    BY <1>1, <2>1, <2>2 DEF Published
<1>9. UNCHANGED Decided
  BY DEF CloseOutput, Decided
<1> QED
  BY <1>1, <1>5, <1>7, <1>8, <1>9 DEF Ledger!Publish

LEMMA LedgerStep ==
    TypeOK /\ TypeOK' /\ OutputsOwned /\ LedgerInv /\ [Next]_vars
    => [Ledger!Next]_<<Decided, Published>>
<1> SUFFICES ASSUME TypeOK, TypeOK', OutputsOwned, LedgerInv, [Next]_vars
             PROVE  [Ledger!Next]_<<Decided, Published>>
  OBVIOUS
<1>1. ASSUME UNCHANGED artifacts PROVE UNCHANGED Published
  BY <1>1 DEF Published, PublishedOutcomes, Files
<1>2. ASSUME UNCHANGED checkpoint PROVE UNCHANGED Decided
  BY <1>2 DEF Decided
<1>3. ASSUME NEW p, NEW cw, NEW output, Create(p, cw, output)
      PROVE  UNCHANGED Published
  <2>1. \A n \in Names : PublishedOutcomes(n)' = PublishedOutcomes(n)
    BY <1>3, DonorReviewConstants DEF Create, PublishedOutcomes, Files, TypeOK
  <2> QED
    BY <2>1 DEF Published
<1>4. ASSUME NEW p \in Runners, NEW row \in Rows, AppendCheckpoint(p, row)
      PROVE  [Ledger!Next]_<<Decided, Published>>
  BY <1>1, <1>4, AppendDecides DEF AppendCheckpoint, Ledger!Next, Ledger!Decide
<1>5. ASSUME NEW p \in Runners, CloseOutput(p)
      PROVE  [Ledger!Next]_<<Decided, Published>>
  BY <1>5, ClosePublishes DEF Ledger!Next
<1>6. ASSUME NEW p \in Runners, Crash(p)
      PROVE  [Ledger!Next]_<<Decided, Published>>
  <2>1. CASE UNCHANGED checkpoint
    BY <1>1, <1>2, <1>6, <2>1 DEF Crash
  <2>2. CASE checkpoint' = Append(checkpoint, Partial)
    <3>1. \A r \in Rows : ResultsOf(checkpoint', r) = ResultsOf(checkpoint, r)
      BY <2>2, TornGrew DEF LedgerInv
    <3>2. ASSUME NEW r \in Rows
          PROVE  OutcomeOf(checkpoint', r) = OutcomeOf(checkpoint, r)
      <4>1. CASE ResultsOf(checkpoint, r) = {}
        BY <3>1, <4>1 DEF OutcomeOf
      <4>2. CASE ResultsOf(checkpoint, r) # {}
        <5>1. /\ checkpoint \in Seq(Line) /\ checkpoint' \in Seq(Line)
              /\ Grew(checkpoint, checkpoint') /\ Ordered(checkpoint)
          BY <2>2, TornGrew DEF LedgerInv, TypeOK
        <5> QED
          BY <4>2, <5>1, OutcomeKept
      <4> QED
        BY <4>1, <4>2
    <3> QED
      BY <1>1, <1>6, <3>2 DEF Crash, Decided
  <2> QED
    BY <1>6, <2>1, <2>2 DEF Crash
<1>7. CASE UNCHANGED Decided /\ UNCHANGED Published
  BY <1>7
<1>8. ASSUME NEW p \in Runners, OpenOutput(p) \/ \E b \in Bases, n \in Names : Compile(p, b, n)
      PROVE  UNCHANGED Decided /\ UNCHANGED Published
  BY <1>2, <1>3, <1>8 DEF OpenOutput, Compile
<1>9. ASSUME NEW p \in Runners,
             \/ \E row \in Rows, verdict \in Verdicts : ReviewPass(p, row, verdict)
             \/ \E row \in Rows : ReviewFails(p, row)
             \/ Finish(p) \/ FinishRefused(p)
             \/ \E output \in Names : CompileRefused(p, output)
             \/ \E input \in Names, output \in Names \cup {NoOutput}, models \in ModelPairs :
                    Start(p, input, output, models)
             \/ \E input \in Names : StartRefused(p, input)
      PROVE  UNCHANGED Decided /\ UNCHANGED Published
  BY <1>1, <1>2, <1>9 DEF CompileRefused, Start, StartRefused, ReviewPass, ReviewFails,
     Finish, FinishRefused
<1>10. CASE UNCHANGED vars
  BY <1>1, <1>2, <1>7, <1>10 DEF vars
<1> QED
  BY <1>4, <1>5, <1>6, <1>7, <1>8, <1>9, <1>10 DEF Next, Step, Invoke

(* The donor review implements the ledger. *)
THEOREM DonorReviewKeepsLedger == Spec => LedgerKept
<1>1. Ledger!Spec <=> Ledger!Init /\ [][Ledger!Next]_<<Decided, Published>>
  BY DEF Ledger!Spec
<1> QED
  BY <1>1, LedgerInit, LedgerStep, TypeCorrect, WritersOwnTheirFiles, LedgerIsRecorded, PTL
     DEF Spec, LedgerKept

(***************************************************************************)
(* Where claims of the repository that are false in general hold.  A       *)
(* program that ends does so for a reason.                                 *)
(***************************************************************************)
Ended(reason) == [pc |-> "idle", exit |-> reason]

(* What a runner may be after a step that does not end it for this reason. *)
LEMMA EndsOtherwise ==
    ASSUME TypeOK, NEW p \in Runners, NEW state, run' = [run EXCEPT ![p] = state], NEW reason,
           state # Ended(reason), \A q \in Runners : run[q] # Ended(reason)
    PROVE  \A q \in Runners : run'[q] # Ended(reason)
BY DEF TypeOK

LEMMA LeaveGoesOn ==
    ASSUME TypeOK, NEW p \in Runners, run[p].pc = "reviewing", NEW row, Leave(p, row)
    PROVE  \E state : run' = [run EXCEPT ![p] = state] /\ state.pc = "reviewing"
                          /\ state.crosswalk = run[p].crosswalk
<1>. DEFINE state == [run[p] EXCEPT !.todo = @ \ {row}, !.passes = <<>>]
<1>1. run[p] \in Reviewing
    BY RunTypes
<1>2. run' = [run EXCEPT ![p] = state]
    BY <1>1 DEF Leave, TypeOK, Reviewing
<1>3. state.pc = "reviewing" /\ state.crosswalk = run[p].crosswalk
    BY <1>1 DEF Reviewing
<1>. QED
    BY <1>2, <1>3

(* An append to the end of the checkpoint breaks no line, and a kill in    *)
(* the middle of one breaks only that one.                                 *)
LEMMA BrokenFinite ==
    ASSUME TypeOK
    PROVE  IsFiniteSet(BrokenLines) /\ Cardinality(BrokenLines) \in Nat
<1>1. DOMAIN checkpoint = 1..Len(checkpoint) /\ Len(checkpoint) \in Nat
    BY DEF TypeOK
<1>2. IsFiniteSet(1..Len(checkpoint))
    BY <1>1, FS_Interval
<1>3. BrokenLines \subseteq 1..Len(checkpoint)
    BY <1>1 DEF BrokenLines
<1>. QED
    BY <1>2, <1>3, FS_Subset, FS_CardinalityType

LEMMA WrittenBreaksNothing ==
    ASSUME TypeOK, NEW line \in Result, checkpoint' = Written(line)
    PROVE  BrokenLines' = BrokenLines
<1>1. checkpoint \in Seq(Line)
    BY DEF TypeOK
<1>2. CASE Torn
    <2>1. checkpoint' = [checkpoint EXCEPT ![Len(checkpoint)] = Garbage]
        BY <1>2 DEF Written
    <2>2. Len(checkpoint) \in DOMAIN checkpoint /\ checkpoint[Len(checkpoint)] = Partial
        BY <1>1, <1>2 DEF Torn
    <2>3. DOMAIN checkpoint' = DOMAIN checkpoint
        BY <2>1
    <2>4. \A i \in DOMAIN checkpoint : checkpoint'[i] \in Result <=> checkpoint[i] \in Result
        BY <2>1, <2>2, GarbageNotResult
    <2>. QED
        BY <2>3, <2>4 DEF BrokenLines
<1>3. CASE ~Torn
    <2>1. checkpoint' = Append(checkpoint, line)
        BY <1>3 DEF Written
    <2>2. /\ DOMAIN checkpoint' = DOMAIN checkpoint \cup {Len(checkpoint) + 1}
          /\ checkpoint'[Len(checkpoint) + 1] = line
          /\ \A i \in DOMAIN checkpoint : checkpoint'[i] = checkpoint[i]
        BY <1>1, <2>1 DEF Line
    <2>. QED
        BY <2>2 DEF BrokenLines
<1>. QED
    BY <1>2, <1>3

LEMMA KillBreaksOne ==
    ASSUME TypeOK, NEW p \in Runners, Crash(p)
    PROVE  /\ BrokenLines \subseteq BrokenLines'
           /\ Cardinality(BrokenLines') \in Nat
           /\ Cardinality(BrokenLines') <= Cardinality(BrokenLines) + 1
<1>1. checkpoint \in Seq(Line) /\ IsFiniteSet(BrokenLines) /\ Cardinality(BrokenLines) \in Nat
    BY BrokenFinite DEF TypeOK
<1>2. CASE UNCHANGED checkpoint
    <2>1. BrokenLines' = BrokenLines
        BY <1>2 DEF BrokenLines
    <2>. QED
        BY <1>1, <2>1
<1>3. CASE checkpoint' = Append(checkpoint, Partial)
    <2>1. /\ DOMAIN checkpoint' = DOMAIN checkpoint \cup {Len(checkpoint) + 1}
          /\ checkpoint'[Len(checkpoint) + 1] = Partial
          /\ \A i \in DOMAIN checkpoint : checkpoint'[i] = checkpoint[i]
          /\ Len(checkpoint) + 1 \notin DOMAIN checkpoint
        BY <1>1, <1>3 DEF Line
    <2>2. BrokenLines' = BrokenLines \cup {Len(checkpoint) + 1}
        BY <2>1, GarbageNotResult DEF BrokenLines
    <2>3. Len(checkpoint) + 1 \notin BrokenLines
        BY <2>1 DEF BrokenLines
    <2>4. Cardinality(BrokenLines \cup {Len(checkpoint) + 1}) = Cardinality(BrokenLines) + 1
        BY <1>1, <2>3, FS_AddElement
    <2>. QED
        BY <1>1, <2>2, <2>4
<1>. QED
    BY <1>2, <1>3 DEF Crash

(* A step that breaks no line and ends no program over a broken one.       *)
LEMMA DamageNext ==
    ASSUME TypeOK, TypeOK', DamageIsOfKills, [Next]_vars
    PROVE  DamageIsOfKills'
<1>. DEFINE Unended == \A p \in Runners : run[p] # Ended("checkpoint_invalid")
<1>1. /\ Cardinality(BrokenLines) \in Nat /\ crashes \in Nat
      /\ Cardinality(BrokenLines) <= crashes
      /\ BrokenLines = {} => Unended
      /\ Loadable <=> BrokenLines = {}
    BY BrokenFinite, DonorReviewConstants
       DEF DamageIsOfKills, TypeOK, Ended, Loadable, BrokenLines
<1>2. ASSUME BrokenLines' = BrokenLines, UNCHANGED crashes, BrokenLines = {} => Unended'
      PROVE  DamageIsOfKills'
    BY <1>1, <1>2 DEF DamageIsOfKills, Ended
<1>3. ASSUME NEW p \in Runners, NEW state, run' = [run EXCEPT ![p] = state],
             state # Ended("checkpoint_invalid"), BrokenLines = {}
      PROVE  Unended'
    BY <1>1, <1>3, EndsOtherwise
<1>4. ASSUME UNCHANGED checkpoint PROVE BrokenLines' = BrokenLines
    BY <1>4 DEF BrokenLines
<1>5. ASSUME NEW p \in Runners, NEW reason, reason # "checkpoint_invalid", Exit(p, reason),
             BrokenLines = {}
      PROVE  Unended'
    BY <1>3, <1>5 DEF Exit, Ended
<1>6. ASSUME NEW p \in Runners, NEW cw, NEW output, Create(p, cw, output), BrokenLines = {}
      PROVE  Unended'
    <2>1. [pc |-> "writing", crosswalk |-> cw, output |-> output] # Ended("checkpoint_invalid")
        BY DEF Ended
    <2>. QED
        BY <1>3, <1>6, <2>1 DEF Create
<1>7. ASSUME NEW p \in Runners, NEW row, run[p].pc = "reviewing", Leave(p, row), BrokenLines = {}
      PROVE  Unended'
    <2>1. PICK state : run' = [run EXCEPT ![p] = state] /\ state.pc = "reviewing"
        BY <1>7, LeaveGoesOn
    <2>2. state # Ended("checkpoint_invalid")
        BY <2>1 DEF Ended
    <2>. QED
        BY <1>3, <1>7, <2>1, <2>2
<1>8. ASSUME NEW p \in Runners, Step(p) PROVE DamageIsOfKills'
    <2>1. ASSUME NEW row \in Rows, NEW verdict \in Verdicts, ReviewPass(p, row, verdict)
          PROVE  DamageIsOfKills'
        <3>. DEFINE state == [run[p] EXCEPT !.passes = Append(@, verdict)]
        <3>1. run[p] \in Reviewing
            BY <2>1, RunTypes DEF ReviewPass, AtPass
        <3>2. state.pc = "reviewing" /\ run' = [run EXCEPT ![p] = state]
            BY <2>1, <3>1 DEF ReviewPass, Reviewing, TypeOK
        <3>. HIDE DEF state
        <3>3. state # Ended("checkpoint_invalid")
            BY <3>2 DEF Ended
        <3>4. BrokenLines = {} => Unended'
            BY <1>3, <3>2, <3>3
        <3>. QED
            BY <1>2, <1>4, <2>1, <3>4 DEF ReviewPass
    <2>2. ASSUME NEW row \in Rows, ReviewFails(p, row) PROVE DamageIsOfKills'
        BY <1>2, <1>4, <1>7, <2>2 DEF ReviewFails, AtPass
    <2>3. ASSUME NEW row \in Rows, AppendCheckpoint(p, row) PROVE DamageIsOfKills'
        <3>1. [row |-> row, outcome |-> Reconcile(run[p].passes[1], run[p].passes[2])] \in Result
            BY ReconcileType DEF Result
        <3>2. BrokenLines' = BrokenLines
            BY <2>3, <3>1, WrittenBreaksNothing DEF AppendCheckpoint
        <3>. QED
            BY <1>2, <1>7, <2>3, <3>2 DEF AppendCheckpoint, BothPassesMade
    <2>4. CASE Finish(p) \/ CloseOutput(p)
        BY <1>2, <1>4, <1>5, <2>4 DEF Finish, CloseOutput
    <2>5. CASE OpenOutput(p)
        BY <1>2, <1>4, <1>6, <2>5 DEF OpenOutput
    <2>6. CASE FinishRefused(p)
        BY <1>1, <1>2, <1>4, <1>5, <2>6 DEF FinishRefused
    <2>. QED
        BY <1>8, <2>1, <2>2, <2>3, <2>4, <2>5, <2>6 DEF Step
<1>9. ASSUME NEW p \in Runners, Invoke(p) PROVE DamageIsOfKills'
    <2>1. ASSUME NEW b \in Bases, NEW output \in Names, Compile(p, b, output) PROVE DamageIsOfKills'
        BY <1>2, <1>4, <1>6, <2>1 DEF Compile
    <2>2. ASSUME NEW output \in Names, CompileRefused(p, output) PROVE DamageIsOfKills'
        BY <1>2, <1>4, <1>5, <2>2 DEF CompileRefused
    <2>3. ASSUME NEW input \in Names, NEW output \in Names \cup {NoOutput}, NEW models \in ModelPairs,
                 Start(p, input, output, models)
          PROVE  DamageIsOfKills'
        <3>1. BrokenLines = {} => Unended'
            BY <1>3, <2>3 DEF Start, Ended
        <3>. QED
            BY <1>2, <1>4, <2>3, <3>1 DEF Start
    <2>4. ASSUME NEW input \in Names, StartRefused(p, input) PROVE DamageIsOfKills'
        BY <1>1, <1>2, <1>4, <1>5, <2>4 DEF StartRefused
    <2>. QED
        BY <1>9, <2>1, <2>2, <2>3, <2>4 DEF Invoke
<1>10. ASSUME NEW p \in Runners, Crash(p) PROVE DamageIsOfKills'
    <2>1. /\ BrokenLines \subseteq BrokenLines'
          /\ Cardinality(BrokenLines') \in Nat
          /\ Cardinality(BrokenLines') <= Cardinality(BrokenLines) + 1
        BY <1>10, KillBreaksOne
    <2>2. crashes' = crashes + 1 /\ Exit(p, "crashed")
        BY <1>10 DEF Crash
    <2>3. BrokenLines = {} => Unended'
        BY <1>5, <2>2
    <2>. QED
        BY <1>1, <2>1, <2>2, <2>3 DEF DamageIsOfKills, Ended
<1>11. CASE UNCHANGED vars
    BY <1>1, <1>2, <1>4, <1>11 DEF vars
<1>. QED
    BY <1>8, <1>9, <1>10, <1>11 DEF Next

(* Torn appends do bounded damage: a kill spoils one line at most, however *)
(* many programs append after it, and no program ends for a checkpoint it  *)
(* cannot load unless a kill spoilt a line (append_checkpoint_row_v1,      *)
(* load_checkpointed_review_results_v1).                                   *)
THEOREM DamageBounded == Spec => []DamageIsOfKills
<1>1. Init => DamageIsOfKills
    <2> SUFFICES ASSUME Init PROVE DamageIsOfKills
        OBVIOUS
    <2>1. BrokenLines = {}
        BY DEF Init, BrokenLines
    <2>. QED
        BY <2>1, FS_EmptySet DEF Init, DamageIsOfKills
<1>2. TypeOK /\ TypeOK' /\ DamageIsOfKills /\ [Next]_vars => DamageIsOfKills'
    BY DamageNext
<1>. QED
    BY <1>1, <1>2, TypeCorrect, PTL DEF Spec
-----------------------------------------------------------------------------
(* Every review is started on a crosswalk without reviews, as the compiler *)
(* writes them.                                                            *)
Unreviewed(cw) == ReviewedRows(cw) = {}
CompiledInputs ==
    [][\A p \in Runners : run[p].pc = "idle" /\ run'[p].pc = "reviewing" =>
           Unreviewed(run'[p].crosswalk)]_vars

Appendable ==
    \A p \in Runners :
        /\ run[p] # Ended("duplicate_review")
        /\ run[p].pc = "reviewing" => Unreviewed(run[p].crosswalk)

(* To such a crosswalk a checkpoint without duplicates can be appended.    *)
LEMMA UnreviewedAppends ==
    ASSUME TypeOK, Loadable, NoRowReviewedTwice, NEW p \in Runners, run[p].pc = "reviewing",
           Unreviewed(run[p].crosswalk)
    PROVE  Updated(p) # Refused
<1>. DEFINE cw == run[p].crosswalk
            added == [i \in DOMAIN checkpoint |-> ReviewRecord(checkpoint[i])]
<1>1. cw \in CrosswalkSet
    BY RunTypes DEF Reviewing
<1>2. \A i \in DOMAIN checkpoint : checkpoint[i] \in [row : Rows, outcome : Outcomes]
    BY DEF Loadable, Result
<1>3. \A i \in DOMAIN added :
          /\ RecordId(added[i]) = <<DonorReviewKey, checkpoint[i].row>>
          /\ added[i] \in Record
          /\ NonPromotional(added[i])
    <2>1. \A i \in DOMAIN added : RecordId(added[i]) = <<DonorReviewKey, checkpoint[i].row>>
        BY DEF RecordId, ReviewRecord
    <2>2. \A i \in DOMAIN added : added[i] \in Record
        BY <1>2, ReviewRecordType
    <2>3. \A i \in DOMAIN added : NonPromotional(added[i])
        BY <1>2 DEF NonPromotional, ReviewRecord, Outcomes
    <2>. QED
        BY <2>1, <2>2, <2>3
<1>4. IsInjective([i \in DOMAIN added |-> RecordId(added[i])])
    BY <1>3 DEF IsInjective, NoRowReviewedTwice, Loadable
<1>5. ASSUME NEW i \in DOMAIN added, NEW rec \in cw.records PROVE RecordId(added[i]) # RecordId(rec)
    <2>1. rec \in Record
        BY <1>1 DEF CrosswalkSet
    <2>2. rec.key # DonorReviewKey
        BY <2>1 DEF Unreviewed, ReviewedRows, RowsWith, Record, RecordOf
    <2>. QED
        BY <1>3, <2>2 DEF RecordId
<1>6. Updated(p) = [base |-> cw.base, records |-> cw.records \cup Range(added)]
    BY <1>3, <1>4, <1>5 DEF Updated, AppendReviewed, Construct, Closed
<1>7. Updated(p) \in CrosswalkSet
    BY <1>1, <1>3, <1>6 DEF CrosswalkSet, Range
<1>. QED
    BY <1>7, CrosswalkConstants

LEMMA AppendableNext ==
    ASSUME TypeOK, NoRowReviewedTwice, Appendable, [Next]_vars,
           \A p \in Runners : run[p].pc = "idle" /\ run'[p].pc = "reviewing" =>
               Unreviewed(run'[p].crosswalk)
    PROVE  Appendable'
<1>1. ASSUME NEW p \in Runners, NEW state, run' = [run EXCEPT ![p] = state],
             state # Ended("duplicate_review"),
             state.pc = "reviewing" => Unreviewed(state.crosswalk)
      PROVE  Appendable'
    BY <1>1 DEF Appendable, TypeOK
<1>2. ASSUME NEW p \in Runners, NEW reason, reason # "duplicate_review", Exit(p, reason)
      PROVE  Appendable'
    BY <1>1, <1>2 DEF Exit, Ended
<1>3. ASSUME NEW p \in Runners, NEW cw, NEW output, Create(p, cw, output)
      PROVE  Appendable'
    <2>1. [pc |-> "writing", crosswalk |-> cw, output |-> output] # Ended("duplicate_review")
        BY DEF Ended
    <2>. QED
        BY <1>1, <1>3, <2>1 DEF Create
<1>4. ASSUME NEW p \in Runners, NEW row, run[p].pc = "reviewing", Leave(p, row)
      PROVE  Appendable'
    <2>1. PICK state : run' = [run EXCEPT ![p] = state] /\ state.pc = "reviewing"
                           /\ state.crosswalk = run[p].crosswalk
        BY <1>4, LeaveGoesOn
    <2>2. state # Ended("duplicate_review")
        BY <2>1 DEF Ended
    <2>. QED
        BY <1>1, <1>4, <2>1, <2>2 DEF Appendable
<1>5. ASSUME NEW p \in Runners, Step(p) PROVE Appendable'
    <2>1. ASSUME NEW row \in Rows, NEW verdict \in Verdicts, ReviewPass(p, row, verdict)
          PROVE  Appendable'
        <3>. DEFINE state == [run[p] EXCEPT !.passes = Append(@, verdict)]
        <3>1. run[p] \in Reviewing /\ run[p].pc = "reviewing"
            BY <2>1, RunTypes DEF ReviewPass, AtPass
        <3>2. /\ state.pc = "reviewing" /\ state.crosswalk = run[p].crosswalk
              /\ run' = [run EXCEPT ![p] = state]
            BY <2>1, <3>1 DEF ReviewPass, Reviewing, TypeOK
        <3>. HIDE DEF state
        <3>3. state # Ended("duplicate_review")
            BY <3>2 DEF Ended
        <3>. QED
            BY <1>1, <3>1, <3>2, <3>3 DEF Appendable
    <2>2. ASSUME NEW row \in Rows, ReviewFails(p, row) \/ AppendCheckpoint(p, row) PROVE Appendable'
        BY <1>4, <2>2 DEF ReviewFails, AtPass, AppendCheckpoint, BothPassesMade
    <2>3. CASE Finish(p) \/ CloseOutput(p)
        BY <1>2, <2>3 DEF Finish, CloseOutput
    <2>4. CASE OpenOutput(p)
        BY <1>3, <2>4 DEF OpenOutput
    <2>5. CASE FinishRefused(p)
        <3>1. Loadable => Updated(p) # Refused
            BY <2>5, UnreviewedAppends DEF FinishRefused, AtEnd, Appendable
        <3>. QED
            BY <1>2, <2>5, <3>1 DEF FinishRefused
    <2>. QED
        BY <1>5, <2>1, <2>2, <2>3, <2>4, <2>5 DEF Step
<1>6. ASSUME NEW p \in Runners, Invoke(p) PROVE Appendable'
    <2>1. ASSUME NEW b \in Bases, NEW output \in Names, Compile(p, b, output) PROVE Appendable'
        BY <1>3, <2>1 DEF Compile
    <2>2. ASSUME NEW output \in Names, CompileRefused(p, output) PROVE Appendable'
        BY <1>2, <2>2 DEF CompileRefused
    <2>3. ASSUME NEW input \in Names, NEW output \in Names \cup {NoOutput}, NEW models \in ModelPairs,
                 Start(p, input, output, models)
          PROVE  Appendable'
        <3>. DEFINE state == [pc |-> "reviewing", crosswalk |-> artifacts[input], output |-> output,
                              models |-> models, todo |-> Selected(artifacts[input]), passes |-> <<>>]
        <3>1. run' = [run EXCEPT ![p] = state] /\ state.pc = "reviewing"
            BY <2>3 DEF Start
        <3>. HIDE DEF state
        <3>2. run[p].pc = "idle" /\ run'[p] = state
            BY <2>3, <3>1 DEF Start, TypeOK
        <3>3. state # Ended("duplicate_review") /\ Unreviewed(state.crosswalk)
            BY <3>1, <3>2 DEF Ended
        <3>. QED
            BY <1>1, <3>1, <3>3
    <2>4. ASSUME NEW input \in Names, StartRefused(p, input) PROVE Appendable'
        BY <1>2, <2>4 DEF StartRefused
    <2>. QED
        BY <1>6, <2>1, <2>2, <2>3, <2>4 DEF Invoke
<1>7. ASSUME NEW p \in Runners, Crash(p) PROVE Appendable'
    BY <1>2, <1>7 DEF Crash
<1>8. CASE UNCHANGED vars
    BY <1>8 DEF vars, Appendable
<1>. QED
    BY <1>5, <1>6, <1>7, <1>8 DEF Next

(* A single runner that is only given crosswalks without reviews is never  *)
(* refused the append, however often it is crashed and started again over  *)
(* one checkpoint; given a reviewed one it is                              *)
(* (append_independent_reviewed_donor_records_v1).                         *)
THEOREM AppendIsNotRefused ==
    ASSUME SingleRunner
    PROVE  Spec /\ CompiledInputs => []AppendNeverRefused
<1>1. Init => Appendable
    BY DEF Init, Appendable, Ended
<1>2. Appendable => AppendNeverRefused
    BY DEF Appendable, AppendNeverRefused, Ended
<1>3. /\ TypeOK /\ NoRowReviewedTwice /\ Appendable /\ [Next]_vars
      /\ [\A p \in Runners : run[p].pc = "idle" /\ run'[p].pc = "reviewing" =>
              Unreviewed(run'[p].crosswalk)]_vars
      => Appendable'
    <2>1. UNCHANGED vars =>
              \A p \in Runners : ~(run[p].pc = "idle" /\ run'[p].pc = "reviewing")
        BY DEF vars
    <2>. QED
        BY <2>1, AppendableNext
<1>. QED
    BY <1>1, <1>2, <1>3, TypeCorrect, SingleRunnerReviewsOnce, PTL DEF Spec, CompiledInputs
-----------------------------------------------------------------------------
(* Coverage.  The files of mappings and of SUMO cases are finite.          *)
FiniteInputs == IsFiniteSet(SumoCases) /\ \A b \in Bases : IsFiniteSet(RowsOf[b])

Countable(cw) ==
    IsFiniteSet(cw.records) /\ \A rec \in cw.records : rec.state \in States \ {"verified"}

(* The number of elements of two finite sets that share none.              *)
LEMMA DisjointUnion ==
    ASSUME NEW A, NEW B, IsFiniteSet(A), IsFiniteSet(B), A \cap B = {}
    PROVE  IsFiniteSet(A \cup B) /\ Cardinality(A \cup B) = Cardinality(A) + Cardinality(B)
<1>1. /\ IsFiniteSet(A \cup B)
      /\ Cardinality(A \cup B) = Cardinality(A) + Cardinality(B) - Cardinality(A \cap B)
    BY FS_Union
<1>2. Cardinality(A \cap B) = 0
    BY FS_EmptySet
<1>3. Cardinality(A) \in Nat /\ Cardinality(B) \in Nat
    BY FS_CardinalityType
<1>. QED
    BY <1>1, <1>2, <1>3

(* The three states the report counts and the one it does not are all.     *)
LEMMA CoverageIs ==
    ASSUME NEW cw, Countable(cw)
    PROVE  CoverageReconciles(cw) <=> InState(cw, "tentatively_verified") = {}
<1>. DEFINE C == InState(cw, "candidate")
            R == InState(cw, "rejected")
            U == InState(cw, "unresolved")
            T == InState(cw, "tentatively_verified")
<1>1. C \subseteq cw.records /\ R \subseteq cw.records /\ U \subseteq cw.records /\ T \subseteq cw.records
    BY DEF InState
<1>2. IsFiniteSet(C) /\ IsFiniteSet(R) /\ IsFiniteSet(U) /\ IsFiniteSet(T)
    BY <1>1, FS_Subset DEF Countable
<1>3. C \cap R = {} /\ (C \cup R) \cap U = {} /\ ((C \cup R) \cup U) \cap T = {}
    BY DEF InState
<1>4. cw.records = ((C \cup R) \cup U) \cup T
    BY DEF InState, Countable, States, Outcomes
<1>. HIDE DEF C, R, U, T
<1>5. /\ Cardinality(C) \in Nat /\ Cardinality(R) \in Nat
      /\ Cardinality(U) \in Nat /\ Cardinality(T) \in Nat
    BY <1>2, FS_CardinalityType
<1>6. IsFiniteSet(C \cup R) /\ Cardinality(C \cup R) = Cardinality(C) + Cardinality(R)
    BY <1>2, <1>3, DisjointUnion
<1>7. /\ IsFiniteSet((C \cup R) \cup U)
      /\ Cardinality((C \cup R) \cup U) = Cardinality(C) + Cardinality(R) + Cardinality(U)
    BY <1>2, <1>3, <1>5, <1>6, DisjointUnion
<1>8. Cardinality(cw.records)
          = Cardinality(C) + Cardinality(R) + Cardinality(U) + Cardinality(T)
    BY <1>2, <1>3, <1>4, <1>5, <1>7, DisjointUnion
<1>9. Cardinality(T) = 0 <=> T = {}
    BY <1>2, FS_EmptySet
<1>10. CoverageReconciles(cw) <=>
           Cardinality(cw.records) = Cardinality(C) + Cardinality(R) + Cardinality(U)
    BY DEF CoverageReconciles, C, R, U
<1>11. CoverageReconciles(cw) <=> T = {}
    BY <1>5, <1>8, <1>9, <1>10
<1>. QED
    BY <1>11 DEF T

LEMMA CompiledCountable ==
    ASSUME FiniteInputs, NEW b \in Bases
    PROVE  Countable(CompileCrosswalk(b))
<1>. DEFINE donors == {DonorRecord(r) : r \in RowsOf[b]}
            cases == {SumoRecord(c) : c \in SumoCases}
<1>1. IsFiniteSet(donors)
    <2>1. [r \in RowsOf[b] |-> DonorRecord(r)] \in Surjection(RowsOf[b], donors)
        BY DEF Surjection
    <2>. QED
        BY <2>1, FS_Surjection DEF FiniteInputs
<1>2. IsFiniteSet(cases)
    <2>1. [c \in SumoCases |-> SumoRecord(c)] \in Surjection(SumoCases, cases)
        BY DEF Surjection
    <2>. QED
        BY <2>1, FS_Surjection DEF FiniteInputs
<1>3. \A rec \in donors \cup cases : rec.state \in States \ {"verified"}
    BY CrosswalkConstants DEF DonorRecord, SumoRecord, States, Outcomes
<1>4. IsFiniteSet(donors \cup cases)
    BY <1>1, <1>2, FS_Union
<1>5. CompileCrosswalk(b).records = donors \cup cases
    BY CompileCrosswalkResult
<1>. QED
    BY <1>3, <1>4, <1>5 DEF Countable

AllCountable == \A cw \in Held : Countable(cw)

LEMMA AppendedCountable ==
    ASSUME TypeOK, AllCountable, NEW cw, Appended(cw)
    PROVE  Countable(cw)
<1>1. PICK p \in Runners : run[p].pc = "reviewing" /\ Loadable /\ Updated(p) # Refused
                               /\ cw = Updated(p)
    BY DEF Appended
<1>. DEFINE old == run[p].crosswalk.records
            reviews == {ReviewRecord(checkpoint[i]) : i \in DOMAIN checkpoint}
<1>2. cw.records = old \cup reviews
    BY <1>1, AppendReviewedResult DEF Updated
<1>3. IsFiniteSet(old) /\ \A rec \in old : rec.state \in States \ {"verified"}
    BY <1>1 DEF AllCountable, Held, Countable
<1>4. IsFiniteSet(reviews)
    <2>1. DOMAIN checkpoint = 1..Len(checkpoint) /\ Len(checkpoint) \in Nat
        BY DEF TypeOK
    <2>2. [i \in DOMAIN checkpoint |-> ReviewRecord(checkpoint[i])]
              \in Surjection(DOMAIN checkpoint, reviews)
        BY DEF Surjection
    <2>3. IsFiniteSet(DOMAIN checkpoint)
        BY <2>1, FS_Interval
    <2>. QED
        BY <2>2, <2>3, FS_Surjection
<1>5. \A rec \in reviews : rec.state \in States \ {"verified"}
    BY <1>1 DEF Loadable, Result, ReviewRecord, States, Outcomes
<1>. QED
    BY <1>2, <1>3, <1>4, <1>5, FS_Union DEF Countable

(* A coverage report can be made of every finished crosswalk exactly while *)
(* none has a tentatively verified record: the first such outcome ends it  *)
(* (build_linguistic_crosswalk_coverage_v1).                               *)
THEOREM ReportableWhileUnverified ==
    ASSUME FiniteInputs
    PROVE  Spec => [](EveryCrosswalkReportable <=>
                        \A n \in Files : InState(artifacts[n], "tentatively_verified") = {})
<1>1. Init => AllCountable
    BY DonorReviewConstants DEF Init, AllCountable, Held, Files
<1>2. TypeOK /\ OutputsOwned /\ AllCountable /\ [Next]_vars => AllCountable'
    <2>. SUFFICES ASSUME TypeOK, OutputsOwned, AllCountable, [Next]_vars, NEW cw \in Held'
                  PROVE  Countable(cw)
        BY DEF AllCountable
    <2>1. Grown(cw)
        BY HeldGrows
    <2>. QED
        BY <2>1, CompiledCountable, AppendedCountable DEF Grown, AllCountable
<1>3. AllCountable => (EveryCrosswalkReportable <=>
                         \A n \in Files : InState(artifacts[n], "tentatively_verified") = {})
    <2>. SUFFICES ASSUME AllCountable, NEW n \in Files
                  PROVE  CoverageReconciles(artifacts[n]) <=>
                             InState(artifacts[n], "tentatively_verified") = {}
        BY DEF EveryCrosswalkReportable
    <2>1. Countable(artifacts[n])
        BY DEF AllCountable, Held
    <2>. QED
        BY <2>1, CoverageIs
<1>. QED
    BY <1>1, <1>2, <1>3, TypeCorrect, WritersOwnTheirFiles, PTL DEF Spec
=============================================================================
