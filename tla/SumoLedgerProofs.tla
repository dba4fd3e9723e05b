--------------------------- MODULE SumoLedgerProofs ---------------------------
(***************************************************************************)
(* SumoGovernance implements SumoLedger: a root is asked once, a governed  *)
(* crosswalk is decided once and follows the answer of its root, for any   *)
(* number of programs, roots, files and cases, as long as no more than two *)
(* fields of traces are corrupted.                                         *)
(***************************************************************************)
EXTENDS SumoGovernanceProofs

(* The trace that the one call of a root made, before anybody touched it. *)
Made(t) ==
    LET answer == answered[t.id]
    IN  IF answer.response = NoResponse
        THEN FailureTrace(t.id, t.cases)
        ELSE AnswerTrace(t.id, t.cases, answer.response, answer.response, answer.model)

One(changed) == IF changed THEN 1 ELSE 0

(* In how many fields a trace differs from it.  The raw text may be lost.  *)
Changes(t) ==
    One(t.lifecycle # Made(t).lifecycle) + One(t.batch # Made(t).batch)
        + One(t.compiled # Made(t).compiled) + One(t.passed # Made(t).passed)
        + One(t.raw \notin {answered[t.id].response, NoResponse})

FromCall(t) ==
    calls[t.id] = 1 /\ t.model = answered[t.id].model /\ Changes(t) <= edits

(* What a program holds between two looks at the files. *)
Founded(j) ==
    /\ j.pc \in {"create", "fill"} => j.trace.id = j.root /\ FromCall(j.trace)
    /\ j.pc = "replay" =>
           /\ FromCall(j.trace) /\ j.trace.passed
           /\ j.review.trace = j.trace /\ j.review.reviewer # j.trace.model
    /\ j.pc \in {"newresult", "fillresult"} =>
           LET claim == DispositionOf(j.governed) IN Ledger!Follows(claim, Asked[claim.root])

TracesFounded == \A r \in Roots : Traced(r) => roots[r].id = r /\ FromCall(roots[r])
JobsFounded == \A p \in Programs : Founded(job[p])

(* An unfinished file has one program that is to fill it, or none.         *)
ResultsClaimed ==
    /\ \A p \in Programs : job[p].pc = "fillresult" => results[job[p].result] = Partial
    /\ \A p, q \in Programs :
           /\ job[p].pc = "fillresult" /\ job[q].pc = "fillresult"
           /\ job[p].result = job[q].result
           => p = q

LedgerInv == TracesFounded /\ JobsFounded /\ ResultsClaimed

(***************************************************************************)
(* What the files and the answers have to do with what is founded.         *)
(***************************************************************************)
LEMMA SameAnswers ==
    ASSUME UNCHANGED <<calls, answered, edits>>
    PROVE  /\ \A t : FromCall(t)' <=> FromCall(t)
           /\ Asked' = Asked
           /\ \A j : Founded(j)' <=> Founded(j)
<1>1. \A t : FromCall(t)' <=> FromCall(t)
    BY DEF FromCall, Changes, Made
<1>2. Asked' = Asked
    BY DEF Asked
<1>. QED
    BY <1>1, <1>2 DEF Founded

(* A step of one program that calls nobody.                                *)
LEMMA ProgramFounds ==
    ASSUME IInv, LedgerInv, NEW p \in Programs, NEW state, Become(p, state),
           UNCHANGED <<calls, answered, edits>>, Founded(state), TracesFounded', ResultsClaimed'
    PROVE  LedgerInv'
<1>1. /\ job'[p] = state
      /\ \A q \in Programs : q # p => job'[q] = job[q]
    BY DEF IInv, TypeOK, Become
<1>2. \A q \in Programs : Founded(job'[q])
    BY <1>1 DEF LedgerInv, JobsFounded
<1>3. \A q \in Programs : Founded(job[q])'
    BY <1>2, SameAnswers
<1>. QED
    BY <1>3 DEF LedgerInv, JobsFounded

(* The program is not about to fill a result.                              *)
LEMMA ClaimsKept ==
    ASSUME IInv, LedgerInv, NEW p \in Programs, NEW state, Become(p, state),
           state.pc # "fillresult", results' = results
    PROVE  ResultsClaimed'
<1>1. /\ job'[p] = state
      /\ \A q \in Programs : q # p => job'[q] = job[q]
    BY DEF IInv, TypeOK, Become
<1>. QED
    BY <1>1 DEF LedgerInv, ResultsClaimed

LEMMA QuietFounds ==
    ASSUME IInv, LedgerInv, NEW p \in Programs, NEW state, Become(p, state),
           UNCHANGED <<roots, results, calls, answered, edits>>,
           Founded(state), state.pc # "fillresult"
    PROVE  LedgerInv'
<1>1. ResultsClaimed'
    BY ClaimsKept
<1>2. \A r \in Roots : Traced(r)' => roots'[r].id = r /\ FromCall(roots'[r])
    BY DEF LedgerInv, TracesFounded, Traced
<1>3. TracesFounded'
    BY <1>2, SameAnswers DEF TracesFounded
<1>. QED
    BY <1>1, <1>3, ProgramFounds

(* What a program does elsewhere needs no foundation. *)
Elsewhere == {"idle", "hash", "describe", "write", "fillqueue", "mkdir", "call", "document", "newbatch", "fillbatch"}

LEMMA ElsewhereFounds ==
    ASSUME IInv, LedgerInv, NEW p \in Programs, NEW state, Become(p, state),
           UNCHANGED <<roots, results, calls, answered, edits>>, state.pc \in Elsewhere
    PROVE  LedgerInv'
<1>1. Founded(state) /\ state.pc # "fillresult"
    BY DEF Founded, Elsewhere
<1>. QED
    BY <1>1, QuietFounds

LEMMA StopFounds ==
    ASSUME IInv, LedgerInv, NEW p \in Programs, Stop(p)
    PROVE  LedgerInv'
<1>1. Idle \in Job /\ Idle.pc \in Elsewhere
    BY JobsAre DEF Idle, Elsewhere
<1>2. Become(p, Idle) /\ UNCHANGED <<roots, results, calls, answered, edits>>
    BY DEF Stop, files, history, world
<1>. QED
    BY <1>1, <1>2, ElsewhereFounds

(***************************************************************************)
(* The proposal run.                                                       *)
(***************************************************************************)

(* A root that is made or claimed holds no trace. *)
LEMMA ClaimFounds ==
    ASSUME IInv, LedgerInv, NEW r \in Roots, NEW content \in {Empty, Partial},
           roots' = [roots EXCEPT ![r] = content], UNCHANGED <<calls, answered, edits>>
    PROVE  TracesFounded'
<1>1. \A x \in Roots : roots'[x] = IF x = r THEN content ELSE roots[x]
    BY DEF IInv, TypeOK
<1>2. \A x \in Roots : Traced(x)' => roots'[x].id = x /\ FromCall(roots'[x])
    BY <1>1 DEF LedgerInv, TracesFounded, Traced
<1>. QED
    BY <1>2, SameAnswers DEF TracesFounded

LEMMA TraceFounds ==
    ASSUME IInv, LedgerInv, NEW r \in Roots, NEW t, t.id = r, FromCall(t),
           roots' = [roots EXCEPT ![r] = t], UNCHANGED <<calls, answered, edits>>
    PROVE  TracesFounded'
<1>1. \A x \in Roots : roots'[x] = IF x = r THEN t ELSE roots[x]
    BY DEF IInv, TypeOK
<1>2. \A x \in Roots : Traced(x)' => roots'[x].id = x /\ FromCall(roots'[x])
    BY <1>1 DEF LedgerInv, TracesFounded, Traced
<1>. QED
    BY <1>2, SameAnswers DEF TracesFounded

LEMMA MakeRootFounds ==
    ASSUME IInv, LedgerInv, NEW p \in Programs, MakeRoot(p)
    PROVE  LedgerInv'
<1>. DEFINE state == [job[p] EXCEPT !.pc = "call"]
<1>1. job[p] \in Calling /\ job[p].pc = "mkdir"
    BY Working, JobAt DEF MakeRoot, At, IInv
<1>2. state \in Calling /\ state.pc = "call" /\ job[p].root \in Roots
    BY <1>1 DEF Calling
<1>3. state \in Job /\ Founded(state) /\ state.pc # "fillresult"
    BY <1>2, JobsAre DEF Founded
<1>. HIDE DEF state
<1>4. Become(p, state) /\ results' = results /\ UNCHANGED <<calls, answered, edits>>
    BY DEF MakeRoot, state, history, world
<1>5. TracesFounded'
    <2>1. roots' = [roots EXCEPT ![job[p].root] = Empty]
        BY DEF MakeRoot
    <2>. QED
        BY <1>2, <1>4, <2>1, ClaimFounds
<1>. QED
    BY <1>3, <1>4, <1>5, ClaimsKept, ProgramFounds

LEMMA CreateTraceFounds ==
    ASSUME IInv, LedgerInv, NEW p \in Programs, CreateTrace(p)
    PROVE  LedgerInv'
<1>. DEFINE state == [job[p] EXCEPT !.pc = "fill"]
<1>1. job[p] \in Tracing /\ job[p].pc = "create" /\ Founded(job[p])
    BY Working, JobAt DEF CreateTrace, At, IInv, LedgerInv, JobsFounded
<1>2. /\ state \in Tracing /\ state.pc = "fill" /\ job[p].root \in Roots
      /\ state.root = job[p].root /\ state.trace = job[p].trace
    BY <1>1 DEF Tracing
<1>. HIDE DEF state
<1>3. state \in Job /\ Founded(state) /\ state.pc # "fillresult"
    BY <1>1, <1>2, JobsAre DEF Founded
<1>4. Become(p, state) /\ results' = results /\ UNCHANGED <<calls, answered, edits>>
    BY DEF CreateTrace, state, history, world
<1>5. TracesFounded'
    <2>1. roots' = [roots EXCEPT ![job[p].root] = Partial]
        BY DEF CreateTrace
    <2>. QED
        BY <1>2, <1>4, <2>1, ClaimFounds
<1>. QED
    BY <1>3, <1>4, <1>5, ClaimsKept, ProgramFounds

LEMMA FillTraceFounds ==
    ASSUME IInv, LedgerInv, NEW p \in Programs, FillTrace(p)
    PROVE  LedgerInv'
<1>1. job[p] \in Tracing /\ job[p].pc = "fill" /\ Founded(job[p])
    BY Working, JobAt DEF FillTrace, At, IInv, LedgerInv, JobsFounded
<1>2. job[p].root \in Roots /\ job[p].trace.id = job[p].root /\ FromCall(job[p].trace)
    BY <1>1 DEF Tracing, Founded
<1>3. Idle \in Job /\ Founded(Idle) /\ Idle.pc # "fillresult"
    BY JobsAre DEF Idle, Founded
<1>4. Become(p, Idle) /\ results' = results /\ UNCHANGED <<calls, answered, edits>>
    BY DEF FillTrace, history, world
<1>5. TracesFounded'
    BY <1>2, <1>4, TraceFounds DEF FillTrace
<1>. QED
    BY <1>3, <1>4, <1>5, ClaimsKept, ProgramFounds

(* The one call of a root changes nothing that is founded on other roots,  *)
(* and founds the trace that is made of it.                                *)
LEMMA CalledFounds ==
    ASSUME IInv, LedgerInv, NEW p \in Programs, job[p].pc = "call",
           NEW response \in Response \cup {NoResponse}, NEW model \in Models \cup {NoModel},
           NEW trace \in Trace, TerminalConsistent(trace),
           Called(p, job[p].root, response, model, trace),
           trace.id = job[p].root, FromCall(trace)'
    PROVE  LedgerInv'
<1>. DEFINE r == job[p].root
            state == [pc |-> "create", root |-> r, trace |-> trace]
<1>1. r \in Roots /\ calls[r] = 0
    BY Working, JobAt DEF IInv, Calling, CallsClaimed
<1>2. state \in Tracing /\ state.pc = "create" /\ state.root = r /\ state.trace = trace
    BY <1>1 DEF Tracing
<1>3. state \in Job
    BY <1>2, JobsAre
<1>4. /\ roots' = roots /\ results' = results /\ edits' = edits
      /\ calls \in [Roots -> Nat] /\ answered \in [Roots -> Answer]
      /\ calls' = [calls EXCEPT ![r] = @ + 1]
      /\ answered' = [answered EXCEPT ![r] = [response |-> response, model |-> model]]
    BY DEF Called, files, world, IInv, TypeOK
<1>5. Become(p, state)
    BY DEF Called
<1>. HIDE DEF r, state
<1>6. /\ job' \in [Programs -> Job] /\ job'[p] = state
      /\ \A q \in Programs : q # p => job'[q] = job[q]
    BY <1>3, <1>5, Becomes DEF IInv
<1>7. \A x \in Roots : calls[x] = 1 => calls'[x] = 1 /\ answered'[x] = answered[x]
    BY <1>1, <1>4
<1>8. ASSUME NEW t \in Trace, FromCall(t) PROVE FromCall(t)'
    <2>1. t.id \in Roots
        BY DEF Trace
    <2>2. calls'[t.id] = 1 /\ answered'[t.id] = answered[t.id]
        BY <1>7, <1>8, <2>1 DEF FromCall
    <2>. QED
        BY <1>4, <1>8, <2>2 DEF FromCall, Changes, Made
<1>9. ASSUME NEW x \in Roots, Asked[x] # Absent PROVE Asked'[x] = Asked[x]
    BY <1>1, <1>4, <1>9 DEF Asked
<1>10. ASSUME NEW j \in Job, Founded(j) PROVE Founded(j)'
    <2>1. ASSUME j.pc \in {"create", "fill"} PROVE j.trace.id = j.root /\ FromCall(j.trace)'
        <3>1. j.trace \in Trace
            BY <2>1, JobAt DEF Tracing
        <3>. QED
            BY <1>8, <1>10, <2>1, <3>1 DEF Founded
    <2>2. ASSUME j.pc = "replay" PROVE FromCall(j.trace)'
        <3>1. j.trace \in Trace
            BY <2>2, JobAt DEF Replaying
        <3>. QED
            BY <1>8, <1>10, <2>2, <3>1 DEF Founded
    <2>3. ASSUME j.pc \in {"newresult", "fillresult"}
          PROVE  Ledger!Follows(DispositionOf(j.governed), Asked[DispositionOf(j.governed).root])'
        <3>. DEFINE claim == DispositionOf(j.governed)
        <3>1. claim.root \in Roots
            BY <2>3, JobAt DEF Resulting, Governed, Review, Trace, DispositionOf
        <3>2. Ledger!Follows(claim, Asked[claim.root])
            BY <1>10, <2>3 DEF Founded
        <3>3. Asked[claim.root] # Absent
            BY <3>2 DEF Ledger!Follows
        <3>4. Asked'[claim.root] = Asked[claim.root]
            BY <1>9, <3>1, <3>3
        <3>. QED
            BY <3>2, <3>4 DEF Ledger!Follows, Ledger!Says, DispositionOf
    <2>. QED
        BY <1>10, <2>1, <2>2, <2>3 DEF Founded
<1>11. TracesFounded'
    <2>1. ASSUME NEW x \in Roots, Traced(x)' PROVE roots'[x].id = x /\ FromCall(roots[x])'
        <3>1. roots[x] \in Trace /\ roots[x].id = x /\ FromCall(roots[x])
            BY <1>4, <2>1 DEF Traced, IInv, TypeOK, LedgerInv, TracesFounded
        <3>. QED
            BY <1>4, <1>8, <3>1
    <2>. QED
        BY <1>4, <2>1 DEF TracesFounded
<1>12. ASSUME NEW j, j = state PROVE Founded(j)'
    <2>1. j.pc = "create" /\ j.root = r /\ j.trace = trace
        BY <1>2, <1>12
    <2>2. j.trace.id = j.root /\ FromCall(j.trace)'
        BY <2>1 DEF r
    <2>. QED
        BY <2>1, <2>2 DEF Founded
<1>13. JobsFounded'
    <2>1. ASSUME NEW q \in Programs PROVE Founded(job[q])'
        <3>1. CASE q = p
            BY <1>6, <1>12, <3>1
        <3>2. CASE q # p
            <4>1. job[q] \in Job /\ Founded(job[q])
                BY Working DEF IInv, LedgerInv, JobsFounded
            <4>. QED
                BY <1>6, <1>10, <3>2, <4>1
        <3>. QED
            BY <3>1, <3>2
    <2>. QED
        BY <2>1 DEF JobsFounded
<1>14. ResultsClaimed'
    BY <1>2, <1>3, <1>4, <1>5, ClaimsKept
<1>. QED
    BY <1>11, <1>13, <1>14 DEF LedgerInv

(* Nothing is changed in the trace that was made of a call. *)
LEMMA FailureFromCall ==
    ASSUME NEW r, NEW cases, calls'[r] = 1, edits' \in Nat,
           answered'[r] = [response |-> NoResponse, model |-> NoModel]
    PROVE  FailureTrace(r, cases).id = r /\ FromCall(FailureTrace(r, cases))'
<1>1. ASSUME NEW t, t = FailureTrace(r, cases) PROVE t.id = r /\ FromCall(t)'
    <2>1. /\ t.id = r /\ t.cases = cases /\ t.model = NoModel /\ t.raw = NoResponse
        BY <1>1 DEF FailureTrace, TraceBase
    <2>2. Made(t)' = t
        BY <1>1, <2>1 DEF Made
    <2>3. Changes(t)' = 0
        BY <2>1, <2>2 DEF Changes, One
    <2>. QED
        BY <2>1, <2>3 DEF FromCall
<1>. QED
    BY <1>1

LEMMA AnswerFromCall ==
    ASSUME NEW r, NEW cases, NEW batch, NEW model, NEW raw \in {batch, NoResponse},
           batch # NoResponse, calls'[r] = 1, edits' \in Nat,
           answered'[r] = [response |-> batch, model |-> model]
    PROVE  /\ AnswerTrace(r, cases, batch, raw, model).id = r
           /\ FromCall(AnswerTrace(r, cases, batch, raw, model))'
<1>1. ASSUME NEW t, t = AnswerTrace(r, cases, batch, raw, model) PROVE t.id = r /\ FromCall(t)'
    <2>. DEFINE made == AnswerTrace(r, cases, batch, batch, model)
    <2>1. /\ t.id = r /\ t.cases = cases /\ t.model = model /\ t.raw = raw
          /\ t.lifecycle = made.lifecycle /\ t.batch = made.batch
          /\ t.compiled = made.compiled /\ t.passed = made.passed
        BY <1>1 DEF AnswerTrace, TraceBase
    <2>. HIDE DEF made
    <2>2. Made(t)' = made
        BY <2>1 DEF Made, made
    <2>3. Changes(t)' = 0
        BY <2>1, <2>2 DEF Changes, One
    <2>. QED
        BY <2>1, <2>3 DEF FromCall
<1>. QED
    BY <1>1

LEMMA CallFounds ==
    ASSUME IInv, LedgerInv, NEW p \in Programs, job[p].pc = "call",
           NEW response \in Response \cup {NoResponse}, NEW model \in Models \cup {NoModel},
           NEW trace, Called(p, job[p].root, response, model, trace)
    PROVE  /\ job[p].root \in Roots /\ calls'[job[p].root] = 1 /\ edits' \in Nat
           /\ answered'[job[p].root] = [response |-> response, model |-> model]
<1>1. job[p].root \in Roots /\ calls[job[p].root] = 0
    BY Working, JobAt DEF IInv, Calling, CallsClaimed
<1>. QED
    BY <1>1, GovernanceConstants DEF Called, world, IInv, TypeOK

LEMMA CallFailsFounds ==
    ASSUME IInv, LedgerInv, NEW p \in Programs, CallFails(p)
    PROVE  LedgerInv'
<1>1. job[p] \in Calling /\ job[p].pc = "call"
    BY Working, JobAt DEF CallFails, At, IInv
<1>2. job[p].root \in Roots /\ job[p].cases \in CaseSets
    BY <1>1 DEF Calling
<1>. PICK trace : trace = FailureTrace(job[p].root, job[p].cases)
    OBVIOUS
<1>3. trace \in Trace /\ TerminalConsistent(trace)
    BY <1>2, FailureGood
<1>4. Called(p, job[p].root, NoResponse, NoModel, trace)
    BY DEF CallFails
<1>5. trace.id = job[p].root /\ FromCall(trace)'
    <2>. PICK r, cases : r = job[p].root /\ cases = job[p].cases
        OBVIOUS
    <2>1. calls'[r] = 1 /\ edits' \in Nat /\ answered'[r] = [response |-> NoResponse, model |-> NoModel]
        BY <1>1, <1>4, CallFounds
    <2>2. FailureTrace(r, cases).id = r /\ FromCall(FailureTrace(r, cases))'
        BY <2>1, FailureFromCall
    <2>3. ASSUME NEW t, t = FailureTrace(r, cases) PROVE FromCall(t)'
        BY <2>2, <2>3
    <2>. QED
        BY <2>2, <2>3
<1>. QED
    BY <1>1, <1>3, <1>4, <1>5, CalledFounds

LEMMA CallAnswersFounds ==
    ASSUME IInv, LedgerInv, NEW p \in Programs, NEW batch \in Response, NEW raw,
           NEW model \in Models \cup {NoModel}, CallAnswers(p, batch, raw, model)
    PROVE  LedgerInv'
<1>1. job[p] \in Calling /\ job[p].pc = "call"
    BY Working, JobAt DEF CallAnswers, At, IInv
<1>2. job[p].root \in Roots /\ job[p].cases \in CaseSets /\ Exact(job[p].cases) # {}
    BY <1>1 DEF Calling, IInv, SomethingAsked
<1>3. raw \in {batch, NoResponse} /\ raw \in Response \cup {NoResponse} /\ batch # NoResponse
    BY GovernanceConstants DEF CallAnswers
<1>. PICK trace : trace = AnswerTrace(job[p].root, job[p].cases, batch, raw, model)
    OBVIOUS
<1>4. trace \in Trace /\ TerminalConsistent(trace)
    BY <1>2, <1>3, AnswerGood
<1>5. Called(p, job[p].root, batch, model, trace)
    BY DEF CallAnswers
<1>6. trace.id = job[p].root /\ FromCall(trace)'
    <2>. PICK r, cases : r = job[p].root /\ cases = job[p].cases
        OBVIOUS
    <2>1. calls'[r] = 1 /\ edits' \in Nat /\ answered'[r] = [response |-> batch, model |-> model]
        BY <1>1, <1>5, CallFounds
    <2>2. /\ AnswerTrace(r, cases, batch, raw, model).id = r
          /\ FromCall(AnswerTrace(r, cases, batch, raw, model))'
        BY <1>3, <2>1, AnswerFromCall
    <2>3. ASSUME NEW t, t = AnswerTrace(r, cases, batch, raw, model) PROVE FromCall(t)'
        BY <2>2, <2>3
    <2>. QED
        BY <2>2, <2>3
<1>. QED
    BY <1>1, <1>4, <1>5, <1>6, CalledFounds

LEMMA RunStepFounds ==
    ASSUME IInv, LedgerInv, NEW p \in Programs, RunStep(p)
    PROVE  LedgerInv'
<1>1. CASE RootTaken(p) \/ ContractRefused(p)
    BY <1>1, StopFounds DEF RootTaken, ContractRefused
<1>2. ASSUME NEW batch \in Schema(job[p].cases), NEW model \in Models \cup {NoModel},
             NEW raw, CallAnswers(p, batch, raw, model)
      PROVE  LedgerInv'
    BY <1>2, CallAnswersFounds DEF Schema
<1>. QED
    BY <1>1, <1>2, MakeRootFounds, CallFailsFounds, CreateTraceFounds, FillTraceFounds DEF RunStep

(***************************************************************************)
(* The queue builder and the reviewer found nothing.                       *)
(***************************************************************************)
LEMMA HoldElsewhere ==
    ASSUME IInv, LedgerInv, NEW p \in Programs, NEW state, Hold(p, state), state.pc \in Elsewhere
    PROVE  LedgerInv'
BY ElsewhereFounds DEF Hold, files, history, world

LEMMA BuildStepFounds ==
    ASSUME IInv, LedgerInv, NEW p \in Programs, BuildStep(p)
    PROVE  LedgerInv'
<1>1. ASSUME NEW report, NEW checkout, StartBuild(p, report, checkout) PROVE LedgerInv'
    BY <1>1, HoldElsewhere DEF StartBuild, Elsewhere
<1>2. CASE HashDonor(p)
    <2>1. job[p] \in Building
        BY <1>2, Working, JobAt DEF HashDonor, At, IInv
    <2>2. [job[p] EXCEPT !.pc = "describe"].pc = "describe"
        BY <2>1 DEF Building
    <2>. QED
        BY <1>2, <2>2, HoldElsewhere DEF HashDonor, Elsewhere
<1>3. CASE DonorMismatch(p) \/ BuildRefused(p)
    BY <1>3, StopFounds DEF DonorMismatch, BuildRefused
<1>4. CASE BuildQueue(p)
    BY <1>4, HoldElsewhere DEF BuildQueue, Elsewhere
<1>5. CASE TruncateQueue(p)
    <2>1. job[p] \in Writing
        BY <1>5, Working, JobAt DEF TruncateQueue, At, IInv
    <2>2. [job[p] EXCEPT !.pc = "fillqueue"].pc = "fillqueue"
        BY <2>1 DEF Writing
    <2>. QED
        BY <1>5, <2>2, ElsewhereFounds DEF TruncateQueue, history, world, Elsewhere
<1>6. CASE FillQueue(p)
    BY <1>6, ElsewhereFounds DEF FillQueue, history, world, Idle, Elsewhere
<1>. QED
    BY <1>1, <1>2, <1>3, <1>4, <1>5, <1>6 DEF BuildStep

LEMMA ReviewStepFounds ==
    ASSUME IInv, LedgerInv, NEW p \in Programs, ReviewStep(p)
    PROVE  LedgerInv'
<1>1. ASSUME NEW b, NEW r, NEW reviewer, NEW decisions, StartReview(p, b, r, reviewer, decisions)
      PROVE  LedgerInv'
    BY <1>1, HoldElsewhere DEF StartReview, Elsewhere
<1>2. CASE BindDocument(p)
    BY <1>2, HoldElsewhere DEF BindDocument, Elsewhere
<1>3. CASE CreateBatch(p)
    <2>1. job[p] \in Batching
        BY <1>3, Working, JobAt DEF CreateBatch, At, IInv
    <2>2. [job[p] EXCEPT !.pc = "fillbatch"].pc = "fillbatch"
        BY <2>1 DEF Batching
    <2>. QED
        BY <1>3, <2>2, ElsewhereFounds DEF CreateBatch, history, world, Elsewhere
<1>4. CASE BatchTaken(p)
    BY <1>4, StopFounds DEF BatchTaken
<1>5. CASE FillBatch(p)
    BY <1>5, ElsewhereFounds DEF FillBatch, history, world, Idle, Elsewhere
<1>. QED
    BY <1>1, <1>2, <1>3, <1>4, <1>5 DEF ReviewStep

LEMMA StartRunFounds ==
    ASSUME IInv, LedgerInv, NEW p \in Programs, NEW r \in Roots, StartRun(p, r)
    PROVE  LedgerInv'
BY HoldElsewhere DEF StartRun, Elsewhere

LEMMA CrashFounds ==
    ASSUME IInv, LedgerInv, NEW p \in Programs, Crash(p)
    PROVE  LedgerInv'
BY ElsewhereFounds DEF Crash, files, world, Idle, Elsewhere

LEMMA OthersFound ==
    ASSUME IInv, LedgerInv,
           \/ \E d \in Donors : ReplaceDonor(d)
           \/ \E d \in Documents : EditDocument(d)
           \/ UNCHANGED vars
    PROVE  LedgerInv'
<1>1. UNCHANGED <<roots, results, job, calls, answered, edits>>
    BY DEF ReplaceDonor, EditDocument, vars, files, history
<1>2. \A p \in Programs : Founded(job'[p])
    BY <1>1 DEF LedgerInv, JobsFounded
<1>3. JobsFounded'
    BY <1>1, <1>2, SameAnswers DEF JobsFounded
<1>4. \A r \in Roots : Traced(r)' => roots'[r].id = r /\ FromCall(roots'[r])
    BY <1>1 DEF LedgerInv, TracesFounded, Traced
<1>5. TracesFounded'
    BY <1>1, <1>4, SameAnswers DEF TracesFounded
<1>6. ResultsClaimed'
    BY <1>1 DEF LedgerInv, ResultsClaimed
<1>. QED
    BY <1>3, <1>5, <1>6 DEF LedgerInv

(***************************************************************************)
(* The governed crosswalk.                                                 *)
(***************************************************************************)

LEMMA ChangesCounted ==
    ASSUME NEW t
    PROVE  Changes(t) \in 0..5
BY DEF Changes, One

(* Two corrupted fields do not deceive the replay: if the raw text is not  *)
(* what was answered, the batch is not either, and the lifecycle and the   *)
(* compiled proposals are still those of the answer.                       *)
LEMMA ReplayTellsAnswer ==
    ASSUME IInv, MaxEdits <= 2, NEW q, NEW t \in Trace, FromCall(t), t.passed, Verified(q, t)
    PROVE  LET response == answered[t.id].response
           IN  response.controls /\ response.answers = t.compiled
<1>. DEFINE answer == answered[t.id]
<1>1. t.raw # NoResponse /\ t.raw = t.batch /\ t.lifecycle = "proposal_generated"
      /\ t.compiled = t.raw.answers /\ t.passed = t.raw.controls
    BY DEF Verified
<1>2. CASE t.raw = answer.response
    BY <1>1, <1>2
<1>3. CASE t.raw # answer.response
    <2>1. Made(t).batch = answer.response
        BY DEF Made, FailureTrace, AnswerTrace, TraceBase
    <2>2. Changes(t) <= 2
        <3>1. Changes(t) \in 0..5
            BY ChangesCounted
        <3>2. edits \in Nat /\ edits <= MaxEdits /\ MaxEdits \in Nat
            BY GovernanceConstants DEF IInv, TypeOK
        <3>3. Changes(t) <= edits
            BY DEF FromCall
        <3>. QED
            BY <3>1, <3>2, <3>3
    <2>3. t.lifecycle = Made(t).lifecycle /\ t.compiled = Made(t).compiled
        <3>1. t.batch # Made(t).batch /\ t.raw \notin {answer.response, NoResponse}
            BY <1>1, <1>3, <2>1
        <3>. DEFINE first == t.lifecycle # Made(t).lifecycle
                    second == t.compiled # Made(t).compiled
                    third == t.passed # Made(t).passed
        <3>2. One(first) + 1 + One(second) + One(third) + 1 <= 2
            <4>1. One(t.batch # Made(t).batch) = 1 /\ One(t.raw \notin {answer.response, NoResponse}) = 1
                BY <3>1 DEF One
            <4>. QED
                BY <2>2, <4>1 DEF Changes
        <3>. HIDE DEF first, second, third
        <3>3. One(first) \in 0..1 /\ One(second) \in 0..1 /\ One(third) \in 0..1
            BY DEF One
        <3>4. One(first) # 1 /\ One(second) # 1
            BY <3>2, <3>3
        <3>5. ~first /\ ~second
            BY <3>4 DEF One
        <3>. QED
            BY <3>5 DEF first, second
    <2>4. answer.response # NoResponse
        BY <1>1, <2>3 DEF Made, FailureTrace, TraceBase
    <2>5. Made(t) = AnswerTrace(t.id, t.cases, answer.response, answer.response, answer.model)
        BY <2>4 DEF Made
    <2>6. Compiles(t.cases, answer.response) /\ answer.response.controls
        BY <1>1, <2>3, <2>5 DEF AnswerTrace, TraceBase
    <2>7. Made(t).compiled = answer.response.answers
        BY <2>5, <2>6 DEF AnswerTrace, TraceBase
    <2>. QED
        BY <2>3, <2>6, <2>7
<1>. QED
    BY <1>2, <1>3

LEMMA ReplayFollows ==
    ASSUME IInv, MaxEdits <= 2, NEW q, NEW t \in Trace, NEW review,
           FromCall(t), t.passed, review.trace = t, review.reviewer # t.model,
           Replays(q, t, review)
    PROVE  Ledger!Follows(DispositionOf(GovernedOf(q, t, review)), Asked[t.id])
<1>. DEFINE answer == answered[t.id]
            disposition == DispositionOf(GovernedOf(q, t, review))
<1>1. t.id \in Roots
    BY DEF Trace
<1>2. Asked[t.id] = answer /\ answer # Absent
    BY <1>1, GovernanceConstants DEF Asked, FromCall, IInv, TypeOK
<1>3. answer.response.controls /\ answer.response.answers = t.compiled
    BY ReplayTellsAnswer DEF Replays
<1>4. disposition.reviewer = review.reviewer /\ answer.model = t.model
    BY DEF DispositionOf, GovernedOf, FromCall
<1>5. disposition.records = [c \in DOMAIN q.cases |->
          IF c \in Exact(q.cases)
          THEN [state |-> review.decisions[c].state, quote |-> t.compiled[c]]
          ELSE [state |-> "unresolved", quote |-> NoText]]
    BY DEF DispositionOf, GovernedOf
<1>6. DOMAIN t.compiled = Exact(q.cases) /\ Exact(q.cases) \subseteq DOMAIN q.cases
    BY DEF Replays, Exact
<1>7. DOMAIN disposition.records = DOMAIN q.cases
    BY <1>5
<1>. HIDE DEF disposition, answer
<1>8. ASSUME NEW c \in DOMAIN disposition.records
      PROVE  Ledger!Says(disposition.records[c], c, answer.response.answers)
    BY <1>3, <1>5, <1>6, <1>7 DEF Ledger!Says
<1>9. DOMAIN answer.response.answers \subseteq DOMAIN disposition.records
    BY <1>3, <1>6, <1>7
<1>10. Ledger!Follows(disposition, answer)
    BY <1>2, <1>3, <1>4, <1>8, <1>9 DEF Ledger!Follows
<1>. QED
    BY <1>2, <1>10 DEF disposition

LEMMA CompileStepFounds ==
    ASSUME IInv, LedgerInv, MaxEdits <= 2, NEW p \in Programs, CompileStep(p)
    PROVE  LedgerInv'
<1>1. job[p] \in Job /\ Founded(job[p])
    BY Working DEF IInv, LedgerInv, JobsFounded
<1>2. ASSUME NEW g, NEW b, NEW r \in Roots, StartCompile(p, g, b, r)
      PROVE  LedgerInv'
    <2>. DEFINE state == [pc |-> "replay", result |-> g, queue |-> queue, trace |-> roots[r],
                          review |-> batches[b]]
    <2>1. roots[r].id = r /\ FromCall(roots[r])
        BY <1>2 DEF StartCompile, TraceAt, LedgerInv, TracesFounded
    <2>2. Founded(state) /\ state.pc # "fillresult"
        BY <1>2, <2>1 DEF Founded, StartCompile, Governable
    <2>. HIDE DEF state
    <2>3. Become(p, state) /\ UNCHANGED <<roots, results, calls, answered, edits>>
        BY <1>2 DEF StartCompile, Hold, files, history, world, state
    <2>. QED
        BY <2>2, <2>3, QuietFounds
<1>3. CASE Replay(p)
    <2>. DEFINE governed == GovernedOf(job[p].queue, job[p].trace, job[p].review)
                state == [pc |-> "newresult", result |-> job[p].result, governed |-> governed]
    <2>1. job[p] \in Replaying /\ job[p].pc = "replay"
        BY <1>1, <1>3, JobAt DEF Replay, At
    <2>2. /\ job[p].trace \in Trace /\ FromCall(job[p].trace) /\ job[p].trace.passed
          /\ job[p].review.trace = job[p].trace /\ job[p].review.reviewer # job[p].trace.model
        BY <1>1, <2>1 DEF Founded, Replaying
    <2>3. Ledger!Follows(DispositionOf(governed), Asked[job[p].trace.id])
        BY <1>3, <2>2, ReplayFollows DEF Replay, Accepted
    <2>4. DispositionOf(governed).root = job[p].trace.id
        BY <2>2 DEF DispositionOf, GovernedOf
    <2>. HIDE DEF governed
    <2>5. Founded(state) /\ state.pc # "fillresult"
        BY <2>3, <2>4 DEF Founded
    <2>. HIDE DEF state
    <2>6. Become(p, state) /\ UNCHANGED <<roots, results, calls, answered, edits>>
        BY <1>3 DEF Replay, Hold, files, history, world, state, governed
    <2>. QED
        BY <2>5, <2>6, QuietFounds
<1>4. CASE ReplayRefused(p) \/ ResultTaken(p)
    BY <1>4, StopFounds DEF ReplayRefused, ResultTaken
<1>5. CASE CreateResult(p)
    <2>. DEFINE state == [job[p] EXCEPT !.pc = "fillresult"]
    <2>1. job[p] \in Resulting /\ job[p].pc = "newresult"
        BY <1>1, <1>5, JobAt DEF CreateResult, At
    <2>2. /\ state.pc = "fillresult" /\ state.governed = job[p].governed
          /\ state.result = job[p].result /\ job[p].result \in Results
        BY <2>1 DEF Resulting
    <2>. HIDE DEF state
    <2>3. Founded(state)
        BY <1>1, <2>1, <2>2 DEF Founded
    <2>4. /\ Become(p, state) /\ roots' = roots /\ UNCHANGED <<calls, answered, edits>>
          /\ results[job[p].result] = Absent
          /\ results' = [results EXCEPT ![job[p].result] = Partial]
        BY <1>5 DEF CreateResult, history, world, state
    <2>5. TracesFounded'
        <3>1. \A r \in Roots : Traced(r)' => roots'[r].id = r /\ FromCall(roots'[r])
            BY <2>4 DEF LedgerInv, TracesFounded, Traced
        <3>. QED
            BY <2>4, <3>1, SameAnswers DEF TracesFounded
    <2>6. ResultsClaimed'
        <3>1. /\ job'[p] = state
              /\ \A q \in Programs : q # p => job'[q] = job[q]
            BY <2>4 DEF IInv, TypeOK, Become
        <3>2. Absent # Partial
            BY GovernanceConstants
        <3>3. \A q \in Programs : q # p /\ job[q].pc = "fillresult" => job[q].result # job[p].result
            BY <2>4, <3>2 DEF LedgerInv, ResultsClaimed
        <3>4. \A q \in Programs : job[q].pc = "fillresult" => job[q].result \in Results
            BY Working, JobAt DEF IInv, Resulting
        <3>5. \A g \in Results : results'[g] = IF g = job[p].result THEN Partial ELSE results[g]
            BY <2>4 DEF IInv, TypeOK
        <3>. QED
            BY <2>2, <3>1, <3>3, <3>4, <3>5 DEF LedgerInv, ResultsClaimed
    <2>. QED
        BY <2>3, <2>4, <2>5, <2>6, ProgramFounds
<1>6. CASE FillResult(p)
    <2>1. job[p] \in Resulting /\ job[p].pc = "fillresult"
        BY <1>1, <1>6, JobAt DEF FillResult, At
    <2>2. /\ Become(p, Idle) /\ roots' = roots /\ UNCHANGED <<calls, answered, edits>>
          /\ results' = [results EXCEPT ![job[p].result] = job[p].governed]
        BY <1>6 DEF FillResult, history, world
    <2>3. TracesFounded'
        <3>1. \A r \in Roots : Traced(r)' => roots'[r].id = r /\ FromCall(roots'[r])
            BY <2>2 DEF LedgerInv, TracesFounded, Traced
        <3>. QED
            BY <2>2, <3>1, SameAnswers DEF TracesFounded
    <2>4. ResultsClaimed'
        <3>1. /\ job'[p] = Idle
              /\ \A q \in Programs : q # p => job'[q] = job[q]
            BY <2>2 DEF IInv, TypeOK, Become
        <3>2. \A q \in Programs : q # p /\ job[q].pc = "fillresult" => job[q].result # job[p].result
            BY <2>1 DEF LedgerInv, ResultsClaimed
        <3>3. \A q \in Programs : job[q].pc = "fillresult" => job[q].result \in Results
            BY Working, JobAt DEF IInv, Resulting
        <3>4. \A g \in Results : g # job[p].result => results'[g] = results[g]
            BY <2>2 DEF IInv, TypeOK
        <3>. QED
            BY <3>1, <3>2, <3>3, <3>4 DEF LedgerInv, ResultsClaimed, Idle
    <2>5. Founded(Idle)
        BY DEF Founded, Idle
    <2>. QED
        BY <2>2, <2>3, <2>4, <2>5, ProgramFounds
<1>. QED
    BY <1>2, <1>3, <1>4, <1>5, <1>6 DEF CompileStep

(* A corrupted field is one more change.                                   *)
LEMMA CorruptedFromCall ==
    ASSUME NEW t \in Trace, NEW other \in Corrupted(t), FromCall(t),
           UNCHANGED <<calls, answered>>, edits \in Nat, edits' = edits + 1
    PROVE  other.id = t.id /\ FromCall(other)'
<1>1. other.id = t.id /\ other.cases = t.cases /\ other.model = t.model
    BY DEF Corrupted, Trace
<1>2. Made(other) = Made(t) /\ Made(other)' = Made(other)
    BY <1>1 DEF Made
<1>3. \/ /\ other.lifecycle = t.lifecycle /\ other.batch = t.batch /\ other.compiled = t.compiled
         /\ other.passed = t.passed
      \/ /\ other.raw = t.raw /\ other.batch = t.batch /\ other.compiled = t.compiled
         /\ other.passed = t.passed
      \/ /\ other.raw = t.raw /\ other.lifecycle = t.lifecycle /\ other.compiled = t.compiled
         /\ other.passed = t.passed
      \/ /\ other.raw = t.raw /\ other.lifecycle = t.lifecycle /\ other.batch = t.batch
         /\ other.passed = t.passed
      \/ /\ other.raw = t.raw /\ other.lifecycle = t.lifecycle /\ other.batch = t.batch
         /\ other.compiled = t.compiled
    BY DEF Corrupted, Trace
<1>4. Changes(other)' <= Changes(t) + 1
    BY <1>1, <1>2, <1>3 DEF Changes, One
<1>5. Changes(t) \in 0..5 /\ Changes(other)' \in 0..5
    BY DEF Changes, One
<1>. QED
    BY <1>1, <1>4, <1>5 DEF FromCall

LEMMA CorruptTraceFounds ==
    ASSUME IInv, LedgerInv, NEW r \in Roots, CorruptTrace(r)
    PROVE  LedgerInv'
<1>1. roots[r] \in Trace /\ roots[r].id = r /\ FromCall(roots[r])
    BY DEF CorruptTrace, Traced, IInv, TypeOK, LedgerInv, TracesFounded
<1>2. PICK other \in Corrupted(roots[r]) : roots' = [roots EXCEPT ![r] = other]
    BY DEF CorruptTrace
<1>3. /\ job' = job /\ results' = results /\ calls' = calls /\ answered' = answered
      /\ edits' = edits + 1 /\ edits \in Nat
    BY DEF CorruptTrace, history, IInv, TypeOK
<1>4. other.id = r /\ FromCall(other)'
    BY <1>1, <1>3, CorruptedFromCall
<1>5. ASSUME NEW t, FromCall(t) PROVE FromCall(t)'
    <2>1. Changes(t)' = Changes(t) /\ Changes(t) \in 0..5
        BY <1>3, ChangesCounted DEF Changes, Made
    <2>. QED
        BY <1>3, <1>5, <2>1 DEF FromCall
<1>6. TracesFounded'
    <2>1. ASSUME NEW x \in Roots, Traced(x)', NEW t, t = roots'[x] PROVE t.id = x /\ FromCall(t)'
        <3>1. CASE x = r
            BY <1>2, <1>4, <2>1, <3>1 DEF IInv, TypeOK
        <3>2. CASE x # r
            <4>1. Traced(x) /\ t = roots[x]
                BY <1>2, <2>1, <3>2 DEF Traced, IInv, TypeOK
            <4>. QED
                BY <1>5, <4>1 DEF LedgerInv, TracesFounded
        <3>. QED
            BY <3>1, <3>2
    <2>. QED
        BY <2>1 DEF TracesFounded
<1>7. ASSUME NEW p \in Programs, NEW j, j = job[p] PROVE Founded(j)'
    <2>1. Founded(j)
        BY <1>7 DEF LedgerInv, JobsFounded
    <2>2. Asked' = Asked
        BY <1>3 DEF Asked
    <2>. QED
        BY <1>5, <2>1, <2>2 DEF Founded
<1>8. JobsFounded'
    BY <1>3, <1>7 DEF JobsFounded
<1>9. ResultsClaimed'
    BY <1>3 DEF LedgerInv, ResultsClaimed
<1>. QED
    BY <1>6, <1>8, <1>9 DEF LedgerInv

(***************************************************************************)
(* The refinement.                                                         *)
(***************************************************************************)
LEMMA LedgerFounded ==
    ASSUME MaxEdits <= 2
    PROVE  Spec => []LedgerInv
<1>1. Init => LedgerInv
    BY GovernanceConstants
       DEF Init, LedgerInv, TracesFounded, JobsFounded, ResultsClaimed, Traced, Founded, Idle
<1>2. IInv /\ LedgerInv /\ [Next]_vars => LedgerInv'
    <2>. SUFFICES ASSUME IInv, LedgerInv, [Next]_vars PROVE LedgerInv'
        OBVIOUS
    <2>1. ASSUME NEW p \in Programs, BuildStep(p) PROVE LedgerInv'
        BY <2>1, BuildStepFounds
    <2>2. ASSUME NEW p \in Programs, NEW r \in Roots, StartRun(p, r) PROVE LedgerInv'
        BY <2>2, StartRunFounds
    <2>3. ASSUME NEW p \in Programs, RunStep(p) PROVE LedgerInv'
        BY <2>3, RunStepFounds
    <2>4. ASSUME NEW p \in Programs, ReviewStep(p) PROVE LedgerInv'
        BY <2>4, ReviewStepFounds
    <2>5. ASSUME NEW p \in Programs, CompileStep(p) PROVE LedgerInv'
        BY <2>5, CompileStepFounds
    <2>6. ASSUME NEW p \in Programs, Crash(p) PROVE LedgerInv'
        BY <2>6, CrashFounds
    <2>7. ASSUME NEW r \in Roots, CorruptTrace(r) PROVE LedgerInv'
        BY <2>7, CorruptTraceFounds
    <2>. QED
        BY <2>1, <2>2, <2>3, <2>4, <2>5, <2>6, <2>7, OthersFound DEF Next
<1>. QED
    BY <1>1, <1>2, Invariance, PTL DEF Spec

LEMMA LedgerStarts == Init => Ledger!Init
<1>. SUFFICES ASSUME Init PROVE Ledger!Init
    OBVIOUS
<1>1. Asked = [r \in Roots |-> Absent]
    BY DEF Init, Asked
<1>2. Decided = [g \in Results |-> Absent]
    BY DEF Init, Decided, Finished
<1>. QED
    BY <1>1, <1>2 DEF Ledger!Init

LEMMA CallAsks ==
    ASSUME IInv, NEW p \in Programs, job[p].pc = "call",
           NEW response \in Response \cup {NoResponse}, NEW model \in Models \cup {NoModel},
           NEW trace, Called(p, job[p].root, response, model, trace)
    PROVE  \E r \in Roots : Ledger!Ask(r)
<1>. PICK r : r = job[p].root
    OBVIOUS
<1>. DEFINE answer == [response |-> response, model |-> model]
<1>1. r \in Roots /\ calls[r] = 0
    BY Working, JobAt DEF IInv, Calling, CallsClaimed
<1>2. /\ \A x \in Roots : calls'[x] = IF x = r THEN calls[x] + 1 ELSE calls[x]
      /\ \A x \in Roots : answered'[x] = IF x = r THEN answer ELSE answered[x]
      /\ results' = results
    BY DEF Called, files, IInv, TypeOK
<1>3. answer \in Answer /\ answer # Absent
    BY GovernanceConstants DEF Answer
<1>. HIDE DEF answer
<1>4. Asked[r] = Absent /\ Asked'[r] = answer
    BY <1>1, <1>2 DEF Asked
<1>5. Asked' = [Asked EXCEPT ![r] = Asked'[r]]
    BY <1>1, <1>2 DEF Asked
<1>6. Decided' = Decided
    BY <1>2 DEF Decided, Finished
<1>. QED
    BY <1>1, <1>3, <1>4, <1>5, <1>6 DEF Ledger!Ask

LEMMA ResultDecides ==
    ASSUME IInv, LedgerInv, NEW p \in Programs, FillResult(p)
    PROVE  \E g \in Results : Ledger!Decide(g)
<1>. DEFINE g == job[p].result
            governed == job[p].governed
<1>1. /\ job[p].pc = "fillresult" /\ g \in Results /\ governed \in Governed(Documents)
      /\ results[g] = Partial
    BY Working, JobAt DEF FillResult, At, IInv, Resulting, LedgerInv, ResultsClaimed
<1>2. /\ \A x \in Results : results'[x] = IF x = g THEN governed ELSE results[x]
      /\ calls' = calls /\ answered' = answered
    BY DEF FillResult, history, IInv, TypeOK
<1>3. Ledger!Follows(DispositionOf(governed), Asked[DispositionOf(governed).root])
    BY <1>1 DEF LedgerInv, JobsFounded, Founded
<1>4. governed \notin {Absent, Partial}
    BY <1>1, GovernanceConstants
<1>5. DispositionOf(governed) \in Disposition
    BY <1>1 DEF DispositionOf, Disposition, Governed, Review, Trace
<1>6. DispositionOf(governed) # Absent
    BY <1>5, GovernanceConstants
<1>7. PICK x, claim : x = g /\ claim = DispositionOf(governed)
    OBVIOUS
<1>8. /\ \A y \in Results : y \in Finished' <=> y = x \/ y \in Finished
      /\ x \notin Finished
    BY <1>1, <1>2, <1>4, <1>7 DEF Finished
<1>9. Decided[x] = Absent /\ Decided'[x] = claim
    BY <1>1, <1>2, <1>7, <1>8 DEF Decided
<1>10. Decided' = [Decided EXCEPT ![x] = Decided'[x]]
    BY <1>2, <1>7, <1>8 DEF Decided
<1>11. Asked' = Asked
    BY <1>2 DEF Asked
<1>. QED
    BY <1>1, <1>3, <1>6, <1>7, <1>9, <1>10, <1>11 DEF Ledger!Decide

(* A file that is claimed is not decided yet.                              *)
LEMMA ClaimDecidesNothing ==
    ASSUME IInv, NEW p \in Programs, CreateResult(p)
    PROVE  UNCHANGED <<Asked, Decided>>
<1>1. \A g \in Results : results'[g] = IF g = job[p].result THEN Partial ELSE results[g]
    BY DEF CreateResult, IInv, TypeOK
<1>2. results[job[p].result] = Absent /\ calls' = calls /\ answered' = answered
    BY DEF CreateResult, history
<1>3. \A g \in Results : g \in Finished' <=> g \in Finished
    BY <1>1, <1>2 DEF Finished
<1>4. Decided' = Decided
    BY <1>1, <1>2, <1>3 DEF Decided, Finished
<1>. QED
    BY <1>2, <1>4 DEF Asked

LEMMA LedgerStays == UNCHANGED <<results, calls, answered>> => UNCHANGED <<Asked, Decided>>
BY DEF Asked, Decided, Finished

LEMMA LedgerSteps ==
    ASSUME IInv, LedgerInv, [Next]_vars
    PROVE  [Ledger!Next]_<<Asked, Decided>>
<1>1. ASSUME NEW p \in Programs, RunStep(p) PROVE [Ledger!Next]_<<Asked, Decided>>
    <2>1. CASE CallFails(p)
        BY <2>1, CallAsks DEF CallFails, At, Ledger!Next
    <2>2. ASSUME NEW batch \in Schema(job[p].cases), NEW model \in Models \cup {NoModel},
                 NEW raw, CallAnswers(p, batch, raw, model)
          PROVE  [Ledger!Next]_<<Asked, Decided>>
        BY <2>2, CallAsks DEF CallAnswers, At, Schema, Ledger!Next
    <2>3. CASE MakeRoot(p) \/ RootTaken(p) \/ ContractRefused(p) \/ CreateTrace(p) \/ FillTrace(p)
        BY <2>3, LedgerStays DEF MakeRoot, RootTaken, ContractRefused, CreateTrace, FillTrace,
           Stop, files, history
    <2>. QED
        BY <1>1, <2>1, <2>2, <2>3 DEF RunStep
<1>2. ASSUME NEW p \in Programs, CompileStep(p) PROVE [Ledger!Next]_<<Asked, Decided>>
    <2>1. CASE FillResult(p)
        BY <2>1, ResultDecides DEF Ledger!Next
    <2>2. CASE CreateResult(p)
        BY <2>2, ClaimDecidesNothing
    <2>3. CASE (\E g \in Results, b \in Batches, r \in Roots : StartCompile(p, g, b, r))
               \/ Replay(p) \/ ReplayRefused(p) \/ ResultTaken(p)
        BY <2>3, LedgerStays DEF StartCompile, Replay, ReplayRefused, ResultTaken, Hold, Stop, files, history
    <2>. QED
        BY <1>2, <2>1, <2>2, <2>3 DEF CompileStep
<1>3. ASSUME NEW p \in Programs, BuildStep(p) PROVE UNCHANGED <<Asked, Decided>>
    BY <1>3, LedgerStays DEF BuildStep, StartBuild, HashDonor, DonorMismatch, BuildQueue, BuildRefused,
       TruncateQueue, FillQueue, Hold, Stop, files, history
<1>4. ASSUME NEW p \in Programs, ReviewStep(p) PROVE UNCHANGED <<Asked, Decided>>
    BY <1>4, LedgerStays DEF ReviewStep, StartReview, BindDocument, CreateBatch, BatchTaken, FillBatch,
       Hold, Stop, files, history
<1>5. ASSUME NEW p \in Programs, Crash(p) \/ \E r \in Roots : StartRun(p, r)
      PROVE  UNCHANGED <<Asked, Decided>>
    BY <1>5, LedgerStays DEF Crash, StartRun, Hold, files, history
<1>6. ASSUME \/ \E d \in Donors : ReplaceDonor(d)
             \/ \E d \in Documents : EditDocument(d)
             \/ \E r \in Roots : CorruptTrace(r)
             \/ UNCHANGED vars
      PROVE  UNCHANGED <<Asked, Decided>>
    BY <1>6, LedgerStays DEF ReplaceDonor, EditDocument, CorruptTrace, vars, files, history
<1>. QED
    BY <1>1, <1>2, <1>3, <1>4, <1>5, <1>6 DEF Next

(* Through queue, trace, batch and result, re-read by any number of        *)
(* programs, a root is asked once and a governed crosswalk says what its   *)
(* root was answered and somebody else reviewed, or nothing is written, if *)
(* no more than two fields of the traces were corrupted.  Three can        *)
(* deceive the replay: the same false text raw, in the batch and compiled. *)
THEOREM GovernanceKeepsLedger ==
    ASSUME MaxEdits <= 2
    PROVE  Spec => LedgerKept
<1>1. Ledger!Spec <=> Ledger!Init /\ [][Ledger!Next]_<<Asked, Decided>>
    BY DEF Ledger!Spec, Ledger!vars
<1>2. IInv /\ LedgerInv /\ [Next]_vars => [Ledger!Next]_<<Asked, Decided>>
    BY LedgerSteps
<1>. QED
    BY <1>1, <1>2, LedgerStarts, Invariance, LedgerFounded, PTL DEF Spec, LedgerKept
=============================================================================
