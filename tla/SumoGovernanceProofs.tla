------------------------- MODULE SumoGovernanceProofs -------------------------
(***************************************************************************)
(* The type invariant of SumoGovernance, that a run root pays for one call *)
(* and that every call is written down, for any number of programs, roots, *)
(* cases and corruptions.                                                  *)
(***************************************************************************)
EXTENDS SumoGovernance, TLAPS

CaseSets == UNION {[C -> Evidence] : C \in SUBSET Cases}

(* The jobs by what their program is doing.                                *)
Building == [pc : {"hash", "describe"}, report : Reports, checkout : Checkouts]
Writing == [pc : {"write", "fillqueue"}, built : Queue]
Calling == [pc : {"mkdir", "call"}, root : Roots, cases : CaseSets]
Tracing == [pc : {"create", "fill"}, root : Roots, trace : Trace]
Binding == [pc : {"document"}, batch : Batches, queue : Queue, trace : Trace,
            reviewer : Models, decisions : Decisions]
Batching == [pc : {"newbatch", "fillbatch"}, batch : Batches, review : Review(Documents)]
Replaying == [pc : {"replay"}, result : Results, queue : Queue, trace : Trace,
              review : Review(Documents)]
Resulting == [pc : {"newresult", "fillresult"}, result : Results, governed : Governed(Documents)]

(* A root that was made is claimed: by one program that is to make the     *)
(* call, after which nobody is.                                            *)
CallsClaimed ==
    /\ \A r \in Roots : calls[r] <= 1 /\ (roots[r] = Absent => calls[r] = 0)
    /\ \A p \in Programs : job[p].pc = "call" =>
           calls[job[p].root] = 0 /\ roots[job[p].root] # Absent
    /\ \A p, q \in Programs :
           job[p].pc = "call" /\ job[q].pc = "call" /\ job[p].root = job[q].root => p = q

(* Nobody asks about nothing, so that an answer that covers what was asked *)
(* compiles to something and its trace passes the validator.               *)
SomethingAsked ==
    \A p \in Programs : job[p].pc \in {"mkdir", "call"} => Exact(job[p].cases) # {}

IInv == TypeOK /\ CallsClaimed /\ SomethingAsked /\ EveryCallTraced

(***************************************************************************)
(* Jobs.                                                                   *)
(***************************************************************************)
LEMMA JobsAre ==
    Job = {Idle} \cup Building \cup Writing \cup Calling \cup Tracing
              \cup Binding \cup Batching \cup Replaying \cup Resulting
BY DEF Job, Building, Writing, Calling, Tracing, Binding, Batching, Replaying, Resulting, CaseSets

LEMMA JobAt ==
    ASSUME NEW j \in Job
    PROVE  /\ j.pc = "idle" => j = Idle
           /\ j.pc \in {"hash", "describe"} => j \in Building
           /\ j.pc \in {"write", "fillqueue"} => j \in Writing
           /\ j.pc \in {"mkdir", "call"} => j \in Calling
           /\ j.pc \in {"create", "fill"} => j \in Tracing
           /\ j.pc = "document" => j \in Binding
           /\ j.pc \in {"newbatch", "fillbatch"} => j \in Batching
           /\ j.pc = "replay" => j \in Replaying
           /\ j.pc \in {"newresult", "fillresult"} => j \in Resulting
<1>1. \A x \in Building : x.pc \in {"hash", "describe"}
    BY DEF Building
<1>2. \A x \in Writing : x.pc \in {"write", "fillqueue"}
    BY DEF Writing
<1>3. \A x \in Calling : x.pc \in {"mkdir", "call"}
    BY DEF Calling
<1>4. \A x \in Tracing : x.pc \in {"create", "fill"}
    BY DEF Tracing
<1>5. \A x \in Binding : x.pc = "document"
    BY DEF Binding
<1>6. \A x \in Batching : x.pc \in {"newbatch", "fillbatch"}
    BY DEF Batching
<1>7. \A x \in Replaying : x.pc = "replay"
    BY DEF Replaying
<1>8. \A x \in Resulting : x.pc \in {"newresult", "fillresult"}
    BY DEF Resulting
<1>9. Idle.pc = "idle"
    BY DEF Idle
<1>. QED
    BY <1>1, <1>2, <1>3, <1>4, <1>5, <1>6, <1>7, <1>8, <1>9, JobsAre

LEMMA Becomes ==
    ASSUME TypeOK, NEW p \in Programs, NEW state \in Job, Become(p, state)
    PROVE  /\ job' \in [Programs -> Job] /\ job'[p] = state
           /\ \A q \in Programs : q # p => job'[q] = job[q]
BY DEF TypeOK, Become

(* A step that makes no call and touches no root.                          *)
LEMMA QuietKeeps ==
    ASSUME IInv, NEW p \in Programs, NEW state \in Job, Become(p, state),
           UNCHANGED <<roots, history, world>>,
           queue' \in Queue \cup {Absent, Partial},
           batches' \in [Batches -> Review(Documents) \cup {Absent, Partial}],
           results' \in [Results -> Governed(Documents) \cup {Absent, Partial}],
           state.pc \notin {"call", "create", "fill"}, job[p].pc \notin {"create", "fill"},
           state.pc = "mkdir" => Exact(state.cases) # {}
    PROVE  IInv'
<1>1. /\ job' \in [Programs -> Job] /\ job'[p] = state
      /\ \A q \in Programs : q # p => job'[q] = job[q]
    BY Becomes DEF IInv
<1>2. /\ roots' = roots /\ calls' = calls /\ answered' = answered /\ lost' = lost
      /\ donor' = donor /\ document' = document /\ edits' = edits
    BY DEF history, world
<1>3. TypeOK'
    BY <1>1, <1>2 DEF IInv, TypeOK
<1>4. CallsClaimed'
    BY <1>1, <1>2 DEF IInv, CallsClaimed
<1>5. SomethingAsked'
    BY <1>1, <1>2 DEF IInv, SomethingAsked
<1>6. EveryCallTraced'
    BY <1>1, <1>2 DEF IInv, EveryCallTraced, Traced
<1>. QED
    BY <1>3, <1>4, <1>5, <1>6 DEF IInv

LEMMA HoldKeeps ==
    ASSUME IInv, NEW p \in Programs, NEW state \in Job, Hold(p, state),
           state.pc \notin {"call", "create", "fill"}, job[p].pc \notin {"create", "fill"},
           state.pc = "mkdir" => Exact(state.cases) # {}
    PROVE  IInv'
<1>1. Become(p, state) /\ UNCHANGED <<roots, history, world>>
      /\ queue' = queue /\ batches' = batches /\ results' = results
    BY DEF Hold, files
<1>. QED
    BY <1>1, QuietKeeps DEF IInv, TypeOK

LEMMA StopKeeps ==
    ASSUME IInv, NEW p \in Programs, Stop(p), job[p].pc \notin {"create", "fill"}
    PROVE  IInv'
<1>1. Idle \in Job /\ Idle.pc = "idle"
    BY JobsAre DEF Idle
<1>2. Hold(p, Idle)
    BY DEF Stop, Hold
<1>. QED
    BY <1>1, <1>2, HoldKeeps

LEMMA Working ==
    ASSUME TypeOK, NEW p \in Programs
    PROVE  job[p] \in Job
BY DEF TypeOK

(***************************************************************************)
(* The queue builder.                                                      *)
(***************************************************************************)
LEMMA ExactAreCases ==
    ASSUME NEW cases \in CaseSets
    PROVE  /\ DOMAIN cases \subseteq Cases /\ Exact(cases) \subseteq DOMAIN cases
           /\ \A c \in DOMAIN cases : cases[c] \in Evidence
BY DEF CaseSets, Exact

LEMMA QueueCases ==
    ASSUME NEW q \in Queue
    PROVE  q.cases \in CaseSets
BY DEF Queue, CaseSets

LEMMA QueueTyped ==
    ASSUME NEW report \in Reports, NEW checkout \in Checkouts, NEW d \in Donors, Described(d)
    PROVE  QueueOf(report, d, checkout) \in Queue
<1>1. report.conflicts \in SUBSET Cases
    BY ReviewConstants DEF ReportSet
<1>2. \A c \in Cases : d[c] \in SUBSET Quotes
    BY ReviewConstants DEF DonorSet, Described
<1>3. checkout.roles \in [Cases -> Seq(RoleText)]
    BY ReviewConstants DEF CheckoutSet
<1>4. ASSUME NEW c \in Cases PROVE EvidenceOf(c, d, checkout) \in Evidence
    <2>. DEFINE found == checkout.roles[c]
    <2>1. found \in Seq(RoleText)
        BY <1>3
    <2>2. CASE Len(found) = 1
        <3>1. found[1] \in RoleText
            BY <2>1, <2>2
        <3>2. found[1].quotes \in SUBSET Quotes /\ found[1].described \in BOOLEAN
            BY <3>1 DEF RoleText
        <3>. HIDE DEF found
        <3>3. [status |-> "exact_current_source", quotes |-> d[c] \cup found[1].quotes,
               described |-> found[1].described] \in Evidence
            BY <1>2, <3>2 DEF Evidence, Statuses
        <3>. QED
            BY <2>2, <3>3 DEF EvidenceOf, found
    <2>3. CASE Len(found) # 1
        BY <1>2, <2>3 DEF EvidenceOf, Evidence, Statuses
    <2>. QED
        BY <2>2, <2>3
<1>. DEFINE cases == [c \in report.conflicts |-> EvidenceOf(c, d, checkout)]
<1>5. cases \in [report.conflicts -> Evidence]
    BY <1>1, <1>4
<1>6. cases \in UNION {[C -> Evidence] : C \in SUBSET Cases}
    BY <1>1, <1>5
<1>. HIDE DEF cases
<1>7. [report |-> report, checkout |-> checkout, cases |-> cases] \in Queue
    BY <1>6 DEF Queue
<1>. QED
    BY <1>7 DEF QueueOf, cases

LEMMA BuildStepKeeps ==
    ASSUME IInv, NEW p \in Programs, BuildStep(p)
    PROVE  IInv'
<1>1. job[p] \in Job
    BY Working DEF IInv
<1>2. ASSUME NEW report \in Reports, NEW checkout \in Checkouts, StartBuild(p, report, checkout)
      PROVE  IInv'
    <2>. DEFINE state == [pc |-> "hash", report |-> report, checkout |-> checkout]
    <2>1. state \in Building
        BY DEF Building
    <2>2. state \in Job
        BY <2>1, JobsAre
    <2>3. state.pc = "hash" /\ job[p].pc = "idle"
        BY <1>2 DEF StartBuild, At
    <2>. HIDE DEF state
    <2>4. Hold(p, state)
        BY <1>2 DEF StartBuild, state
    <2>. QED
        BY <2>2, <2>3, <2>4, HoldKeeps
<1>3. CASE HashDonor(p)
    <2>. DEFINE state == [job[p] EXCEPT !.pc = "describe"]
    <2>1. job[p] \in Building /\ job[p].pc = "hash"
        BY <1>1, <1>3, JobAt DEF HashDonor, At
    <2>2. state \in Building /\ state.pc = "describe"
        BY <2>1 DEF Building
    <2>3. state \in Job
        BY <2>2, JobsAre
    <2>. HIDE DEF state
    <2>4. Hold(p, state)
        BY <1>3 DEF HashDonor, state
    <2>. QED
        BY <2>1, <2>2, <2>3, <2>4, HoldKeeps
<1>4. CASE DonorMismatch(p)
    BY <1>4, StopKeeps DEF DonorMismatch, At
<1>5. CASE BuildQueue(p)
    <2>. DEFINE state == [pc |-> "write", built |-> QueueOf(job[p].report, donor, job[p].checkout)]
    <2>1. job[p] \in Building /\ job[p].pc = "describe" /\ Described(donor) /\ donor \in Donors
        BY <1>1, <1>5, JobAt DEF BuildQueue, At, Buildable, IInv, TypeOK
    <2>2. QueueOf(job[p].report, donor, job[p].checkout) \in Queue
        BY <2>1, QueueTyped DEF Building
    <2>3. state \in Writing /\ state.pc = "write"
        BY <2>2 DEF Writing
    <2>4. state \in Job
        BY <2>3, JobsAre
    <2>. HIDE DEF state
    <2>5. Hold(p, state)
        BY <1>5 DEF BuildQueue, state
    <2>. QED
        BY <2>1, <2>3, <2>4, <2>5, HoldKeeps
<1>6. CASE BuildRefused(p)
    BY <1>6, StopKeeps DEF BuildRefused, At
<1>7. CASE TruncateQueue(p)
    <2>. DEFINE state == [job[p] EXCEPT !.pc = "fillqueue"]
    <2>1. job[p] \in Writing /\ job[p].pc = "write"
        BY <1>1, <1>7, JobAt DEF TruncateQueue, At
    <2>2. state \in Writing /\ state.pc = "fillqueue"
        BY <2>1 DEF Writing
    <2>3. state \in Job
        BY <2>2, JobsAre
    <2>. HIDE DEF state
    <2>4. /\ Become(p, state) /\ queue' = Partial /\ batches' = batches /\ results' = results
          /\ UNCHANGED <<roots, history, world>>
        BY <1>7 DEF TruncateQueue, state
    <2>. QED
        BY <2>1, <2>2, <2>3, <2>4, QuietKeeps DEF IInv, TypeOK
<1>8. CASE FillQueue(p)
    <2>1. job[p] \in Writing /\ job[p].pc = "fillqueue"
        BY <1>1, <1>8, JobAt DEF FillQueue, At
    <2>2. queue' \in Queue \cup {Partial}
        BY <1>8, <2>1 DEF FillQueue, Filled, Writing
    <2>3. Idle \in Job /\ Idle.pc = "idle"
        BY JobsAre DEF Idle
    <2>. QED
        BY <1>8, <2>1, <2>2, <2>3, QuietKeeps DEF FillQueue, IInv, TypeOK
<1>. QED
    BY <1>2, <1>3, <1>4, <1>5, <1>6, <1>7, <1>8 DEF BuildStep

(***************************************************************************)
(* The traces a run makes.                                                 *)
(***************************************************************************)
LEMMA NothingProposed == NoProposals \in UNION {[K -> Quotes] : K \in SUBSET Keys}
<1>1. NoProposals \in [{} -> Quotes]
    BY DEF NoProposals
<1>2. {} \in SUBSET Keys
    OBVIOUS
<1>. QED
    BY <1>1, <1>2

LEMMA BaseTyped ==
    ASSUME NEW r \in Roots, NEW cases \in CaseSets, NEW lifecycle \in Lifecycles
    PROVE  TraceBase(r, cases, lifecycle) \in Trace
<1>1. Exact(cases) \in SUBSET Cases /\ DOMAIN cases \ Exact(cases) \in SUBSET Cases
    BY ExactAreCases
<1>2. cases \in UNION {[C -> Evidence] : C \in SUBSET Cases}
    BY DEF CaseSets
<1>. QED
    BY <1>1, <1>2, NothingProposed DEF TraceBase, Trace

LEMMA FailureGood ==
    ASSUME NEW r \in Roots, NEW cases \in CaseSets
    PROVE  FailureTrace(r, cases) \in Trace /\ TerminalConsistent(FailureTrace(r, cases))
<1>1. FailureTrace(r, cases) \in Trace
    BY BaseTyped DEF FailureTrace, Lifecycles
<1>2. TerminalConsistent(FailureTrace(r, cases))
    BY DEF FailureTrace, TraceBase, TerminalConsistent
<1>. QED
    BY <1>1, <1>2

(* An answer that covers what was asked compiles to something; the trace   *)
(* of any answer passes the validator.                                     *)
LEMMA AnswerGood ==
    ASSUME NEW r \in Roots, NEW cases \in CaseSets, Exact(cases) # {},
           NEW batch \in Response, batch # NoResponse,
           NEW raw \in Response \cup {NoResponse}, NEW model \in Models \cup {NoModel}
    PROVE  /\ AnswerTrace(r, cases, batch, raw, model) \in Trace
           /\ TerminalConsistent(AnswerTrace(r, cases, batch, raw, model))
<1>. DEFINE t == AnswerTrace(r, cases, batch, raw, model)
            lifecycle == IF ~Compiles(cases, batch) THEN "evidence_validation_failed"
                         ELSE IF batch.controls THEN "proposal_generated"
                         ELSE "proposal_generated_controls_failed"
            base == TraceBase(r, cases, lifecycle)
            compiled == IF Compiles(cases, batch) THEN batch.answers ELSE NoProposals
            passed == Compiles(cases, batch) /\ batch.controls
<1>1. /\ batch.answers \in UNION {[K -> Quotes] : K \in SUBSET Keys}
      /\ batch.controls \in BOOLEAN
    BY DEF Response
<1>2. base \in Trace
    BY BaseTyped DEF Lifecycles
<1>3. compiled \in UNION {[K -> Quotes] : K \in SUBSET Keys} /\ passed \in BOOLEAN
    BY <1>1, NothingProposed DEF Compiles, Covers, Grounded
<1>4. Compiles(cases, batch) => DOMAIN batch.answers # {}
    BY DEF Compiles, Covers
<1>5. t = [base EXCEPT !.batch = batch, !.raw = raw, !.model = model,
                !.compiled = compiled, !.passed = passed]
    BY DEF AnswerTrace
<1>6. base.lifecycle = lifecycle
    BY DEF TraceBase
<1>. HIDE DEF t, base
<1>7. t \in Trace
    <2>. HIDE DEF compiled, passed, lifecycle
    <2>. QED
        BY <1>2, <1>3, <1>5 DEF Trace
<1>8. /\ t.lifecycle = lifecycle /\ t.batch = batch /\ t.compiled = compiled /\ t.passed = passed
    <2>. HIDE DEF compiled, passed, lifecycle
    <2>. QED
        BY <1>2, <1>5, <1>6 DEF Trace
<1>9. TerminalConsistent(t)
    <2>1. CASE ~Compiles(cases, batch)
        BY <1>8, <2>1 DEF TerminalConsistent
    <2>2. CASE Compiles(cases, batch)
        BY <1>1, <1>4, <1>8, <2>2 DEF TerminalConsistent
    <2>. QED
        BY <2>1, <2>2
<1>. QED
    BY <1>7, <1>9 DEF t

(***************************************************************************)
(* The proposal run.                                                       *)
(***************************************************************************)
LEMMA StartRunKeeps ==
    ASSUME IInv, NEW p \in Programs, NEW r \in Roots, StartRun(p, r)
    PROVE  IInv'
<1>. DEFINE state == [pc |-> "mkdir", root |-> r, cases |-> queue.cases]
<1>1. queue.cases \in CaseSets
    BY QueueCases DEF StartRun, Queued, IInv, TypeOK
<1>2. state \in Calling
    BY <1>1 DEF Calling
<1>3. state \in Job
    BY <1>2, JobsAre
<1>4. state.pc = "mkdir" /\ Exact(state.cases) # {} /\ job[p].pc = "idle"
    BY DEF StartRun, At, Askable
<1>. HIDE DEF state
<1>5. Hold(p, state)
    BY DEF StartRun, state
<1>. QED
    BY <1>3, <1>4, <1>5, HoldKeeps

LEMMA MakeRootKeeps ==
    ASSUME IInv, NEW p \in Programs, MakeRoot(p)
    PROVE  IInv'
<1>. DEFINE r == job[p].root
            state == [job[p] EXCEPT !.pc = "call"]
<1>1. job[p] \in Calling /\ job[p].pc = "mkdir"
    BY Working, JobAt DEF MakeRoot, At, IInv
<1>2. /\ state \in Calling /\ state.pc = "call" /\ state.root = r /\ state.cases = job[p].cases
      /\ r \in Roots
    BY <1>1 DEF Calling
<1>3. state \in Job
    BY <1>2, JobsAre
<1>4. /\ roots[r] = Absent /\ roots' = [roots EXCEPT ![r] = Empty]
      /\ queue' = queue /\ batches' = batches /\ results' = results
      /\ calls' = calls /\ answered' = answered /\ lost' = lost
      /\ donor' = donor /\ document' = document /\ edits' = edits
    BY DEF MakeRoot, history, world
<1>. HIDE DEF r, state
<1>5. Become(p, state)
    BY DEF MakeRoot, state
<1>6. /\ job' \in [Programs -> Job] /\ job'[p] = state
      /\ \A q \in Programs : q # p => job'[q] = job[q]
    BY <1>3, <1>5, Becomes DEF IInv
<1>7. TypeOK'
    BY <1>4, <1>6 DEF IInv, TypeOK
<1>8. roots \in [Roots -> Trace \cup {Absent, Empty, Partial}]
    BY DEF IInv, TypeOK
<1>9. Absent # Empty
    BY GovernanceConstants
<1>10. CallsClaimed'
    BY <1>2, <1>4, <1>6, <1>8, <1>9 DEF IInv, CallsClaimed
<1>11. SomethingAsked'
    BY <1>1, <1>2, <1>6 DEF IInv, SomethingAsked
<1>12. EveryCallTraced'
    <2>1. \A x \in Roots : Traced(x) => Traced(x)'
        BY <1>4, <1>8 DEF Traced
    <2>2. \A q \in Programs : job[q].pc \in {"create", "fill"} => job'[q] = job[q]
        BY <1>1, <1>6
    <2>. QED
        BY <1>4, <2>1, <2>2 DEF IInv, EveryCallTraced
<1>. QED
    BY <1>7, <1>10, <1>11, <1>12 DEF IInv

(* Once the call is made its trace passes the validator.                   *)
LEMMA CalledKeeps ==
    ASSUME IInv, NEW p \in Programs, job[p].pc = "call",
           NEW response \in Response \cup {NoResponse}, NEW model \in Models \cup {NoModel},
           NEW trace \in Trace, TerminalConsistent(trace),
           Called(p, job[p].root, response, model, trace)
    PROVE  IInv'
<1>. DEFINE r == job[p].root
            state == [pc |-> "create", root |-> r, trace |-> trace]
<1>1. r \in Roots
    BY Working, JobAt DEF IInv, Calling
<1>2. state \in Tracing
    BY <1>1 DEF Tracing
<1>3. state \in Job
    BY <1>2, JobsAre
<1>4. /\ calls' = [calls EXCEPT ![r] = @ + 1]
      /\ answered' = [answered EXCEPT ![r] = [response |-> response, model |-> model]]
      /\ roots' = roots /\ queue' = queue /\ batches' = batches /\ results' = results
      /\ lost' = lost /\ donor' = donor /\ document' = document /\ edits' = edits
    BY DEF Called, files, world
<1>5. Become(p, state)
    BY DEF Called
<1>6. state.pc = "create" /\ state.root = r
    OBVIOUS
<1>7. [response |-> response, model |-> model] \in Answer
    BY DEF Answer
<1>. HIDE DEF r, state
<1>8. /\ job' \in [Programs -> Job] /\ job'[p] = state
      /\ \A q \in Programs : q # p => job'[q] = job[q]
    BY <1>3, <1>5, Becomes DEF IInv
<1>9. calls \in [Roots -> Nat] /\ calls[r] = 0 /\ roots[r] # Absent
    BY DEF IInv, TypeOK, CallsClaimed, r
<1>10. /\ calls' \in [Roots -> Nat] /\ calls'[r] = 1
       /\ \A x \in Roots : x # r => calls'[x] = calls[x]
    BY <1>1, <1>4, <1>9
<1>11. answered' \in [Roots -> Answer]
    BY <1>4, <1>7 DEF IInv, TypeOK
<1>12. TypeOK'
    BY <1>4, <1>8, <1>10, <1>11 DEF IInv, TypeOK
<1>13. CallsClaimed'
    <2>1. \A x \in Roots : calls'[x] <= 1 /\ (roots'[x] = Absent => calls'[x] = 0)
        BY <1>4, <1>9, <1>10 DEF IInv, CallsClaimed
    <2>2. ASSUME NEW q \in Programs, job'[q].pc = "call"
          PROVE  calls'[job'[q].root] = 0 /\ roots'[job'[q].root] # Absent
        <3>1. q # p /\ job'[q] = job[q]
            BY <1>6, <1>8, <2>2
        <3>2. job[q].root # r
            BY <2>2, <3>1 DEF IInv, CallsClaimed, r
        <3>3. job[q].root \in Roots
            BY <2>2, <3>1, Working, JobAt DEF IInv, Calling
        <3>. QED
            BY <1>4, <1>10, <2>2, <3>1, <3>2, <3>3 DEF IInv, CallsClaimed
    <2>3. \A q, o \in Programs :
              job'[q].pc = "call" /\ job'[o].pc = "call" /\ job'[q].root = job'[o].root => q = o
        BY <1>6, <1>8 DEF IInv, CallsClaimed
    <2>. QED
        BY <2>1, <2>2, <2>3 DEF CallsClaimed
<1>14. SomethingAsked'
    BY <1>6, <1>8 DEF IInv, SomethingAsked
<1>15. EveryCallTraced'
    <2>1. ASSUME NEW x \in Roots, calls'[x] > 0
          PROVE  \/ Traced(x)' \/ x \in lost'
                 \/ \E q \in Programs : job'[q].pc \in {"create", "fill"} /\ job'[q].root = x
        <3>1. CASE x = r
            BY <1>6, <1>8, <3>1
        <3>2. CASE x # r
            <4>1. calls[x] > 0
                BY <1>10, <2>1, <3>2
            <4>2. \A q \in Programs : job[q].pc \in {"create", "fill"} => job'[q] = job[q]
                BY <1>8
            <4>. QED
                BY <1>4, <4>1, <4>2 DEF IInv, EveryCallTraced, Traced
        <3>. QED
            BY <3>1, <3>2
    <2>. QED
        BY <2>1 DEF EveryCallTraced
<1>. QED
    BY <1>12, <1>13, <1>14, <1>15 DEF IInv

LEMMA CallFailsKeeps ==
    ASSUME IInv, NEW p \in Programs, CallFails(p)
    PROVE  IInv'
<1>1. job[p] \in Calling /\ job[p].pc = "call"
    BY Working, JobAt DEF CallFails, At, IInv
<1>2. job[p].root \in Roots /\ job[p].cases \in CaseSets
    BY <1>1 DEF Calling
<1>. QED
    BY <1>1, <1>2, FailureGood, CalledKeeps DEF CallFails

LEMMA CallAnswersKeeps ==
    ASSUME IInv, NEW p \in Programs, NEW batch \in Response, NEW raw, NEW model \in Models \cup {NoModel},
           CallAnswers(p, batch, raw, model)
    PROVE  IInv'
<1>1. job[p] \in Calling /\ job[p].pc = "call"
    BY Working, JobAt DEF CallAnswers, At, IInv
<1>2. job[p].root \in Roots /\ job[p].cases \in CaseSets /\ Exact(job[p].cases) # {}
    BY <1>1 DEF Calling, IInv, SomethingAsked
<1>3. raw \in Response \cup {NoResponse}
    BY DEF CallAnswers
<1>4. batch # NoResponse
    BY GovernanceConstants
<1>5. /\ AnswerTrace(job[p].root, job[p].cases, batch, raw, model) \in Trace
      /\ TerminalConsistent(AnswerTrace(job[p].root, job[p].cases, batch, raw, model))
    BY <1>2, <1>3, <1>4, AnswerGood
<1>. QED
    BY <1>1, <1>5, CalledKeeps DEF CallAnswers

LEMMA CreateTraceKeeps ==
    ASSUME IInv, NEW p \in Programs, CreateTrace(p)
    PROVE  IInv'
<1>. DEFINE r == job[p].root
            state == [job[p] EXCEPT !.pc = "fill"]
<1>1. job[p] \in Tracing /\ job[p].pc = "create"
    BY Working, JobAt DEF CreateTrace, At, IInv
<1>2. state \in Tracing /\ state.pc = "fill" /\ state.root = r /\ r \in Roots
    BY <1>1 DEF Tracing
<1>3. state \in Job
    BY <1>2, JobsAre
<1>4. /\ roots[r] = Empty /\ roots' = [roots EXCEPT ![r] = Partial]
      /\ queue' = queue /\ batches' = batches /\ results' = results
      /\ calls' = calls /\ answered' = answered /\ lost' = lost
      /\ donor' = donor /\ document' = document /\ edits' = edits
    BY DEF CreateTrace, history, world
<1>. HIDE DEF r, state
<1>5. Become(p, state)
    BY DEF CreateTrace, state
<1>6. /\ job' \in [Programs -> Job] /\ job'[p] = state
      /\ \A q \in Programs : q # p => job'[q] = job[q]
    BY <1>3, <1>5, Becomes DEF IInv
<1>7. TypeOK'
    BY <1>4, <1>6 DEF IInv, TypeOK
<1>8. /\ roots \in [Roots -> Trace \cup {Absent, Empty, Partial}]
      /\ \A x \in Roots : roots[x] # Absent => roots'[x] # Absent
    BY <1>4, GovernanceConstants DEF IInv, TypeOK
<1>9. CallsClaimed'
    <2>1. \A x \in Roots : calls'[x] <= 1 /\ (roots'[x] = Absent => calls'[x] = 0)
        BY <1>4, <1>8 DEF IInv, CallsClaimed
    <2>2. ASSUME NEW q \in Programs, job'[q].pc = "call"
          PROVE  calls'[job'[q].root] = 0 /\ roots'[job'[q].root] # Absent
        <3>1. q # p /\ job'[q] = job[q]
            BY <1>2, <1>6, <2>2
        <3>2. job[q].root \in Roots
            BY <2>2, <3>1, Working, JobAt DEF IInv, Calling
        <3>. QED
            BY <1>4, <1>8, <2>2, <3>1, <3>2 DEF IInv, CallsClaimed
    <2>3. \A q, o \in Programs :
              job'[q].pc = "call" /\ job'[o].pc = "call" /\ job'[q].root = job'[o].root => q = o
        BY <1>2, <1>6 DEF IInv, CallsClaimed
    <2>. QED
        BY <2>1, <2>2, <2>3 DEF CallsClaimed
<1>10. SomethingAsked'
    BY <1>2, <1>6 DEF IInv, SomethingAsked
<1>11. EveryCallTraced'
    <2>1. \A x \in Roots : Traced(x) => Traced(x)'
        BY <1>4, <1>8 DEF Traced
    <2>2. \A q \in Programs : job[q].pc \in {"create", "fill"} =>
              job'[q].pc \in {"create", "fill"} /\ job'[q].root = job[q].root
        BY <1>2, <1>6 DEF r
    <2>. QED
        BY <1>4, <2>1, <2>2 DEF IInv, EveryCallTraced
<1>. QED
    BY <1>7, <1>9, <1>10, <1>11 DEF IInv

LEMMA FillTraceKeeps ==
    ASSUME IInv, NEW p \in Programs, FillTrace(p)
    PROVE  IInv'
<1>. DEFINE r == job[p].root
            trace == job[p].trace
<1>1. job[p] \in Tracing /\ job[p].pc = "fill"
    BY Working, JobAt DEF FillTrace, At, IInv
<1>2. r \in Roots /\ trace \in Trace
    BY <1>1 DEF Tracing
<1>3. Idle \in Job /\ Idle.pc = "idle"
    BY JobsAre DEF Idle
<1>4. /\ roots' = [roots EXCEPT ![r] = trace]
      /\ queue' = queue /\ batches' = batches /\ results' = results
      /\ calls' = calls /\ answered' = answered /\ lost' = lost
      /\ donor' = donor /\ document' = document /\ edits' = edits
    BY DEF FillTrace, history, world
<1>. HIDE DEF r, trace
<1>5. Become(p, Idle)
    BY DEF FillTrace
<1>6. /\ job' \in [Programs -> Job] /\ job'[p] = Idle
      /\ \A q \in Programs : q # p => job'[q] = job[q]
    BY <1>3, <1>5, Becomes DEF IInv
<1>7. TypeOK'
    BY <1>2, <1>4, <1>6 DEF IInv, TypeOK
<1>8. trace \notin {Absent, Empty, Partial}
    BY <1>2, GovernanceConstants
<1>9. /\ roots \in [Roots -> Trace \cup {Absent, Empty, Partial}]
      /\ roots' \in [Roots -> Trace \cup {Absent, Empty, Partial}]
      /\ \A x \in Roots : roots'[x] = IF x = r THEN trace ELSE roots[x]
    BY <1>2, <1>4 DEF IInv, TypeOK
<1>10. CallsClaimed'
    <2>1. \A x \in Roots : calls'[x] <= 1 /\ (roots'[x] = Absent => calls'[x] = 0)
        BY <1>4, <1>8, <1>9 DEF IInv, CallsClaimed
    <2>2. ASSUME NEW q \in Programs, job'[q].pc = "call"
          PROVE  calls'[job'[q].root] = 0 /\ roots'[job'[q].root] # Absent
        <3>1. q # p /\ job'[q] = job[q]
            BY <1>3, <1>6, <2>2
        <3>2. job[q].root \in Roots
            BY <2>2, <3>1, Working, JobAt DEF IInv, Calling
        <3>. QED
            BY <1>4, <1>8, <1>9, <2>2, <3>1, <3>2 DEF IInv, CallsClaimed
    <2>3. \A q, o \in Programs :
              job'[q].pc = "call" /\ job'[o].pc = "call" /\ job'[q].root = job'[o].root => q = o
        BY <1>3, <1>6 DEF IInv, CallsClaimed
    <2>. QED
        BY <2>1, <2>2, <2>3 DEF CallsClaimed
<1>11. SomethingAsked'
    BY <1>3, <1>6 DEF IInv, SomethingAsked
<1>12. EveryCallTraced'
    <2>1. \A x \in Roots : Traced(x) \/ x = r => Traced(x)'
        BY <1>8, <1>9 DEF Traced
    <2>2. \A q \in Programs :
              job[q].pc \in {"create", "fill"} /\ job[q].root # r => job'[q] = job[q]
        BY <1>6 DEF r
    <2>. QED
        BY <1>4, <2>1, <2>2 DEF IInv, EveryCallTraced
<1>. QED
    BY <1>7, <1>10, <1>11, <1>12 DEF IInv

LEMMA RunStepKeeps ==
    ASSUME IInv, NEW p \in Programs, RunStep(p)
    PROVE  IInv'
<1>1. CASE MakeRoot(p)
    BY <1>1, MakeRootKeeps
<1>2. CASE RootTaken(p)
    BY <1>2, StopKeeps DEF RootTaken, At
<1>3. CASE ContractRefused(p)
    BY <1>3, StopKeeps DEF ContractRefused, At
<1>4. CASE CallFails(p)
    BY <1>4, CallFailsKeeps
<1>5. ASSUME NEW batch \in Schema(job[p].cases), NEW model \in Models \cup {NoModel},
             NEW raw \in {batch, NoResponse}, CallAnswers(p, batch, raw, model)
      PROVE  IInv'
    <2>1. batch \in Response
        BY DEF Schema
    <2>. QED
        BY <1>5, <2>1, CallAnswersKeeps
<1>6. CASE CreateTrace(p)
    BY <1>6, CreateTraceKeeps
<1>7. CASE FillTrace(p)
    BY <1>7, FillTraceKeeps
<1>. QED
    BY <1>1, <1>2, <1>3, <1>4, <1>5, <1>6, <1>7 DEF RunStep

(***************************************************************************)
(* The reviewer's batch and the governed crosswalk.                        *)
(***************************************************************************)
LEMMA ReviewStepKeeps ==
    ASSUME IInv, NEW p \in Programs, ReviewStep(p)
    PROVE  IInv'
<1>1. job[p] \in Job
    BY Working DEF IInv
<1>2. ASSUME NEW b \in Batches, NEW r \in Roots, NEW reviewer \in Models, NEW decisions \in Offered,
             StartReview(p, b, r, reviewer, decisions)
      PROVE  IInv'
    <2>. DEFINE state == [pc |-> "document", batch |-> b, queue |-> queue, trace |-> roots[r],
                          reviewer |-> reviewer, decisions |-> decisions]
    <2>1. queue \in Queue /\ roots[r] \in Trace /\ decisions \in Decisions
        BY <1>2, GovernanceConstants DEF StartReview, TraceAt, Traced, Queued, IInv, TypeOK
    <2>2. state \in Binding
        BY <2>1 DEF Binding
    <2>3. state \in Job
        BY <2>2, JobsAre
    <2>4. state.pc = "document" /\ job[p].pc = "idle"
        BY <1>2 DEF StartReview, At
    <2>. HIDE DEF state
    <2>5. Hold(p, state)
        BY <1>2 DEF StartReview, state
    <2>. QED
        BY <2>3, <2>4, <2>5, HoldKeeps
<1>3. CASE BindDocument(p)
    <2>. DEFINE review == [queue |-> job[p].queue, trace |-> job[p].trace, document |-> document,
                           reviewer |-> job[p].reviewer, decisions |-> job[p].decisions]
                state == [pc |-> "newbatch", batch |-> job[p].batch, review |-> review]
    <2>1. job[p] \in Binding /\ job[p].pc = "document" /\ document \in Documents
        BY <1>1, <1>3, JobAt DEF BindDocument, At, IInv, TypeOK
    <2>2. review \in Review(Documents)
        BY <2>1 DEF Binding, Review
    <2>. HIDE DEF review
    <2>3. state \in Batching
        BY <2>1, <2>2 DEF Binding, Batching
    <2>4. state \in Job
        BY <2>3, JobsAre
    <2>5. state.pc = "newbatch"
        OBVIOUS
    <2>. HIDE DEF state
    <2>6. Hold(p, state)
        BY <1>3 DEF BindDocument, state, review
    <2>. QED
        BY <2>1, <2>4, <2>5, <2>6, HoldKeeps
<1>4. CASE CreateBatch(p)
    <2>. DEFINE state == [job[p] EXCEPT !.pc = "fillbatch"]
    <2>1. job[p] \in Batching /\ job[p].pc = "newbatch"
        BY <1>1, <1>4, JobAt DEF CreateBatch, At
    <2>2. state \in Batching /\ state.pc = "fillbatch"
        BY <2>1 DEF Batching
    <2>3. state \in Job
        BY <2>2, JobsAre
    <2>4. batches' \in [Batches -> Review(Documents) \cup {Absent, Partial}]
        BY <1>4 DEF CreateBatch, IInv, TypeOK
    <2>. HIDE DEF state
    <2>5. /\ Become(p, state) /\ UNCHANGED <<roots, history, world>>
          /\ queue' = queue /\ results' = results
        BY <1>4 DEF CreateBatch, state
    <2>. QED
        BY <2>1, <2>2, <2>3, <2>4, <2>5, QuietKeeps DEF IInv, TypeOK
<1>5. CASE BatchTaken(p)
    BY <1>5, StopKeeps DEF BatchTaken, At
<1>6. CASE FillBatch(p)
    <2>1. job[p] \in Batching /\ job[p].pc = "fillbatch"
        BY <1>1, <1>6, JobAt DEF FillBatch, At
    <2>2. job[p].review \in Review(Documents)
        BY <2>1 DEF Batching
    <2>3. batches' \in [Batches -> Review(Documents) \cup {Absent, Partial}]
        BY <1>6, <2>2 DEF FillBatch, IInv, TypeOK
    <2>4. Idle \in Job /\ Idle.pc = "idle"
        BY JobsAre DEF Idle
    <2>5. /\ Become(p, Idle) /\ UNCHANGED <<roots, history, world>>
          /\ queue' = queue /\ results' = results
        BY <1>6 DEF FillBatch
    <2>. QED
        BY <2>1, <2>3, <2>4, <2>5, QuietKeeps DEF IInv, TypeOK
<1>. QED
    BY <1>2, <1>3, <1>4, <1>5, <1>6 DEF ReviewStep

(* What is compiled of a queue, a trace and a review that replay.          *)
LEMMA GovernedTyped ==
    ASSUME NEW q \in Queue, NEW t \in Trace, NEW review \in Review(Documents), Replays(q, t, review)
    PROVE  GovernedOf(q, t, review) \in Governed(Documents)
<1>1. q.cases \in CaseSets
    BY QueueCases
<1>2. DOMAIN q.cases \in SUBSET Cases
    BY <1>1, ExactAreCases
<1>3. /\ DOMAIN t.compiled = Exact(q.cases) /\ \A c \in DOMAIN t.compiled : t.compiled[c] \in Quotes
      /\ DOMAIN review.decisions = Exact(q.cases)
      /\ \A c \in DOMAIN review.decisions : review.decisions[c] \in Decision
    BY DEF Replays, Trace, Review, Decisions
<1>. DEFINE record(c) == IF c \in Exact(q.cases)
                         THEN [state |-> review.decisions[c].state, quote |-> t.compiled[c]]
                         ELSE [state |-> "unresolved", quote |-> NoText]
            records == [c \in DOMAIN q.cases |-> record(c)]
<1>4. ASSUME NEW c \in DOMAIN q.cases PROVE record(c) \in Record
    BY <1>3 DEF Record, Decision
<1>. HIDE DEF record
<1>5. records \in [DOMAIN q.cases -> Record]
    BY <1>4
<1>6. records \in UNION {[C -> Record] : C \in SUBSET Cases}
    BY <1>2, <1>5
<1>. HIDE DEF records
<1>7. [review |-> review, records |-> records] \in Governed(Documents)
    BY <1>6 DEF Governed
<1>. QED
    BY <1>7 DEF GovernedOf, records, record

LEMMA CompileStepKeeps ==
    ASSUME IInv, NEW p \in Programs, CompileStep(p)
    PROVE  IInv'
<1>1. job[p] \in Job
    BY Working DEF IInv
<1>2. ASSUME NEW g \in Results, NEW b \in Batches, NEW r \in Roots, StartCompile(p, g, b, r)
      PROVE  IInv'
    <2>. DEFINE state == [pc |-> "replay", result |-> g, queue |-> queue, trace |-> roots[r],
                          review |-> batches[b]]
    <2>1. queue \in Queue /\ roots[r] \in Trace /\ batches[b] \in Review(Documents)
        BY <1>2 DEF StartCompile, TraceAt, Traced, Queued, IInv, TypeOK
    <2>2. state \in Replaying
        BY <2>1 DEF Replaying
    <2>3. state \in Job
        BY <2>2, JobsAre
    <2>4. state.pc = "replay" /\ job[p].pc = "idle"
        BY <1>2 DEF StartCompile, At
    <2>. HIDE DEF state
    <2>5. Hold(p, state)
        BY <1>2 DEF StartCompile, state
    <2>. QED
        BY <2>3, <2>4, <2>5, HoldKeeps
<1>3. CASE Replay(p)
    <2>. DEFINE governed == GovernedOf(job[p].queue, job[p].trace, job[p].review)
                state == [pc |-> "newresult", result |-> job[p].result, governed |-> governed]
    <2>1. job[p] \in Replaying /\ job[p].pc = "replay"
        BY <1>1, <1>3, JobAt DEF Replay, At
    <2>2. governed \in Governed(Documents)
        BY <1>3, <2>1, GovernedTyped DEF Replay, Accepted, Replaying
    <2>. HIDE DEF governed
    <2>3. state \in Resulting /\ state.pc = "newresult"
        BY <2>1, <2>2 DEF Replaying, Resulting
    <2>4. state \in Job
        BY <2>3, JobsAre
    <2>. HIDE DEF state
    <2>5. Hold(p, state)
        BY <1>3 DEF Replay, state, governed
    <2>. QED
        BY <2>1, <2>3, <2>4, <2>5, HoldKeeps
<1>4. CASE ReplayRefused(p)
    BY <1>4, StopKeeps DEF ReplayRefused, At
<1>5. CASE CreateResult(p)
    <2>. DEFINE state == [job[p] EXCEPT !.pc = "fillresult"]
    <2>1. job[p] \in Resulting /\ job[p].pc = "newresult"
        BY <1>1, <1>5, JobAt DEF CreateResult, At
    <2>2. state \in Resulting /\ state.pc = "fillresult"
        BY <2>1 DEF Resulting
    <2>3. state \in Job
        BY <2>2, JobsAre
    <2>4. results' \in [Results -> Governed(Documents) \cup {Absent, Partial}]
        BY <1>5 DEF CreateResult, IInv, TypeOK
    <2>. HIDE DEF state
    <2>5. /\ Become(p, state) /\ UNCHANGED <<roots, history, world>>
          /\ queue' = queue /\ batches' = batches
        BY <1>5 DEF CreateResult, state
    <2>. QED
        BY <2>1, <2>2, <2>3, <2>4, <2>5, QuietKeeps DEF IInv, TypeOK
<1>6. CASE ResultTaken(p)
    BY <1>6, StopKeeps DEF ResultTaken, At
<1>7. CASE FillResult(p)
    <2>1. job[p] \in Resulting /\ job[p].pc = "fillresult"
        BY <1>1, <1>7, JobAt DEF FillResult, At
    <2>2. job[p].governed \in Governed(Documents)
        BY <2>1 DEF Resulting
    <2>3. results' \in [Results -> Governed(Documents) \cup {Absent, Partial}]
        BY <1>7, <2>2 DEF FillResult, IInv, TypeOK
    <2>4. Idle \in Job /\ Idle.pc = "idle"
        BY JobsAre DEF Idle
    <2>5. /\ Become(p, Idle) /\ UNCHANGED <<roots, history, world>>
          /\ queue' = queue /\ batches' = batches
        BY <1>7 DEF FillResult
    <2>. QED
        BY <2>1, <2>3, <2>4, <2>5, QuietKeeps DEF IInv, TypeOK
<1>. QED
    BY <1>2, <1>3, <1>4, <1>5, <1>6, <1>7 DEF CompileStep

(***************************************************************************)
(* What happens to processes and files.                                    *)
(***************************************************************************)
LEMMA CrashKeeps ==
    ASSUME IInv, NEW p \in Programs, Crash(p)
    PROVE  IInv'
<1>1. Idle \in Job /\ Idle.pc = "idle"
    BY JobsAre DEF Idle
<1>2. Become(p, Idle)
    BY DEF Crash
<1>3. /\ roots' = roots /\ queue' = queue /\ batches' = batches /\ results' = results
      /\ calls' = calls /\ answered' = answered
      /\ donor' = donor /\ document' = document /\ edits' = edits
    BY DEF Crash, files, world
<1>4. /\ job' \in [Programs -> Job] /\ job'[p] = Idle
      /\ \A q \in Programs : q # p => job'[q] = job[q]
    BY <1>1, <1>2, Becomes DEF IInv
<1>5. /\ lost \subseteq lost'
      /\ job[p].pc \in {"create", "fill"} => job[p].root \in lost' /\ job[p].root \in Roots
      /\ lost' \subseteq Roots
    <2>1. CASE job[p].pc \in {"create", "fill"}
        <3>1. job[p].root \in Roots
            BY <2>1, Working, JobAt DEF IInv, Tracing
        <3>. QED
            BY <2>1, <3>1 DEF Crash, IInv, TypeOK
    <2>2. CASE job[p].pc \notin {"create", "fill"}
        BY <2>2 DEF Crash, IInv, TypeOK
    <2>. QED
        BY <2>1, <2>2
<1>6. TypeOK'
    BY <1>3, <1>4, <1>5 DEF IInv, TypeOK
<1>7. CallsClaimed'
    BY <1>1, <1>3, <1>4 DEF IInv, CallsClaimed
<1>8. SomethingAsked'
    BY <1>1, <1>4 DEF IInv, SomethingAsked
<1>9. EveryCallTraced'
    BY <1>3, <1>4, <1>5 DEF IInv, EveryCallTraced, Traced
<1>. QED
    BY <1>6, <1>7, <1>8, <1>9 DEF IInv

(* A trace of which one field is no more what it was is still a trace.     *)
LEMMA CorruptedTyped ==
    ASSUME NEW t \in Trace, NEW other \in Corrupted(t)
    PROVE  other \in Trace
<1>1. \A x \in Schema(t.cases) :
          x \in Response /\ x.answers \in UNION {[K -> Quotes] : K \in SUBSET Keys}
    BY DEF Schema, Response
<1>2. ASSUME NEW x \in Schema(t.cases), other = [t EXCEPT !.raw = x] PROVE other \in Trace
    BY <1>1, <1>2 DEF Trace
<1>3. ASSUME NEW x \in Schema(t.cases), other = [t EXCEPT !.batch = x] PROVE other \in Trace
    BY <1>1, <1>3 DEF Trace
<1>4. ASSUME NEW x \in Schema(t.cases), other = [t EXCEPT !.compiled = x.answers] PROVE other \in Trace
    BY <1>1, <1>4 DEF Trace
<1>5. ASSUME NEW x \in Lifecycles, other = [t EXCEPT !.lifecycle = x] PROVE other \in Trace
    BY <1>5 DEF Trace
<1>6. CASE other = [t EXCEPT !.passed = ~t.passed]
    BY <1>6 DEF Trace
<1>. QED
    BY <1>2, <1>3, <1>4, <1>5, <1>6 DEF Corrupted

LEMMA CorruptTraceKeeps ==
    ASSUME IInv, NEW r \in Roots, CorruptTrace(r)
    PROVE  IInv'
<1>1. roots[r] \in Trace
    BY DEF CorruptTrace, Traced, IInv, TypeOK
<1>2. PICK t \in Corrupted(roots[r]) : roots' = [roots EXCEPT ![r] = t]
    BY DEF CorruptTrace
<1>3. t \in Trace /\ t \notin {Absent, Empty, Partial}
    BY <1>1, CorruptedTyped, GovernanceConstants
<1>4. /\ queue' = queue /\ batches' = batches /\ results' = results /\ job' = job
      /\ calls' = calls /\ answered' = answered /\ lost' = lost
      /\ donor' = donor /\ document' = document /\ edits' = edits + 1 /\ edits < MaxEdits
    BY DEF CorruptTrace, history
<1>5. edits' \in 0..MaxEdits
    BY <1>4, GovernanceConstants DEF IInv, TypeOK
<1>6. /\ roots \in [Roots -> Trace \cup {Absent, Empty, Partial}]
      /\ roots' \in [Roots -> Trace \cup {Absent, Empty, Partial}]
      /\ \A x \in Roots : roots'[x] = IF x = r THEN t ELSE roots[x]
    BY <1>2, <1>3 DEF IInv, TypeOK
<1>7. TypeOK'
    BY <1>4, <1>5, <1>6 DEF IInv, TypeOK
<1>8. CallsClaimed'
    <2>1. \A x \in Roots : calls'[x] <= 1 /\ (roots'[x] = Absent => calls'[x] = 0)
        BY <1>3, <1>4, <1>6 DEF IInv, CallsClaimed
    <2>2. ASSUME NEW q \in Programs, job'[q].pc = "call"
          PROVE  calls'[job'[q].root] = 0 /\ roots'[job'[q].root] # Absent
        <3>1. job[q].root \in Roots
            BY <1>4, <2>2, Working, JobAt DEF IInv, Calling
        <3>. QED
            BY <1>3, <1>4, <1>6, <2>2, <3>1 DEF IInv, CallsClaimed
    <2>3. \A q, o \in Programs :
              job'[q].pc = "call" /\ job'[o].pc = "call" /\ job'[q].root = job'[o].root => q = o
        BY <1>4 DEF IInv, CallsClaimed
    <2>. QED
        BY <2>1, <2>2, <2>3 DEF CallsClaimed
<1>9. SomethingAsked'
    BY <1>4 DEF IInv, SomethingAsked
<1>10. EveryCallTraced'
    <2>1. \A x \in Roots : Traced(x) => Traced(x)'
        BY <1>3, <1>6 DEF Traced
    <2>. QED
        BY <1>4, <2>1 DEF IInv, EveryCallTraced
<1>. QED
    BY <1>7, <1>8, <1>9, <1>10 DEF IInv

LEMMA OthersKeep ==
    ASSUME IInv, \/ \E d \in Donors : ReplaceDonor(d)
                 \/ \E d \in Documents : EditDocument(d)
                 \/ UNCHANGED vars
    PROVE  IInv'
<1>1. /\ queue' = queue /\ batches' = batches /\ results' = results /\ job' = job
      /\ roots' = roots /\ calls' = calls /\ answered' = answered /\ lost' = lost
      /\ edits' = edits /\ donor' \in Donors /\ document' \in Documents
    BY DEF ReplaceDonor, EditDocument, vars, files, history, IInv, TypeOK
<1>2. TypeOK'
    BY <1>1 DEF IInv, TypeOK
<1>. QED
    BY <1>1, <1>2 DEF IInv, CallsClaimed, SomethingAsked, EveryCallTraced, Traced

(***************************************************************************)
(* The invariant.                                                          *)
(***************************************************************************)
LEMMA InitHolds == Init => IInv
<1>. SUFFICES ASSUME Init PROVE IInv
    OBVIOUS
<1>1. Idle \in Job /\ Idle.pc = "idle"
    BY JobsAre DEF Idle
<1>2. [response |-> NoResponse, model |-> NoModel] \in Answer
    BY DEF Answer
<1>3. 0 \in 0..MaxEdits
    BY GovernanceConstants
<1>4. TypeOK
    BY <1>1, <1>2, <1>3, GovernanceConstants DEF Init, TypeOK
<1>5. CallsClaimed /\ SomethingAsked /\ EveryCallTraced
    BY <1>1 DEF Init, CallsClaimed, SomethingAsked, EveryCallTraced
<1>. QED
    BY <1>4, <1>5 DEF IInv

LEMMA StepKeeps == IInv /\ [Next]_vars => IInv'
<1>. SUFFICES ASSUME IInv, [Next]_vars PROVE IInv'
    OBVIOUS
<1>1. ASSUME NEW p \in Programs, BuildStep(p) PROVE IInv'
    BY <1>1, BuildStepKeeps
<1>2. ASSUME NEW p \in Programs, NEW r \in Roots, StartRun(p, r) PROVE IInv'
    BY <1>2, StartRunKeeps
<1>3. ASSUME NEW p \in Programs, RunStep(p) PROVE IInv'
    BY <1>3, RunStepKeeps
<1>4. ASSUME NEW p \in Programs, ReviewStep(p) PROVE IInv'
    BY <1>4, ReviewStepKeeps
<1>5. ASSUME NEW p \in Programs, CompileStep(p) PROVE IInv'
    BY <1>5, CompileStepKeeps
<1>6. ASSUME NEW p \in Programs, Crash(p) PROVE IInv'
    BY <1>6, CrashKeeps
<1>7. ASSUME NEW r \in Roots, CorruptTrace(r) PROVE IInv'
    BY <1>7, CorruptTraceKeeps
<1>. QED
    BY <1>1, <1>2, <1>3, <1>4, <1>5, <1>6, <1>7, OthersKeep DEF Next

LEMMA Invariance == Spec => []IInv
BY InitHolds, StepKeeps, PTL DEF Spec

(* Every file holds an artifact of its kind, none, or an unfinished one,   *)
(* and every program knows what its place in the work needs.               *)
THEOREM TypeCorrect == Spec => []TypeOK
BY Invariance, PTL DEF IInv

(* A run root pays for at most one call: mkdir claims the root for one     *)
(* program, and no program calls for a root it has not made.               *)
THEOREM OneCallForARoot == Spec => []OneCallPerRoot
<1>1. IInv => OneCallPerRoot
    BY DEF IInv, CallsClaimed, OneCallPerRoot
<1>. QED
    BY <1>1, Invariance, PTL

(* Whatever was paid for is in the trace of its root, or will be written   *)
(* by the program that paid, or that program was killed: the validator     *)
(* refuses none of the four kinds of trace.                                *)
THEOREM EveryCallIsTraced == Spec => []EveryCallTraced
BY Invariance, PTL DEF IInv
=============================================================================
