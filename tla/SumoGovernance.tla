---------------------------- MODULE SumoGovernance ----------------------------
(***************************************************************************)
(* The programs of the SUMO semantic review over one directory of files.   *)
(* Each invocation builds the queue, makes the one paid call for a queue,  *)
(* binds a reviewer's decisions to a trace, or compiles the governed       *)
(* crosswalk.  They share nothing but files, which are read again by each  *)
(* program and may have changed: the donor is replaced, the queue rebuilt, *)
(* the decision document edited, a field of a trace corrupted.             *)
(* A step is what lies between two points where another program can act or *)
(* the process can be killed.                                              *)
(***************************************************************************)
EXTENDS SemanticReview

CONSTANTS
    Programs, Documents, Batches, Results,
    Offered,                      \* the decisions a reviewer may hand in
    FirstDonor, FirstDocument,
    Absent, Empty, Partial,       \* no file; a run root without one; an unfinished file
    MaxEdits                      \* corruptions of traces

VARIABLES
    donor,      \* the donor database
    queue,      \* the queue artifact
    document,   \* the decision document
    roots,      \* roots[r]: the run root r and the trace in it
    batches,    \* batches[b]: a file of review batches
    results,    \* results[g]: a file of governed crosswalks
    job,        \* job[p]: the local variables of program p
    calls,      \* calls[r]: the calls paid for by a run with root r
    answered,   \* answered[r]: what the last of them returned, and by which model
    lost,       \* roots whose run was killed between the call and the trace
    edits       \* corruptions so far

vars == <<donor, queue, document, roots, batches, results, job, calls, answered, lost, edits>>
files == <<queue, roots, batches, results>>
history == <<calls, answered, lost>>
world == <<donor, document, edits>>

Answer == [response : Response \cup {NoResponse}, model : Models \cup {NoModel}]

(* What a governed crosswalk claims: of which root, who has reviewed it,   *)
(* and what it records of each case.                                       *)
Disposition ==
    [root : Roots, reviewer : Models, records : UNION {[C -> Record] : C \in SUBSET Cases}]

ASSUME GovernanceConstants ==
    /\ Offered \subseteq Decisions
    /\ FirstDonor \in Donors /\ FirstDocument \in Documents /\ MaxEdits \in Nat
    /\ NoResponse \notin Response
    /\ Absent \notin Trace \cup {Empty, Partial} \cup Queue /\ Partial \notin Queue
    /\ Empty \notin Trace \cup {Partial} /\ Partial \notin Trace
    /\ {Absent, Partial} \cap (Review(Documents) \cup Governed(Documents)) = {}
    /\ Absent \notin Answer \cup Disposition

Idle == [pc |-> "idle"]

Init ==
    /\ donor = FirstDonor /\ document = FirstDocument /\ edits = 0
    /\ queue = Absent
    /\ roots = [r \in Roots |-> Absent]
    /\ batches = [b \in Batches |-> Absent]
    /\ results = [g \in Results |-> Absent]
    /\ job = [p \in Programs |-> Idle]
    /\ calls = [r \in Roots |-> 0]
    /\ answered = [r \in Roots |-> [response |-> NoResponse, model |-> NoModel]]
    /\ lost = {}

At(p, pc) == job[p].pc = pc
Become(p, state) == job' = [job EXCEPT ![p] = state]
Stop(p) == Become(p, Idle) /\ UNCHANGED <<files, history, world>>
Hold(p, state) == Become(p, state) /\ UNCHANGED <<files, history, world>>

(***************************************************************************)
(* The queue builder.  It looks for an old queue once, hashes the donor,   *)
(* opens it again for the descriptions, and overwrites what is there, in   *)
(* place: the file is emptied, then filled.                                *)
(***************************************************************************)
StartBuild(p, report, checkout) ==
    /\ At(p, "idle") /\ queue = Absent
    /\ Hold(p, [pc |-> "hash", report |-> report, checkout |-> checkout])

HashDonor(p) ==
    /\ At(p, "hash") /\ donor = job[p].report.donor
    /\ Hold(p, [job[p] EXCEPT !.pc = "describe"])

DonorMismatch(p) == At(p, "hash") /\ donor # job[p].report.donor /\ Stop(p)

Buildable(p) ==
    /\ Described(donor)
    /\ job[p].checkout.intact
    /\ job[p].report.conflicts \cap job[p].report.foreign = {}

BuildQueue(p) ==
    /\ At(p, "describe") /\ Buildable(p)
    /\ Hold(p, [pc |-> "write", built |-> QueueOf(job[p].report, donor, job[p].checkout)])

BuildRefused(p) == At(p, "describe") /\ ~Buildable(p) /\ Stop(p)

TruncateQueue(p) ==
    /\ At(p, "write")
    /\ queue' = Partial
    /\ Become(p, [job[p] EXCEPT !.pc = "fillqueue"])
    /\ UNCHANGED <<roots, batches, results, history, world>>

(* What another builder has filled since keeps its end if it is longer. *)
Filled(p) == IF queue \in {Partial, job[p].built} THEN {job[p].built} ELSE {job[p].built, Partial}

FillQueue(p) ==
    /\ At(p, "fillqueue")
    /\ \E content \in Filled(p) : queue' = content
    /\ Become(p, Idle)
    /\ UNCHANGED <<roots, batches, results, history, world>>

(* The other programs take a whole queue. *)
Queued == queue \notin {Absent, Partial}

(***************************************************************************)
(* The proposal run.                                                       *)
(***************************************************************************)
StartRun(p, r) ==
    /\ At(p, "idle")
    /\ Queued /\ Askable(queue.cases)
    /\ roots[r] = Absent
    /\ Hold(p, [pc |-> "mkdir", root |-> r, cases |-> queue.cases])

(* A run that takes any directory for its root. *)
MakeRootAnyway(p) ==
    /\ At(p, "mkdir")
    /\ roots' = [roots EXCEPT ![job[p].root] = Empty]
    /\ Become(p, [job[p] EXCEPT !.pc = "call"])
    /\ UNCHANGED <<queue, batches, results, history, world>>

(* mkdir makes the root or fails: the claim on the one call. *)
MakeRoot(p) ==
    /\ At(p, "mkdir") /\ roots[job[p].root] = Absent
    /\ roots' = [roots EXCEPT ![job[p].root] = Empty]
    /\ Become(p, [job[p] EXCEPT !.pc = "call"])
    /\ UNCHANGED <<queue, batches, results, history, world>>

RootTaken(p) == At(p, "mkdir") /\ roots[job[p].root] # Absent /\ Stop(p)

(* Exact cases of one predicate, or out of order: the root stays behind    *)
(* without a trace.                                                        *)
ContractRefused(p) == At(p, "call") /\ ~Contractable(job[p].cases) /\ Stop(p)

(* The process goes on with a trace its validator takes. *)
Called(p, r, response, model, trace) ==
    /\ calls' = [calls EXCEPT ![r] = @ + 1]
    /\ answered' = [answered EXCEPT ![r] = [response |-> response, model |-> model]]
    /\ Become(p, IF TerminalConsistent(trace)
                 THEN [pc |-> "create", root |-> r, trace |-> trace] ELSE Idle)
    /\ UNCHANGED <<files, world, lost>>

(* The provider fails or returns what the schema refuses. *)
CallFails(p) ==
    /\ At(p, "call") /\ Contractable(job[p].cases)
    /\ LET r == job[p].root
       IN  Called(p, r, NoResponse, NoModel, FailureTrace(r, job[p].cases))

CallAnswers(p, batch, raw, model) ==
    /\ At(p, "call") /\ Contractable(job[p].cases)
    /\ batch \in Schema(job[p].cases)
    /\ raw \in {batch, NoResponse}
    /\ LET r == job[p].root
       IN  Called(p, r, batch, model, AnswerTrace(r, job[p].cases, batch, raw, model))

CreateTrace(p) ==
    /\ At(p, "create") /\ roots[job[p].root] = Empty
    /\ roots' = [roots EXCEPT ![job[p].root] = Partial]
    /\ Become(p, [job[p] EXCEPT !.pc = "fill"])
    /\ UNCHANGED <<queue, batches, results, history, world>>

FillTrace(p) ==
    /\ At(p, "fill")
    /\ roots' = [roots EXCEPT ![job[p].root] = job[p].trace]
    /\ Become(p, Idle)
    /\ UNCHANGED <<queue, batches, results, history, world>>

RunStep(p) ==
    \/ MakeRoot(p) \/ RootTaken(p) \/ ContractRefused(p) \/ CallFails(p)
    \/ /\ At(p, "call")
       /\ \E batch \in Schema(job[p].cases), model \in Models \cup {NoModel} :
              \E raw \in {batch, NoResponse} : CallAnswers(p, batch, raw, model)
    \/ CreateTrace(p) \/ FillTrace(p)

(***************************************************************************)
(* The reviewer's batch.                                                   *)
(***************************************************************************)
Traced(r) == roots[r] \notin {Absent, Empty, Partial}
TraceAt(r) == Traced(r) /\ TerminalConsistent(roots[r])

StartReview(p, b, r, reviewer, decisions) ==
    /\ At(p, "idle")
    /\ Queued /\ TraceAt(r) /\ Reviewable(queue, roots[r])
    /\ Hold(p, [pc |-> "document", batch |-> b, queue |-> queue, trace |-> roots[r],
                reviewer |-> reviewer, decisions |-> decisions])

BindDocument(p) ==
    /\ At(p, "document")
    /\ Hold(p, [pc |-> "newbatch", batch |-> job[p].batch,
                review |-> [queue |-> job[p].queue, trace |-> job[p].trace,
                            document |-> document, reviewer |-> job[p].reviewer,
                            decisions |-> job[p].decisions]])

CreateBatch(p) ==
    /\ At(p, "newbatch") /\ batches[job[p].batch] = Absent
    /\ batches' = [batches EXCEPT ![job[p].batch] = Partial]
    /\ Become(p, [job[p] EXCEPT !.pc = "fillbatch"])
    /\ UNCHANGED <<queue, roots, results, history, world>>

BatchTaken(p) == At(p, "newbatch") /\ batches[job[p].batch] # Absent /\ Stop(p)

FillBatch(p) ==
    /\ At(p, "fillbatch")
    /\ batches' = [batches EXCEPT ![job[p].batch] = job[p].review]
    /\ Become(p, Idle)
    /\ UNCHANGED <<queue, roots, results, history, world>>

(***************************************************************************)
(* The governed crosswalk.                                                 *)
(***************************************************************************)
StartCompile(p, g, b, r) ==
    /\ At(p, "idle")
    /\ Queued /\ TraceAt(r) /\ batches[b] \notin {Absent, Partial}
    /\ Governable(queue, roots[r], batches[b])
    /\ Hold(p, [pc |-> "replay", result |-> g, queue |-> queue, trace |-> roots[r],
                review |-> batches[b]])

Accepted(p) ==
    /\ job[p].review.document = document
    /\ Replays(job[p].queue, job[p].trace, job[p].review)

Replay(p) ==
    /\ At(p, "replay") /\ Accepted(p)
    /\ Hold(p, [pc |-> "newresult", result |-> job[p].result,
                governed |-> GovernedOf(job[p].queue, job[p].trace, job[p].review)])

ReplayRefused(p) == At(p, "replay") /\ ~Accepted(p) /\ Stop(p)

CreateResult(p) ==
    /\ At(p, "newresult") /\ results[job[p].result] = Absent
    /\ results' = [results EXCEPT ![job[p].result] = Partial]
    /\ Become(p, [job[p] EXCEPT !.pc = "fillresult"])
    /\ UNCHANGED <<queue, roots, batches, history, world>>

ResultTaken(p) == At(p, "newresult") /\ results[job[p].result] # Absent /\ Stop(p)

FillResult(p) ==
    /\ At(p, "fillresult")
    /\ results' = [results EXCEPT ![job[p].result] = job[p].governed]
    /\ Become(p, Idle)
    /\ UNCHANGED <<queue, roots, batches, history, world>>

(***************************************************************************)
(* What happens to processes and files.                                    *)
(***************************************************************************)
Crash(p) ==
    /\ ~At(p, "idle")
    /\ Become(p, Idle)
    /\ lost' = IF job[p].pc \in {"create", "fill"} THEN lost \cup {job[p].root} ELSE lost
    /\ UNCHANGED <<files, calls, answered, world>>

ReplaceDonor(d) ==
    /\ d # donor /\ donor' = d
    /\ UNCHANGED <<files, history, job, document, edits>>

EditDocument(d) ==
    /\ d # document /\ document' = d
    /\ UNCHANGED <<files, history, job, donor, edits>>

(* One field of a trace is no more what it was: the raw response, the      *)
(* batch, what was compiled of it, the lifecycle, or the controls' result. *)
Corrupted(t) ==
    {[t EXCEPT !.raw = x] : x \in Schema(t.cases)}
        \cup {[t EXCEPT !.batch = x] : x \in Schema(t.cases)}
        \cup {[t EXCEPT !.compiled = x.answers] : x \in Schema(t.cases)}
        \cup {[t EXCEPT !.lifecycle = x] : x \in Lifecycles}
        \cup {[t EXCEPT !.passed = ~t.passed]}

CorruptTrace(r) ==
    /\ edits < MaxEdits /\ Traced(r)
    /\ \E t \in Corrupted(roots[r]) \ {roots[r]} : roots' = [roots EXCEPT ![r] = t]
    /\ edits' = edits + 1
    /\ UNCHANGED <<queue, batches, results, history, job, donor, document>>

BuildStep(p) ==
    \/ \E report \in Reports, checkout \in Checkouts : StartBuild(p, report, checkout)
    \/ HashDonor(p) \/ DonorMismatch(p) \/ BuildQueue(p) \/ BuildRefused(p)
    \/ TruncateQueue(p) \/ FillQueue(p)

ReviewStep(p) ==
    \/ \E b \in Batches, r \in Roots, reviewer \in Models, decisions \in Offered :
           StartReview(p, b, r, reviewer, decisions)
    \/ BindDocument(p) \/ CreateBatch(p) \/ BatchTaken(p) \/ FillBatch(p)

CompileStep(p) ==
    \/ \E g \in Results, b \in Batches, r \in Roots : StartCompile(p, g, b, r)
    \/ Replay(p) \/ ReplayRefused(p) \/ CreateResult(p) \/ ResultTaken(p) \/ FillResult(p)

Next ==
    \/ \E p \in Programs :
           \/ BuildStep(p)
           \/ \E r \in Roots : StartRun(p, r)
           \/ RunStep(p) \/ ReviewStep(p) \/ CompileStep(p) \/ Crash(p)
    \/ \E d \in Donors : ReplaceDonor(d)
    \/ \E d \in Documents : EditDocument(d)
    \/ \E r \in Roots : CorruptTrace(r)

Spec == Init /\ [][Next]_vars

(***************************************************************************)
(* Properties.                                                             *)
(***************************************************************************)
Job ==
    {Idle}
        \cup [pc : {"hash", "describe"}, report : Reports, checkout : Checkouts]
        \cup [pc : {"write", "fillqueue"}, built : Queue]
        \cup [pc : {"mkdir", "call"}, root : Roots,
              cases : UNION {[C -> Evidence] : C \in SUBSET Cases}]
        \cup [pc : {"create", "fill"}, root : Roots, trace : Trace]
        \cup [pc : {"document"}, batch : Batches, queue : Queue, trace : Trace,
              reviewer : Models, decisions : Decisions]
        \cup [pc : {"newbatch", "fillbatch"}, batch : Batches, review : Review(Documents)]
        \cup [pc : {"replay"}, result : Results, queue : Queue, trace : Trace,
              review : Review(Documents)]
        \cup [pc : {"newresult", "fillresult"}, result : Results,
              governed : Governed(Documents)]

(* Every file holds an artifact of its kind, none, or an unfinished one.   *)
TypeOK ==
    /\ donor \in Donors /\ document \in Documents /\ edits \in 0..MaxEdits
    /\ queue \in Queue \cup {Absent, Partial}
    /\ roots \in [Roots -> Trace \cup {Absent, Empty, Partial}]
    /\ batches \in [Batches -> Review(Documents) \cup {Absent, Partial}]
    /\ results \in [Results -> Governed(Documents) \cup {Absent, Partial}]
    /\ job \in [Programs -> Job]
    /\ calls \in [Roots -> Nat]
    /\ answered \in [Roots -> Answer]
    /\ lost \subseteq Roots

(* A run root pays for one call, however many runs are started with it,    *)
(* race for it, or are killed at whatever point (the mkdir before the call *)
(* is the only claim: num_retries=0 guards the client alone).              *)
OneCallPerRoot == \A r \in Roots : calls[r] <= 1

Finished == {g \in Results : results[g] \notin {Absent, Partial}}

DispositionOf(governed) ==
    [root |-> governed.review.trace.id, reviewer |-> governed.review.reviewer,
     records |-> governed.records]

Asked == [r \in Roots |-> IF calls[r] = 0 THEN Absent ELSE answered[r]]
Decided == [g \in Results |-> IF g \in Finished THEN DispositionOf(results[g]) ELSE Absent]

Ledger == INSTANCE SumoLedger WITH
    Unasked <- Absent, Undecided <- Absent, asked <- Asked, decided <- Decided

(* Through four files, re-read by three programs while the donor, the      *)
(* queue, the document and one field of a trace change, a governed         *)
(* crosswalk says of each case what the model answered in the one call of  *)
(* the run, controls passed, and somebody other than that model reviewed.  *)
LedgerKept == Ledger!Spec

(* Whatever the provider returns, refused by the schema, ungrounded, with  *)
(* failed controls or good, the call that was paid for is written down, or *)
(* will be by the process that made it, unless that process was killed     *)
(* (the four lifecycles, and the validator each trace must pass).          *)
EveryCallTraced ==
    \A r \in Roots : calls[r] > 0 =>
        \/ Traced(r) \/ r \in lost
        \/ \E p \in Programs : job[p].pc \in {"create", "fill"} /\ job[p].root = r
=============================================================================
