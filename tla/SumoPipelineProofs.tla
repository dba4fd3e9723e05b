-------------------------- MODULE SumoPipelineProofs --------------------------
(***************************************************************************)
(* The invariants of SumoPipeline, for any number of invocations, modules, *)
(* contents, classes and changes: that an audit names the donor it read    *)
(* and compares by what the axioms mean, that a review is of one checkout  *)
(* and that a context follows from the approved content alone.             *)
(***************************************************************************)
EXTENDS SumoPipeline, SumoSourceProofs

(* What an invocation knows at each place of its command.                  *)
Placed(r) ==
    /\ r.pc = "verify" => r.read = Unread
    /\ r.pc \in {"hash", "open", "roles", "rehash"} => r.kind = "audit"
    /\ r.pc \in {"open", "roles", "rehash"} => r.named \in Donors
    /\ r.pc \in {"roles", "rehash"} => r.preds \in Donors
    /\ r.pc = "rehash" => r.rows \in Donors
    /\ r.pc = "reread" => r.kind = "publish"
    /\ r.kind = "publish" /\ r.pc \in {"reread", "check", "put", "fill"} => Merge \in DOMAIN r.read
    /\ r.pc \in {"check", "put", "fill"} =>
           \/ r.kind = "project" /\ r.pc # "fill" /\ r.left = <<"projection">>
           \/ /\ r.kind = "audit" /\ r.pc # "fill" /\ r.left = <<"audit">>
              /\ r.named \in Donors /\ r.preds \in Donors /\ r.rows \in Donors
           \/ /\ r.kind = "publish"
              /\ r.left \in {<<"review", "context", "notice">>, <<"context", "notice">>, <<"notice">>}

(* A difference between the donor, what was read of it and its name costs  *)
(* a replacement, and a difference that has gone again costs two.          *)
DonorCounted(r, d) ==
    /\ r.pc = "open" /\ d # r.named => r.swaps >= 1
    /\ r.pc = "roles" =>
           /\ d # r.named \/ r.preds # r.named => r.swaps >= 1
           /\ d = r.named /\ r.preds # r.named => r.swaps >= 2
    /\ r.pc = "rehash" =>
           /\ d # r.named \/ r.preds # r.named \/ r.rows # r.named => r.swaps >= 1
           /\ d = r.named /\ (r.preds # r.named \/ r.rows # r.named) => r.swaps >= 2
    /\ r.kind = "audit" /\ r.pc \in {"check", "put"} =>
           (r.preds # r.named \/ r.rows # r.named => r.swaps >= 2)

(* A module that was not there when reading ended was edited once, and     *)
(* again before it is found as it was read.                                *)
CheckoutCounted(r, held) ==
    /\ r.kind = "publish" /\ r.pc = "read" =>
           \A m \in DOMAIN r.read : held[m] # r.read[m] => r.swaps >= 1
    /\ r.pc = "reread" /\ ~r.atOnce =>
           r.swaps >= 2 \/ (r.swaps >= 1 /\ \E m \in r.todo : held[m] # r.read[m])
    /\ r.kind = "publish" /\ r.pc \in {"check", "put", "fill"} /\ ~r.atOnce => r.swaps >= 2

Good(r, d, held, n) ==
    /\ r \in RunStates /\ r.swaps <= n
    /\ Placed(r) /\ DonorCounted(r, d) /\ CheckoutCounted(r, held)

FilesTyped ==
    /\ files = [f \in Artifacts |-> files[f]]
    /\ files.projection \in Reads \cup {Absent}
    /\ files.audit \in [read : Reads, named : Donors, preds : Donors, rows : Donors] \cup {Absent}
    /\ files.review \in Reads \cup {Absent, Torn}
    /\ files.context \in Reads \cup {Absent, Torn}
    /\ files.notice \in Contents \cup {Absent, Torn}

OthersTyped ==
    /\ checkout \in [Modules -> Contents \cup {Absent}]
    /\ donor \in Donors
    /\ edits \in 0..MaxEdits

RunsGood ==
    /\ run = [p \in Runs |-> run[p]]
    /\ \A p \in Runs : Good(run[p], donor, checkout, edits)

IInv == OthersTyped /\ FilesTyped /\ RunsGood

(***************************************************************************)
(* Readings.                                                               *)
(***************************************************************************)
LEMMA UnreadIsRead == Unread \in Reads
<1>1. [m \in Modules |-> Approved] \in [Modules -> Contents]
    BY SourceConstants
<1>2. PICK held \in [Modules -> Contents] : TRUE
    BY <1>1
<1>3. Unread = [m \in {} |-> held[m]]
    BY DEF Unread
<1>. QED
    BY <1>2, <1>3 DEF Reads

LEMMA HavingIsRead ==
    ASSUME NEW read \in Reads, NEW m \in Modules, NEW content \in Contents
    PROVE  Having(read, m, content) \in Reads
<1>1. PICK S \in SUBSET Modules, held \in [Modules -> Contents] : read = [x \in S |-> held[x]]
    BY DEF Reads
<1>. DEFINE now == [held EXCEPT ![m] = content]
<1>2. now \in [Modules -> Contents]
    OBVIOUS
<1>3. DOMAIN read = S
    BY <1>1
<1>4. Having(read, m, content) = [x \in S \cup {m} |-> now[x]]
    <2>1. ASSUME NEW x \in S \cup {m}
          PROVE  (IF x = m THEN content ELSE read[x]) = now[x]
        BY <1>1
    <2>. QED
        BY <2>1, <1>3 DEF Having
<1>5. S \cup {m} \in SUBSET Modules
    OBVIOUS
<1>. HIDE DEF now
<1>. QED
    BY <1>2, <1>4, <1>5 DEF Reads

LEMMA ReadDomain ==
    ASSUME NEW read \in Reads
    PROVE  DOMAIN read \subseteq Modules /\ \A m \in DOMAIN read : read[m] \in Contents
BY DEF Reads

(* What the compiler accepts has constraints of Merge.kif, hence Merge.kif. *)
LEMMA ProjectableHasMerge ==
    ASSUME NEW read \in Projectable
    PROVE  Merge \in DOMAIN read
<1>1. Constraints(read, agent, Merge) # {}
    BY DEF Projectable, Projects
<1>2. PICK a \in Axioms(read) : a.module = Merge
    BY <1>1 DEF Constraints
<1>3. PICK m \in DOMAIN read :
          a \in {[formula |-> Formulas[read[m]][i], module |-> m, digest |-> read[m], index |-> i] :
                    i \in {j \in DOMAIN Formulas[read[m]] : Formulas[read[m]][j].pred # "other"}}
    BY <1>2 DEF Axioms
<1>4. a.module = m
    BY <1>3
<1>. QED
    BY <1>2, <1>4

(***************************************************************************)
(* The steps of others.                                                    *)
(***************************************************************************)
LEMMA EditKeeps ==
    ASSUME IInv, NEW m \in Modules, NEW content \in Versions[m], Edit(m, content)
    PROVE  IInv'
<1>1. /\ content \in Contents \cup {Absent}
      /\ edits' = edits + 1 /\ edits' \in 0..MaxEdits /\ edits \in Nat /\ MaxEdits \in Nat
      /\ checkout' = [checkout EXCEPT ![m] = content]
      /\ checkout \in [Modules -> Contents \cup {Absent}]
      /\ donor' = donor /\ files' = files
    BY PipelineConstants DEF Edit, IInv, OthersTyped
<1>2. OthersTyped' /\ FilesTyped'
    BY <1>1 DEF IInv, OthersTyped, FilesTyped
<1>3. ASSUME NEW p \in Runs
      PROVE  Good(run'[p], donor', checkout', edits')
    <2>1. Good(run[p], donor, checkout, edits)
        BY DEF IInv, RunsGood
    <2>2. CASE run[p].kind = "publish" /\ run[p].pc \in {"read", "reread"}
        <3>1. run'[p] = [run[p] EXCEPT !.swaps = @ + 1]
            BY <2>2 DEF Edit, Disturbed
        <3>2. run'[p] \in RunStates /\ run'[p].swaps <= edits'
            BY <1>1, <2>1, <3>1 DEF Good, RunStates
        <3>3. Placed(run'[p]) /\ DonorCounted(run'[p], donor')
            BY <2>1, <2>2, <3>1 DEF Good, RunStates, Placed, DonorCounted
        <3>4. CheckoutCounted(run'[p], checkout')
            BY <2>1, <2>2, <3>1 DEF Good, RunStates, CheckoutCounted
        <3>. QED
            BY <3>2, <3>3, <3>4 DEF Good
    <2>3. CASE ~(run[p].kind = "publish" /\ run[p].pc \in {"read", "reread"})
        <3>1. run'[p] = run[p]
            BY <2>3 DEF Edit, Disturbed
        <3>2. run'[p] \in RunStates /\ run'[p].swaps <= edits'
            BY <1>1, <2>1, <3>1 DEF Good, RunStates
        <3>3. CheckoutCounted(run'[p], checkout')
            BY <2>1, <2>3, <3>1 DEF Good, CheckoutCounted, Placed
        <3>. QED
            BY <1>1, <2>1, <3>1, <3>2, <3>3 DEF Good
    <2>. QED
        BY <2>2, <2>3
<1>4. run' = [p \in Runs |-> run'[p]]
    BY DEF Edit, Disturbed
<1>. QED
    BY <1>2, <1>3, <1>4 DEF IInv, RunsGood

LEMMA ReplaceDonorKeeps ==
    ASSUME IInv, NEW d \in Donors, ReplaceDonor(d)
    PROVE  IInv'
<1>1. /\ edits' = edits + 1 /\ edits' \in 0..MaxEdits /\ edits \in Nat /\ MaxEdits \in Nat
      /\ donor' = d /\ checkout' = checkout /\ files' = files
    BY PipelineConstants DEF ReplaceDonor, IInv, OthersTyped
<1>2. OthersTyped' /\ FilesTyped'
    BY <1>1 DEF IInv, OthersTyped, FilesTyped
<1>3. ASSUME NEW p \in Runs
      PROVE  Good(run'[p], donor', checkout', edits')
    <2>1. Good(run[p], donor, checkout, edits)
        BY DEF IInv, RunsGood
    <2>2. CASE run[p].kind = "audit" /\ run[p].pc \in {"open", "roles", "rehash"}
        <3>1. run'[p] = [run[p] EXCEPT !.swaps = @ + 1]
            BY <2>2 DEF ReplaceDonor, Disturbed
        <3>2. run'[p] \in RunStates /\ run'[p].swaps <= edits'
            BY <1>1, <2>1, <3>1 DEF Good, RunStates
        <3>3. Placed(run'[p]) /\ CheckoutCounted(run'[p], checkout')
            BY <1>1, <2>1, <2>2, <3>1 DEF Good, RunStates, Placed, CheckoutCounted
        <3>4. DonorCounted(run'[p], donor')
            BY <2>1, <2>2, <3>1 DEF Good, RunStates, DonorCounted
        <3>. QED
            BY <3>2, <3>3, <3>4 DEF Good
    <2>3. CASE ~(run[p].kind = "audit" /\ run[p].pc \in {"open", "roles", "rehash"})
        <3>1. run'[p] = run[p]
            BY <2>3 DEF ReplaceDonor, Disturbed
        <3>2. run'[p] \in RunStates /\ run'[p].swaps <= edits'
            BY <1>1, <2>1, <3>1 DEF Good, RunStates
        <3>3. DonorCounted(run'[p], donor')
            BY <2>1, <2>3, <3>1 DEF Good, DonorCounted, Placed
        <3>. QED
            BY <1>1, <2>1, <3>1, <3>2, <3>3 DEF Good
    <2>. QED
        BY <2>2, <2>3
<1>4. run' = [p \in Runs |-> run'[p]]
    BY DEF ReplaceDonor, Disturbed
<1>. QED
    BY <1>2, <1>3, <1>4 DEF IInv, RunsGood

(***************************************************************************)
(* A step of one invocation changes what that invocation knows, and at     *)
(* most the outputs.                                                       *)
(***************************************************************************)
LEMMA FreshIsGood ==
    ASSUME NEW d, NEW held, NEW n \in Nat
    PROVE  Good(NewRun, d, held, n) /\ Good(Ended, d, held, n)
<1>1. NewRun \in RunStates /\ Ended \in RunStates
    <2>1. 0 \in 0..MaxEdits /\ {} \in SUBSET Modules /\ <<>> \in Seq(Artifacts)
          /\ FALSE \in BOOLEAN /\ "project" \in Kinds
        BY PipelineConstants DEF Kinds
    <2>2. NewRun \in RunStates
        BY <2>1, UnreadIsRead DEF NewRun, RunStates
    <2>. QED
        BY <2>2 DEF Ended, RunStates
<1>. QED
    BY <1>1 DEF Good, NewRun, Ended, Placed, DonorCounted, CheckoutCounted

LEMMA BecomeKeeps ==
    ASSUME IInv, NEW p \in Runs, NEW state, Become(p, state),
           Good(state, donor, checkout, edits), UNCHANGED <<checkout, donor, edits>>, FilesTyped'
    PROVE  IInv'
<1>1. run' = [q \in Runs |-> IF q = p THEN state ELSE run[q]]
    BY DEF Become, IInv, RunsGood
<1>2. \A q \in Runs : Good(run'[q], donor, checkout, edits)
    BY <1>1 DEF IInv, RunsGood
<1>. QED
    BY <1>1, <1>2 DEF IInv, RunsGood, OthersTyped

LEMMA ProceedKeeps ==
    ASSUME IInv, NEW p \in Runs, NEW accepted \in BOOLEAN, NEW state, Proceed(p, accepted, state),
           accepted => Good(state, donor, checkout, edits), UNCHANGED <<checkout, donor, files, edits>>
    PROVE  IInv'
<1>1. FilesTyped'
    BY DEF IInv, FilesTyped
<1>2. edits \in Nat
    BY PipelineConstants DEF IInv, OthersTyped
<1>3. Good(Ended, donor, checkout, edits)
    BY <1>2, FreshIsGood
<1>4. CASE accepted
    BY <1>1, <1>4, BecomeKeeps DEF Proceed
<1>5. CASE ~accepted
    BY <1>1, <1>3, <1>5, BecomeKeeps DEF Proceed
<1>. QED
    BY <1>4, <1>5

(***************************************************************************)
(* The steps of the compilation.                                           *)
(***************************************************************************)
LEMMA StartKeeps ==
    ASSUME IInv, NEW p \in Runs, NEW kind \in Kinds, NEW force \in BOOLEAN, Start(p, kind, force)
    PROVE  IInv'
<1>. DEFINE state == [NewRun EXCEPT !.pc = "verify", !.kind = kind, !.force = force, !.todo = Listing]
<1>1. NewRun \in RunStates /\ edits \in Nat
    BY FreshIsGood, PipelineConstants DEF Good, IInv, OthersTyped
<1>2. Listing \in SUBSET Modules
    BY DEF Listing
<1>3. state \in RunStates
    BY <1>1, <1>2 DEF RunStates
<1>4. Good(state, donor, checkout, edits)
    BY <1>1, <1>3 DEF NewRun, Good, Placed, DonorCounted, CheckoutCounted
<1>5. FilesTyped'
    BY DEF Start, IInv, FilesTyped
<1>. HIDE DEF state
<1>. QED
    BY <1>4, <1>5, BecomeKeeps DEF Start, state

LEMMA VerifyModuleKeeps ==
    ASSUME IInv, NEW p \in Runs, VerifyModule(p)
    PROVE  IInv'
<1>1. PICK m \in Modules :
          Proceed(p, checkout[m] = Pinned[m], [run[p] EXCEPT !.todo = @ \ {m}])
    BY DEF VerifyModule
<1>2. Good(run[p], donor, checkout, edits) /\ run[p].pc = "verify"
    BY DEF IInv, RunsGood, VerifyModule, At
<1>. DEFINE state == [run[p] EXCEPT !.todo = @ \ {m}]
<1>3. state \in RunStates
    BY <1>2 DEF Good, RunStates
<1>4. Good(state, donor, checkout, edits)
    BY <1>2, <1>3 DEF Good, RunStates, Placed, DonorCounted, CheckoutCounted
<1>. HIDE DEF state
<1>5. Proceed(p, checkout[m] = Pinned[m], state)
    BY <1>1 DEF state
<1>. QED
    BY <1>4, <1>5, ProceedKeeps DEF VerifyModule

LEMMA ListAgainKeeps ==
    ASSUME IInv, NEW p \in Runs, ListAgain(p)
    PROVE  IInv'
<1>1. Good(run[p], donor, checkout, edits) /\ run[p].pc = "verify"
    BY DEF IInv, RunsGood, ListAgain, At
<1>. DEFINE state == [run[p] EXCEPT !.pc = "read", !.todo = Listing]
<1>2. Listing \in SUBSET Modules
    BY DEF Listing
<1>3. state \in RunStates
    BY <1>1, <1>2 DEF Good, RunStates
<1>4. DOMAIN Unread = {}
    BY DEF Unread
<1>5. Good(state, donor, checkout, edits)
    BY <1>1, <1>3, <1>4 DEF Good, RunStates, Placed, DonorCounted, CheckoutCounted
<1>6. FilesTyped'
    BY DEF ListAgain, IInv, FilesTyped
<1>. HIDE DEF state
<1>. QED
    BY <1>5, <1>6, BecomeKeeps DEF ListAgain, state

LEMMA ReadModuleKeeps ==
    ASSUME IInv, NEW p \in Runs, ReadModule(p)
    PROVE  IInv'
<1>1. PICK m \in Modules :
          Proceed(p, checkout[m] \notin Broken \cup {Absent},
                  [run[p] EXCEPT !.todo = @ \ {m}, !.read = Having(@, m, checkout[m])])
    BY DEF ReadModule
<1>2. Good(run[p], donor, checkout, edits) /\ run[p].pc = "read"
    BY DEF IInv, RunsGood, ReadModule, At
<1>. DEFINE accepted == checkout[m] \notin Broken \cup {Absent}
            now == Having(run[p].read, m, checkout[m])
            state == [run[p] EXCEPT !.todo = @ \ {m}, !.read = now]
<1>3. ASSUME accepted PROVE Good(state, donor, checkout, edits)
    <2>1. checkout[m] \in Contents
        BY <1>3 DEF IInv, OthersTyped
    <2>2. run[p].read \in Reads
        BY <1>2 DEF Good, RunStates
    <2>3. now \in Reads
        BY <2>1, <2>2, HavingIsRead
    <2>4. /\ DOMAIN now = DOMAIN run[p].read \cup {m}
          /\ \A x \in DOMAIN now : now[x] = IF x = m THEN checkout[m] ELSE run[p].read[x]
        BY DEF Having
    <2>. HIDE DEF now
    <2>5. state \in RunStates
        BY <1>2, <2>3 DEF Good, RunStates
    <2>6. Placed(state) /\ DonorCounted(state, donor)
        BY <1>2, <2>5 DEF Good, RunStates, Placed, DonorCounted
    <2>7. CheckoutCounted(state, checkout)
        BY <1>2, <2>4 DEF Good, RunStates, CheckoutCounted
    <2>. QED
        BY <1>2, <2>5, <2>6, <2>7 DEF Good, RunStates
<1>. HIDE DEF accepted, state
<1>4. Proceed(p, accepted, state) /\ accepted \in BOOLEAN
    BY <1>1 DEF state, accepted
<1>. QED
    BY <1>3, <1>4, ProceedKeeps DEF ReadModule

LEMMA CompileKeeps ==
    ASSUME IInv, NEW p \in Runs, Compile(p)
    PROVE  IInv'
<1>1. Good(run[p], donor, checkout, edits) /\ run[p].pc = "read"
    BY DEF IInv, RunsGood, Compile, At
<1>2. ASSUME run[p].read \in Projectable PROVE Good(Compiled(p), donor, checkout, edits)
    <2>1. run[p].read \in Reads /\ run[p] \in RunStates
        BY <1>1 DEF Good, RunStates
    <2>2. Merge \in DOMAIN run[p].read /\ DOMAIN run[p].read \subseteq Modules
        BY <1>2, <2>1, ProjectableHasMerge, ReadDomain
    <2>3. CASE run[p].kind = "project"
        <3>1. Compiled(p) = [run[p] EXCEPT !.pc = "check", !.left = <<"projection">>]
            BY <2>3 DEF Compiled, Outputs
        <3>2. Compiled(p) \in RunStates
            <4>1. <<"projection">> \in Seq(Artifacts)
                BY DEF Artifacts
            <4>. QED
                BY <2>1, <3>1, <4>1 DEF RunStates
        <3>. QED
            BY <1>1, <2>1, <2>3, <3>1, <3>2 DEF Good, RunStates, Placed, DonorCounted, CheckoutCounted
    <2>4. CASE run[p].kind = "audit"
        <3>1. Compiled(p) = [run[p] EXCEPT !.pc = "hash"]
            BY <2>4 DEF Compiled
        <3>2. Compiled(p) \in RunStates
            BY <2>1, <3>1 DEF RunStates
        <3>. QED
            BY <1>1, <2>1, <2>4, <3>1, <3>2 DEF Good, RunStates, Placed, DonorCounted, CheckoutCounted
    <2>5. CASE run[p].kind = "publish"
        <3>. DEFINE held == \A m \in DOMAIN run[p].read : checkout[m] = run[p].read[m]
        <3>1. Compiled(p) = [run[p] EXCEPT !.pc = "reread", !.todo = DOMAIN run[p].read, !.atOnce = held]
            BY <2>5 DEF Compiled
        <3>2. held \in BOOLEAN
            OBVIOUS
        <3>3. ~held => run[p].swaps >= 1 /\ \E m \in DOMAIN run[p].read : checkout[m] # run[p].read[m]
            BY <1>1, <2>5 DEF Good, CheckoutCounted
        <3>. HIDE DEF held
        <3>4. Compiled(p) \in RunStates
            BY <2>1, <2>2, <3>1, <3>2 DEF RunStates
        <3>5. Placed(Compiled(p)) /\ DonorCounted(Compiled(p), donor)
            BY <1>1, <2>1, <2>2, <2>5, <3>1 DEF Good, RunStates, Placed, DonorCounted
        <3>6. CheckoutCounted(Compiled(p), checkout)
            BY <2>1, <2>5, <3>1, <3>3 DEF RunStates, CheckoutCounted
        <3>. QED
            BY <1>1, <2>1, <3>1, <3>4, <3>5, <3>6 DEF Good, RunStates
    <2>. QED
        BY <2>1, <2>3, <2>4, <2>5 DEF RunStates, Kinds
<1>. DEFINE accepted == run[p].read \in Projectable
<1>. HIDE DEF accepted
<1>3. Proceed(p, accepted, Compiled(p)) /\ accepted \in BOOLEAN
    BY DEF Compile, accepted
<1>4. accepted => Good(Compiled(p), donor, checkout, edits)
    BY <1>2 DEF accepted
<1>. QED
    BY <1>3, <1>4, ProceedKeeps DEF Compile

(***************************************************************************)
(* The steps of the audit and of the publication.                          *)
(***************************************************************************)
LEMMA HashDonorKeeps ==
    ASSUME IInv, NEW p \in Runs, HashDonor(p)
    PROVE  IInv'
<1>1. Good(run[p], donor, checkout, edits) /\ run[p].pc = "hash" /\ donor \in Donors
    BY DEF IInv, RunsGood, OthersTyped, HashDonor, At
<1>. DEFINE state == [run[p] EXCEPT !.pc = "open", !.named = donor]
<1>2. state \in RunStates
    BY <1>1 DEF Good, RunStates
<1>3. Good(state, donor, checkout, edits)
    BY <1>1, <1>2 DEF Good, RunStates, Placed, DonorCounted, CheckoutCounted
<1>4. FilesTyped'
    BY DEF HashDonor, IInv, FilesTyped
<1>. HIDE DEF state
<1>. QED
    BY <1>3, <1>4, BecomeKeeps DEF HashDonor, state

LEMMA ReadPredicatesKeeps ==
    ASSUME IInv, NEW p \in Runs, ReadPredicates(p)
    PROVE  IInv'
<1>1. Good(run[p], donor, checkout, edits) /\ run[p].pc = "open" /\ donor \in Donors
    BY DEF IInv, RunsGood, OthersTyped, ReadPredicates, At
<1>. DEFINE state == [run[p] EXCEPT !.pc = "roles", !.preds = donor]
<1>2. state \in RunStates
    BY <1>1 DEF Good, RunStates
<1>3. Good(state, donor, checkout, edits)
    BY <1>1, <1>2 DEF Good, RunStates, Placed, DonorCounted, CheckoutCounted
<1>4. FilesTyped'
    BY DEF ReadPredicates, IInv, FilesTyped
<1>. HIDE DEF state
<1>. QED
    BY <1>3, <1>4, BecomeKeeps DEF ReadPredicates, state

LEMMA ReadRolesKeeps ==
    ASSUME IInv, NEW p \in Runs, ReadRoles(p)
    PROVE  IInv'
<1>1. Good(run[p], donor, checkout, edits) /\ run[p].pc = "roles" /\ donor \in Donors
    BY DEF IInv, RunsGood, OthersTyped, ReadRoles, At
<1>2. PICK d \in {run[p].preds, donor} : Become(p, [run[p] EXCEPT !.pc = "rehash", !.rows = d])
    BY DEF ReadRoles
<1>. DEFINE state == [run[p] EXCEPT !.pc = "rehash", !.rows = d]
<1>3. d \in Donors
    BY <1>1 DEF Good, Placed
<1>4. state \in RunStates
    BY <1>1, <1>3 DEF Good, RunStates
<1>5. Good(state, donor, checkout, edits)
    BY <1>1, <1>2, <1>3, <1>4 DEF Good, RunStates, Placed, DonorCounted, CheckoutCounted
<1>6. FilesTyped'
    BY DEF ReadRoles, IInv, FilesTyped
<1>. HIDE DEF state
<1>. QED
    BY <1>2, <1>5, <1>6, BecomeKeeps DEF ReadRoles, state

LEMMA HashAgainKeeps ==
    ASSUME IInv, NEW p \in Runs, HashAgain(p)
    PROVE  IInv'
<1>1. Good(run[p], donor, checkout, edits) /\ run[p].pc = "rehash"
    BY DEF IInv, RunsGood, HashAgain, At
<1>. DEFINE accepted == donor = run[p].named /\ <<run[p].read, run[p].preds, run[p].rows>> \in Classifiable
            state == [run[p] EXCEPT !.pc = "check", !.left = <<"audit">>]
<1>2. state \in RunStates
    <2>1. <<"audit">> \in Seq(Artifacts)
        BY DEF Artifacts
    <2>. QED
        BY <1>1, <2>1 DEF Good, RunStates
<1>3. donor = run[p].named => Good(state, donor, checkout, edits)
    BY <1>1, <1>2 DEF Good, RunStates, Placed, DonorCounted, CheckoutCounted
<1>4. accepted => donor = run[p].named
    OBVIOUS
<1>. HIDE DEF state, accepted
<1>5. Proceed(p, accepted, state) /\ accepted \in BOOLEAN
    BY DEF HashAgain, state, accepted, Outputs
<1>. QED
    BY <1>3, <1>4, <1>5, ProceedKeeps DEF HashAgain

LEMMA RereadKeeps ==
    ASSUME IInv, NEW p \in Runs, Reread(p)
    PROVE  IInv'
<1>1. PICK m \in Modules :
          First(p, m) /\ Proceed(p, StillApproved(p, m), [run[p] EXCEPT !.todo = @ \ {m}])
    BY DEF Reread
<1>2. Good(run[p], donor, checkout, edits) /\ run[p].pc = "reread"
    BY DEF IInv, RunsGood, Reread, At
<1>. DEFINE accepted == StillApproved(p, m)
            state == [run[p] EXCEPT !.todo = @ \ {m}]
<1>3. ASSUME accepted PROVE Good(state, donor, checkout, edits)
    <2>1. checkout[m] = run[p].read[m]
        BY <1>3 DEF StillApproved
    <2>2. state \in RunStates
        BY <1>2 DEF Good, RunStates
    <2>3. Placed(state) /\ DonorCounted(state, donor)
        BY <1>2, <2>2 DEF Good, RunStates, Placed, DonorCounted
    <2>4. CheckoutCounted(state, checkout)
        BY <1>2, <2>1 DEF Good, RunStates, CheckoutCounted
    <2>. QED
        BY <1>2, <2>2, <2>3, <2>4 DEF Good, RunStates
<1>4. accepted \in BOOLEAN
    BY DEF StillApproved
<1>. HIDE DEF accepted, state
<1>5. Proceed(p, accepted, state)
    BY <1>1 DEF state, accepted
<1>. QED
    BY <1>3, <1>4, <1>5, ProceedKeeps DEF Reread

LEMMA ExtractKeeps ==
    ASSUME IInv, NEW p \in Runs, Extract(p)
    PROVE  IInv'
<1>1. Good(run[p], donor, checkout, edits) /\ run[p].pc = "reread" /\ run[p].todo = {}
    BY DEF IInv, RunsGood, Extract, At
<1>. DEFINE accepted == /\ run[p].read \in Extractable
                        /\ \A f \in {"review", "context", "notice"} : files[f] = Absent
            state == [run[p] EXCEPT !.pc = "check", !.left = <<"review", "context", "notice">>]
<1>2. state \in RunStates
    <2>1. <<"review", "context", "notice">> \in Seq(Artifacts)
        BY DEF Artifacts
    <2>. QED
        BY <1>1, <2>1 DEF Good, RunStates
<1>3. Good(state, donor, checkout, edits)
    BY <1>1, <1>2 DEF Good, RunStates, Placed, DonorCounted, CheckoutCounted
<1>. HIDE DEF state, accepted
<1>4. Proceed(p, accepted, state) /\ accepted \in BOOLEAN
    BY DEF Extract, state, accepted, Outputs
<1>. QED
    BY <1>3, <1>4, ProceedKeeps DEF Extract

(***************************************************************************)
(* The outputs.                                                            *)
(***************************************************************************)
LEMMA CheckKeeps ==
    ASSUME IInv, NEW p \in Runs, Check(p)
    PROVE  IInv'
<1>1. Good(run[p], donor, checkout, edits) /\ run[p].pc = "check"
    BY DEF IInv, RunsGood, Check, At
<1>. DEFINE accepted == run[p].force \/ files[Head(run[p].left)] = Absent
            state == [run[p] EXCEPT !.pc = "put"]
<1>2. state \in RunStates
    BY <1>1 DEF Good, RunStates
<1>3. Good(state, donor, checkout, edits)
    BY <1>1, <1>2 DEF Good, RunStates, Placed, DonorCounted, CheckoutCounted
<1>. HIDE DEF state
<1>4. Proceed(p, accepted, state) /\ accepted \in BOOLEAN
    BY <1>1 DEF Check, state, Good, RunStates
<1>. HIDE DEF accepted
<1>. QED
    BY <1>3, <1>4, ProceedKeeps DEF Check

(* What an invocation writes into an output has the type of the output.    *)
LEMMA ArtifactTyped ==
    ASSUME NEW p \in Runs, Good(run[p], donor, checkout, edits), run[p].pc = "put" \/ run[p].pc = "fill",
           NEW f, f = Head(run[p].left)
    PROVE  /\ run[p].kind = "project" => f = "projection" /\ ArtifactOf(p, f) \in Reads
           /\ run[p].kind = "audit" =>
                  f = "audit" /\ ArtifactOf(p, f) \in [read : Reads, named : Donors, preds : Donors, rows : Donors]
           /\ run[p].kind = "publish" =>
                  \/ f \in {"review", "context"} /\ ArtifactOf(p, f) \in Reads
                  \/ f = "notice" /\ ArtifactOf(p, f) \in Contents
<1>1. run[p] \in RunStates /\ Placed(run[p])
    BY DEF Good
<1>2. run[p].read \in Reads
    BY <1>1 DEF RunStates
<1>3. CASE run[p].kind = "project"
    <2>1. run[p].left = <<"projection">>
        BY <1>1, <1>3 DEF Placed
    <2>. QED
        BY <1>2, <1>3, <2>1 DEF ArtifactOf
<1>4. CASE run[p].kind = "audit"
    <2>1. /\ run[p].left = <<"audit">>
          /\ run[p].named \in Donors /\ run[p].preds \in Donors /\ run[p].rows \in Donors
        BY <1>1, <1>4 DEF Placed
    <2>. QED
        BY <1>2, <1>4, <2>1 DEF ArtifactOf
<1>5. CASE run[p].kind = "publish"
    <2>1. f \in {"review", "context", "notice"}
        BY <1>1, <1>5 DEF Placed
    <2>2. run[p].read[Merge] \in Contents
        BY <1>1, <1>2, <1>5, ReadDomain DEF Placed
    <2>. QED
        BY <1>2, <1>5, <2>1, <2>2 DEF ArtifactOf
<1>. QED
    BY <1>1, <1>3, <1>4, <1>5 DEF RunStates, Kinds

(* Any type-correct content may take the place of an output.               *)
LEMMA OutputTyped ==
    ASSUME FilesTyped, NEW f, NEW bytes, files' = [files EXCEPT ![f] = bytes],
           \/ f = "projection" /\ bytes \in Reads
           \/ f = "audit" /\ bytes \in [read : Reads, named : Donors, preds : Donors, rows : Donors]
           \/ f \in {"review", "context"} /\ bytes \in Reads \cup {Torn}
           \/ f = "notice" /\ bytes \in Contents \cup {Torn}
    PROVE  FilesTyped'
<1>1. f \in Artifacts
    BY DEF Artifacts
<1>2. files' = [x \in Artifacts |-> IF x = f THEN bytes ELSE files[x]]
    BY <1>1 DEF FilesTyped
<1>3. \A x \in Artifacts : files'[x] = IF x = f THEN bytes ELSE files[x]
    BY <1>2
<1>4. files' = [x \in Artifacts |-> files'[x]]
    BY <1>2
<1>. QED
    BY <1>3, <1>4 DEF FilesTyped, Artifacts

LEMMA ReplaceKeeps ==
    ASSUME IInv, NEW p \in Runs, Replace(p)
    PROVE  IInv'
<1>1. /\ Good(run[p], donor, checkout, edits) /\ run[p].pc = "put" /\ run[p].kind # "publish"
      /\ run[p].kind \in Kinds
    BY DEF IInv, RunsGood, Replace, At, Good, RunStates
<1>. DEFINE f == Head(run[p].left)
<1>2. files' = [files EXCEPT ![f] = ArtifactOf(p, f)]
    BY DEF Replace
<1>3. \/ f = "projection" /\ ArtifactOf(p, f) \in Reads
      \/ f = "audit" /\ ArtifactOf(p, f) \in [read : Reads, named : Donors, preds : Donors, rows : Donors]
    BY <1>1, ArtifactTyped DEF Kinds
<1>. HIDE DEF f
<1>4. FilesTyped'
    BY <1>2, <1>3, OutputTyped DEF IInv
<1>5. Good(Ended, donor, checkout, edits)
    BY FreshIsGood, PipelineConstants DEF IInv, OthersTyped
<1>. QED
    BY <1>4, <1>5, BecomeKeeps DEF Replace

LEMMA TruncateKeeps ==
    ASSUME IInv, NEW p \in Runs, Truncate(p)
    PROVE  IInv'
<1>1. Good(run[p], donor, checkout, edits) /\ run[p].pc = "put" /\ run[p].kind = "publish"
    BY DEF IInv, RunsGood, Truncate, At
<1>. DEFINE f == Head(run[p].left)
            state == [run[p] EXCEPT !.pc = "fill"]
<1>2. files' = [files EXCEPT ![f] = Torn]
    BY DEF Truncate
<1>3. f \in {"review", "context"} \/ f = "notice"
    BY <1>1, ArtifactTyped
<1>4. state \in RunStates
    BY <1>1 DEF Good, RunStates
<1>5. Good(state, donor, checkout, edits)
    BY <1>1, <1>4 DEF Good, RunStates, Placed, DonorCounted, CheckoutCounted
<1>. HIDE DEF f, state
<1>6. FilesTyped'
    BY <1>2, <1>3, OutputTyped DEF IInv
<1>. QED
    BY <1>5, <1>6, BecomeKeeps DEF Truncate, state

LEMMA FillKeeps ==
    ASSUME IInv, NEW p \in Runs, Fill(p)
    PROVE  IInv'
<1>1. Good(run[p], donor, checkout, edits) /\ run[p].pc = "fill"
    BY DEF IInv, RunsGood, Fill, At
<1>2. /\ run[p].kind = "publish"
      /\ run[p].left \in {<<"review", "context", "notice">>, <<"context", "notice">>, <<"notice">>}
    BY <1>1 DEF Good, Placed
<1>. DEFINE f == Head(run[p].left)
            after == IF Len(run[p].left) = 1 THEN Ended
                     ELSE [run[p] EXCEPT !.pc = "check", !.left = Tail(@)]
<1>3. PICK bytes \in Filled(p, f) : files' = [files EXCEPT ![f] = bytes]
    BY DEF Fill
<1>4. \/ f \in {"review", "context"} /\ bytes \in Reads \cup {Torn}
      \/ f = "notice" /\ bytes \in Contents \cup {Torn}
    BY <1>1, <1>2, ArtifactTyped DEF Filled
<1>5. Good(after, donor, checkout, edits)
    <2>1. CASE run[p].left = <<"notice">>
        <3>1. after = Ended
            BY <2>1
        <3>. QED
            BY <3>1, FreshIsGood, PipelineConstants DEF IInv, OthersTyped
    <2>2. CASE run[p].left # <<"notice">>
        <3>1. after = [run[p] EXCEPT !.pc = "check", !.left = Tail(@)]
            BY <1>2, <2>2
        <3>2. Tail(run[p].left) \in {<<"context", "notice">>, <<"notice">>}
            <4>1. CASE run[p].left = <<"review", "context", "notice">>
                BY <4>1
            <4>2. CASE run[p].left = <<"context", "notice">>
                BY <4>2
            <4>. QED
                BY <1>2, <2>2, <4>1, <4>2
        <3>3. Tail(run[p].left) \in Seq(Artifacts)
            <4>1. <<"context", "notice">> \in Seq(Artifacts) /\ <<"notice">> \in Seq(Artifacts)
                BY DEF Artifacts
            <4>. QED
                BY <3>2, <4>1
        <3>4. after \in RunStates
            BY <1>1, <3>1, <3>3 DEF Good, RunStates
        <3>. HIDE DEF after
        <3>. QED
            BY <1>1, <1>2, <3>1, <3>2, <3>4 DEF Good, RunStates, Placed, DonorCounted, CheckoutCounted
    <2>. QED
        BY <2>1, <2>2
<1>. HIDE DEF f, after
<1>6. FilesTyped'
    BY <1>3, <1>4, OutputTyped DEF IInv
<1>. QED
    BY <1>5, <1>6, BecomeKeeps DEF Fill, after

LEMMA KillKeeps ==
    ASSUME IInv, NEW p \in Runs, Kill(p)
    PROVE  IInv'
<1>1. Good(Ended, donor, checkout, edits)
    BY FreshIsGood, PipelineConstants DEF IInv, OthersTyped
<1>2. FilesTyped'
    BY DEF Kill, IInv, FilesTyped
<1>. QED
    BY <1>1, <1>2, BecomeKeeps DEF Kill

(***************************************************************************)
(* The invariant.                                                          *)
(***************************************************************************)
LEMMA InitHolds == Init => IInv
<1>. SUFFICES ASSUME Init PROVE IInv
    OBVIOUS
<1>1. OthersTyped
    BY SourceConstants, PipelineConstants DEF Init, OthersTyped
<1>2. FilesTyped
    BY DEF Init, FilesTyped, Artifacts
<1>3. RunsGood
    <2>1. Good(NewRun, donor, checkout, 0)
        BY FreshIsGood
    <2>. QED
        BY <2>1 DEF Init, RunsGood
<1>. QED
    BY <1>1, <1>2, <1>3 DEF IInv

LEMMA StepKeeps == IInv /\ [Next]_vars => IInv'
<1>. SUFFICES ASSUME IInv, [Next]_vars PROVE IInv'
    OBVIOUS
<1>1. ASSUME NEW m \in Modules, NEW content \in Versions[m], Edit(m, content) PROVE IInv'
    BY <1>1, EditKeeps
<1>2. ASSUME NEW d \in Donors, ReplaceDonor(d) PROVE IInv'
    BY <1>2, ReplaceDonorKeeps
<1>3. ASSUME NEW p \in Runs, NEW kind \in Kinds, NEW force \in BOOLEAN, Start(p, kind, force) PROVE IInv'
    BY <1>3, StartKeeps
<1>4. ASSUME NEW p \in Runs,
             \/ VerifyModule(p) \/ ListAgain(p) \/ ReadModule(p) \/ Compile(p)
             \/ HashDonor(p) \/ ReadPredicates(p) \/ ReadRoles(p) \/ HashAgain(p)
             \/ Reread(p) \/ Extract(p)
             \/ Check(p) \/ Replace(p) \/ Truncate(p) \/ Fill(p) \/ Kill(p)
      PROVE  IInv'
    BY <1>4, VerifyModuleKeeps, ListAgainKeeps, ReadModuleKeeps, CompileKeeps, HashDonorKeeps,
       ReadPredicatesKeeps, ReadRolesKeeps, HashAgainKeeps, RereadKeeps, ExtractKeeps, CheckKeeps, ReplaceKeeps,
       TruncateKeeps, FillKeeps, KillKeeps
<1>5. CASE UNCHANGED vars
    BY <1>5 DEF vars, IInv, OthersTyped, FilesTyped, RunsGood
<1>. QED
    BY <1>1, <1>2, <1>3, <1>4, <1>5 DEF Next

LEMMA Invariance == Spec => []IInv
BY InitHolds, StepKeeps, PTL DEF Spec

(* Every variable has its type, and what the projection and audit commands *)
(* write is never torn: they replace an output by a staged file.           *)
THEOREM TypeCorrect == Spec => []TypeOK
<1>1. IInv => TypeOK
    BY DEF IInv, OthersTyped, FilesTyped, RunsGood, Good, TypeOK
<1>. QED
    BY <1>1, Invariance, PTL

(* An audit that names one donor database and holds predicates or roles of *)
(* another can only come of a donor replaced twice between the two hashes. *)
THEOREM AuditNamesItsDonor == Spec => []AuditNamesDonor
<1>1. IInv => AuditNamesDonor
    BY DEF IInv, RunsGood, Good, DonorCounted, AuditNamesDonor
<1>. QED
    BY <1>1, Invariance, PTL

(* A review of modules that were never in the checkout at one moment can   *)
(* only come of a checkout changed twice between the two readings.         *)
THEOREM ReviewIsOfOneCheckout == Spec => []ReviewOfOneCheckout
<1>1. IInv => ReviewOfOneCheckout
    BY DEF IInv, RunsGood, Good, CheckoutCounted, ReviewOfOneCheckout
<1>. QED
    BY <1>1, Invariance, PTL

(***************************************************************************)
(* What is written was accepted.                                           *)
(***************************************************************************)
Sourced(r) ==
    /\ r.kind = "audit" /\ r.pc \in {"check", "put"} => <<r.read, r.preds, r.rows>> \in Classifiable
    /\ r.kind = "publish" /\ r.pc \in {"check", "put", "fill"} => r.read \in Extractable

FilesSourced ==
    /\ Whole("audit") => <<files.audit.read, files.audit.preds, files.audit.rows>> \in Classifiable
    /\ \A f \in {"review", "context"} : Whole(f) => files[f] \in Extractable
    /\ Whole("notice") => files.notice = Approved

SourceInv == FilesSourced /\ \A p \in Runs : Sourced(run[p])

(* A context that closes to the approved content was made of it.           *)
LEMMA ExtractableMerge ==
    ASSUME NEW read \in Extractable
    PROVE  Merge \in DOMAIN read /\ read[Merge] = Approved
<1>1. read \in Projectable /\ ClosesToApproved(ContextOf(read))
    BY DEF Extractable, Publishable
<1>2. PICK a \in Constraints(read, agent, Merge) : TRUE
    BY <1>1 DEF Projectable, Projects
<1>3. a \in ContextOf(read).constraints
    BY <1>2 DEF ContextOf
<1>4. a.module = Merge /\ a.digest = Approved
    BY <1>1, <1>3 DEF ClosesToApproved
<1>5. a \in Axioms(read)
    BY <1>2 DEF Constraints
<1>6. a.digest = read[a.module]
    BY <1>5 DEF Axioms
<1>. QED
    BY <1>1, <1>4, <1>6, ProjectableHasMerge

LEMMA BecomeSources ==
    ASSUME IInv, SourceInv, NEW p \in Runs, NEW state, Become(p, state), Sourced(state), FilesSourced'
    PROVE  SourceInv'
<1>1. run' = [q \in Runs |-> IF q = p THEN state ELSE run[q]]
    BY DEF Become, IInv, RunsGood
<1>. QED
    BY <1>1 DEF SourceInv

LEMMA ProceedSources ==
    ASSUME IInv, SourceInv, NEW p \in Runs, NEW accepted \in BOOLEAN, NEW state,
           Proceed(p, accepted, state), accepted => Sourced(state), UNCHANGED files
    PROVE  SourceInv'
<1>1. FilesSourced'
    BY DEF SourceInv, FilesSourced, Whole
<1>2. Sourced(Ended)
    BY DEF Sourced, Ended, NewRun
<1>3. CASE accepted
    BY <1>1, <1>3, BecomeSources DEF Proceed
<1>4. CASE ~accepted
    BY <1>1, <1>2, <1>4, BecomeSources DEF Proceed
<1>. QED
    BY <1>3, <1>4

(* Others change neither the outputs nor what an invocation has read.      *)
LEMMA OthersSource ==
    ASSUME IInv, SourceInv,
           \/ \E m \in Modules : \E content \in Versions[m] : Edit(m, content)
           \/ \E d \in Donors : ReplaceDonor(d)
           \/ UNCHANGED vars
    PROVE  SourceInv'
<1>1. files' = files
    BY DEF Edit, ReplaceDonor, vars
<1>2. ASSUME NEW p \in Runs
      PROVE  /\ run'[p].kind = run[p].kind /\ run'[p].pc = run[p].pc
             /\ run'[p].read = run[p].read
             /\ run'[p].preds = run[p].preds /\ run'[p].rows = run[p].rows
    <2>1. run[p] \in RunStates
        BY DEF IInv, RunsGood, Good
    <2>2. run'[p] \in {run[p], [run[p] EXCEPT !.swaps = @ + 1]}
        BY DEF Edit, ReplaceDonor, Disturbed, vars
    <2>. QED
        BY <2>1, <2>2 DEF RunStates
<1>3. \A p \in Runs : Sourced(run'[p])
    BY <1>2 DEF SourceInv, Sourced
<1>4. FilesSourced'
    BY <1>1 DEF SourceInv, FilesSourced, Whole
<1>. QED
    BY <1>3, <1>4 DEF SourceInv

(* Before the outputs nothing is to be shown but of what is accepted last. *)
LEMMA CompilingSources ==
    ASSUME IInv, SourceInv, NEW p \in Runs,
           \/ \E kind \in Kinds, force \in BOOLEAN : Start(p, kind, force)
           \/ VerifyModule(p) \/ ListAgain(p) \/ ReadModule(p) \/ Compile(p)
           \/ HashDonor(p) \/ ReadPredicates(p) \/ ReadRoles(p) \/ HashAgain(p)
           \/ Reread(p) \/ Extract(p)
    PROVE  SourceInv'
<1>1. run[p] \in RunStates
    BY DEF IInv, RunsGood, Good
<1>2. FilesSourced'
    BY DEF Start, VerifyModule, ListAgain, ReadModule, Compile, HashDonor, ReadPredicates,
       ReadRoles, HashAgain,
       Reread, Extract, SourceInv, FilesSourced, Whole
<1>3. ASSUME NEW state, Become(p, state), state.pc \notin {"check", "put", "fill"} PROVE SourceInv'
    BY <1>2, <1>3, BecomeSources DEF Sourced
<1>4. ASSUME NEW accepted, NEW state, Proceed(p, accepted, state), state.pc \notin {"check", "put", "fill"}
      PROVE  SourceInv'
    <2>1. Ended.pc = "ended"
        BY DEF Ended, NewRun
    <2>. QED
        BY <1>3, <1>4, <2>1 DEF Proceed
<1>5. CASE \E kind \in Kinds, force \in BOOLEAN : Start(p, kind, force)
    <2>1. PICK kind \in Kinds, force \in BOOLEAN : Start(p, kind, force)
        BY <1>5
    <2>2. [NewRun EXCEPT !.pc = "verify", !.kind = kind, !.force = force, !.todo = Listing].pc = "verify"
        BY DEF NewRun
    <2>. QED
        BY <1>3, <2>1, <2>2 DEF Start
<1>6. CASE VerifyModule(p)
    <2>1. PICK m \in Modules :
              Proceed(p, checkout[m] = Pinned[m], [run[p] EXCEPT !.todo = @ \ {m}])
        BY <1>6 DEF VerifyModule
    <2>2. [run[p] EXCEPT !.todo = @ \ {m}].pc = "verify"
        BY <1>1, <1>6 DEF VerifyModule, At, RunStates
    <2>. QED
        BY <1>4, <2>1, <2>2
<1>7. CASE ListAgain(p)
    <2>1. [run[p] EXCEPT !.pc = "read", !.todo = Listing].pc = "read"
        BY <1>1 DEF RunStates
    <2>. QED
        BY <1>3, <1>7, <2>1 DEF ListAgain
<1>8. CASE ReadModule(p)
    <2>1. PICK m \in Modules :
              Proceed(p, checkout[m] \notin Broken \cup {Absent},
                      [run[p] EXCEPT !.todo = @ \ {m}, !.read = Having(@, m, checkout[m])])
        BY <1>8 DEF ReadModule
    <2>2. [run[p] EXCEPT !.todo = @ \ {m}, !.read = Having(@, m, checkout[m])].pc = "read"
        BY <1>1, <1>8 DEF ReadModule, At, RunStates
    <2>. QED
        BY <1>4, <2>1, <2>2
<1>9. CASE Compile(p)
    <2>. DEFINE accepted == run[p].read \in Projectable
    <2>1. Sourced(Compiled(p))
        BY <1>1 DEF Compiled, Sourced, RunStates, Kinds
    <2>. HIDE DEF accepted
    <2>2. Proceed(p, accepted, Compiled(p)) /\ accepted \in BOOLEAN /\ files' = files
        BY <1>9 DEF Compile, accepted
    <2>. QED
        BY <2>1, <2>2, ProceedSources
<1>10. CASE HashDonor(p)
    <2>1. [run[p] EXCEPT !.pc = "open", !.named = donor].pc = "open"
        BY <1>1 DEF RunStates
    <2>. QED
        BY <1>3, <1>10, <2>1 DEF HashDonor
<1>11. CASE ReadPredicates(p)
    <2>1. [run[p] EXCEPT !.pc = "roles", !.preds = donor].pc = "roles"
        BY <1>1 DEF RunStates
    <2>. QED
        BY <1>3, <1>11, <2>1 DEF ReadPredicates
<1>15. CASE ReadRoles(p)
    <2>1. PICK d : Become(p, [run[p] EXCEPT !.pc = "rehash", !.rows = d])
        BY <1>15 DEF ReadRoles
    <2>2. [run[p] EXCEPT !.pc = "rehash", !.rows = d].pc = "rehash"
        BY <1>1 DEF RunStates
    <2>. QED
        BY <1>3, <2>1, <2>2
<1>12. CASE HashAgain(p)
    <2>. DEFINE accepted == donor = run[p].named /\ <<run[p].read, run[p].preds, run[p].rows>> \in Classifiable
                state == [run[p] EXCEPT !.pc = "check", !.left = Outputs("audit")]
    <2>1. run[p].kind = "audit"
        BY <1>12 DEF HashAgain, At, IInv, RunsGood, Good, Placed
    <2>2. accepted => Sourced(state)
        BY <1>1, <2>1 DEF Sourced, RunStates
    <2>. HIDE DEF state
    <2>3. Proceed(p, accepted, state) /\ files' = files /\ accepted \in BOOLEAN
        BY <1>12 DEF HashAgain, state
    <2>. HIDE DEF accepted
    <2>. QED
        BY <2>2, <2>3, ProceedSources
<1>13. CASE Reread(p)
    <2>1. PICK m \in Modules :
              Proceed(p, StillApproved(p, m), [run[p] EXCEPT !.todo = @ \ {m}])
        BY <1>13 DEF Reread
    <2>2. [run[p] EXCEPT !.todo = @ \ {m}].pc = "reread"
        BY <1>1, <1>13 DEF Reread, At, RunStates
    <2>. QED
        BY <1>4, <2>1, <2>2
<1>14. CASE Extract(p)
    <2>. DEFINE accepted == /\ run[p].read \in Extractable
                            /\ \A f \in {"review", "context", "notice"} : files[f] = Absent
                state == [run[p] EXCEPT !.pc = "check", !.left = Outputs("publish")]
    <2>1. run[p].kind = "publish"
        BY <1>14 DEF Extract, At, IInv, RunsGood, Good, Placed
    <2>2. accepted => Sourced(state)
        BY <1>1, <2>1 DEF Sourced, RunStates
    <2>. HIDE DEF state
    <2>3. Proceed(p, accepted, state) /\ files' = files /\ accepted \in BOOLEAN
        BY <1>14 DEF Extract, state
    <2>. HIDE DEF accepted
    <2>. QED
        BY <2>2, <2>3, ProceedSources
<1>. QED
    BY <1>5, <1>6, <1>7, <1>8, <1>9, <1>10, <1>11, <1>12, <1>13, <1>14, <1>15

LEMMA OutputSources ==
    ASSUME IInv, SourceInv, NEW p \in Runs, Check(p) \/ Replace(p) \/ Truncate(p) \/ Fill(p) \/ Kill(p)
    PROVE  SourceInv'
<1>1. Good(run[p], donor, checkout, edits) /\ Sourced(run[p])
    BY DEF IInv, RunsGood, SourceInv
<1>2. run[p] \in RunStates /\ Placed(run[p])
    BY <1>1 DEF Good
<1>3. Sourced(Ended)
    BY DEF Sourced, Ended, NewRun
<1>4. ASSUME NEW f \in Artifacts, NEW bytes, files' = [files EXCEPT ![f] = bytes],
             \/ f = "projection"
             \/ f = "audit" /\ <<bytes.read, bytes.preds, bytes.rows>> \in Classifiable
             \/ f \in {"review", "context"} /\ bytes \in Extractable \cup {Torn}
             \/ f = "notice" /\ bytes \in {Approved, Torn}
      PROVE  FilesSourced'
    <2>1. files' = [x \in Artifacts |-> IF x = f THEN bytes ELSE files[x]]
        BY <1>4 DEF IInv, FilesTyped
    <2>2. \A x \in Artifacts : files'[x] = IF x = f THEN bytes ELSE files[x]
        BY <2>1
    <2>. QED
        BY <1>4, <2>2 DEF SourceInv, FilesSourced, Whole, Artifacts
<1>5. CASE Check(p)
    <2>. DEFINE accepted == run[p].force \/ files[Head(run[p].left)] = Absent
                state == [run[p] EXCEPT !.pc = "put"]
    <2>1. Sourced(state)
        BY <1>1, <1>2, <1>5 DEF Check, At, Sourced, RunStates
    <2>2. accepted \in BOOLEAN
        BY <1>2 DEF RunStates
    <2>. HIDE DEF state, accepted
    <2>3. Proceed(p, accepted, state) /\ files' = files
        BY <1>5 DEF Check, state, accepted
    <2>. QED
        BY <2>1, <2>2, <2>3, ProceedSources
<1>6. CASE Replace(p)
    <2>. DEFINE f == Head(run[p].left)
    <2>1. run[p].pc = "put" /\ run[p].kind \in {"project", "audit"} /\ Become(p, Ended)
          /\ files' = [files EXCEPT ![f] = ArtifactOf(p, f)]
        BY <1>2, <1>6 DEF Replace, At, RunStates, Kinds
    <2>2. run[p].kind = "project" => f = "projection"
        BY <1>1, <2>1, ArtifactTyped
    <2>3. run[p].kind = "audit" =>
              /\ f = "audit" /\ ArtifactOf(p, f).read = run[p].read
              /\ ArtifactOf(p, f).preds = run[p].preds /\ ArtifactOf(p, f).rows = run[p].rows
        BY <1>1, <2>1, ArtifactTyped DEF ArtifactOf
    <2>4. run[p].kind = "audit" => <<run[p].read, run[p].preds, run[p].rows>> \in Classifiable
        BY <1>1, <2>1 DEF Sourced
    <2>. HIDE DEF f
    <2>5. FilesSourced'
        BY <1>4, <2>1, <2>2, <2>3, <2>4 DEF Artifacts
    <2>. QED
        BY <1>3, <2>1, <2>5, BecomeSources
<1>7. CASE Truncate(p)
    <2>. DEFINE f == Head(run[p].left)
                state == [run[p] EXCEPT !.pc = "fill"]
    <2>1. f \in {"review", "context"} \/ f = "notice"
        BY <1>1, <1>7, ArtifactTyped DEF Truncate, At
    <2>2. Sourced(state)
        BY <1>1, <1>2, <1>7 DEF Truncate, At, Sourced, RunStates
    <2>. HIDE DEF f, state
    <2>3. files' = [files EXCEPT ![f] = Torn] /\ Become(p, state)
        BY <1>7 DEF Truncate, f, state
    <2>4. FilesSourced'
        BY <1>4, <2>1, <2>3 DEF Artifacts
    <2>. QED
        BY <2>2, <2>3, <2>4, BecomeSources
<1>8. CASE Fill(p)
    <2>. DEFINE f == Head(run[p].left)
                after == IF Len(run[p].left) = 1 THEN Ended
                         ELSE [run[p] EXCEPT !.pc = "check", !.left = Tail(@)]
    <2>1. run[p].pc = "fill" /\ run[p].kind = "publish"
        BY <1>2, <1>8 DEF Fill, At, Placed
    <2>2. run[p].read \in Extractable
        BY <1>1, <2>1 DEF Sourced
    <2>3. PICK bytes \in Filled(p, f) : files' = [files EXCEPT ![f] = bytes]
        BY <1>8 DEF Fill
    <2>4. f \in {"review", "context", "notice"}
        BY <1>1, <2>1, ArtifactTyped
    <2>5. bytes \in {ArtifactOf(p, f), Torn}
        BY <2>3 DEF Filled
    <2>6. ArtifactOf(p, f) = IF f = "notice" THEN Approved ELSE run[p].read
        BY <2>2, <2>4, ExtractableMerge DEF ArtifactOf
    <2>7. Sourced(after)
        <3>1. [run[p] EXCEPT !.pc = "check", !.left = Tail(@)].read = run[p].read
              /\ [run[p] EXCEPT !.pc = "check", !.left = Tail(@)].kind = "publish"
            BY <1>2, <2>1 DEF RunStates
        <3>2. Sourced([run[p] EXCEPT !.pc = "check", !.left = Tail(@)])
            BY <2>2, <3>1 DEF Sourced
        <3>. QED
            BY <1>3, <3>2
    <2>. HIDE DEF f, after
    <2>8. FilesSourced'
        BY <1>4, <2>2, <2>3, <2>4, <2>5, <2>6 DEF Artifacts
    <2>9. Become(p, after)
        BY <1>8 DEF Fill, after
    <2>. QED
        BY <2>7, <2>8, <2>9, BecomeSources
<1>9. CASE Kill(p)
    <2>1. Become(p, Ended) /\ files' = files
        BY <1>9 DEF Kill
    <2>2. FilesSourced'
        BY <2>1 DEF SourceInv, FilesSourced, Whole
    <2>. QED
        BY <1>3, <2>1, <2>2, BecomeSources
<1>. QED
    BY <1>5, <1>6, <1>7, <1>8, <1>9

LEMMA Sources == Spec => []SourceInv
<1>1. Init => SourceInv
    BY DEF Init, SourceInv, FilesSourced, Sourced, Whole, Artifacts, NewRun
<1>2. IInv /\ SourceInv /\ [Next]_vars => SourceInv'
    <2>. SUFFICES ASSUME IInv, SourceInv, [Next]_vars PROVE SourceInv'
        OBVIOUS
    <2>1. CASE \/ \E m \in Modules : \E content \in Versions[m] : Edit(m, content)
               \/ \E d \in Donors : ReplaceDonor(d)
               \/ UNCHANGED vars
        BY <2>1, OthersSource
    <2>2. ASSUME NEW p \in Runs,
                 \/ \E kind \in Kinds, force \in BOOLEAN : Start(p, kind, force)
                 \/ VerifyModule(p) \/ ListAgain(p) \/ ReadModule(p) \/ Compile(p)
                 \/ HashDonor(p) \/ ReadPredicates(p) \/ ReadRoles(p) \/ HashAgain(p)
           \/ Reread(p) \/ Extract(p)
          PROVE  SourceInv'
        BY <2>2, CompilingSources
    <2>3. ASSUME NEW p \in Runs, Check(p) \/ Replace(p) \/ Truncate(p) \/ Fill(p) \/ Kill(p)
          PROVE  SourceInv'
        BY <2>3, OutputSources
    <2>. QED
        BY <2>1, <2>2, <2>3 DEF Next
<1>. QED
    BY <1>1, <1>2, Invariance, PTL DEF Spec

(***************************************************************************)
(* A context that is extracted says what the approved content says.        *)
(***************************************************************************)
LEMMA AxiomsStated ==
    ASSUME NEW read, NEW a
    PROVE  a \in Axioms(read) <=>
               \E m \in DOMAIN read : \E i \in DOMAIN Formulas[read[m]] :
                   /\ Formulas[read[m]][i].pred # "other"
                   /\ a = [formula |-> Formulas[read[m]][i], module |-> m, digest |-> read[m], index |-> i]
BY DEF Axioms

LEMMA AxiomsOfMerge ==
    ASSUME NEW read, Merge \in DOMAIN read, read[Merge] = Approved
    PROVE  \A a : a \in Axioms(Alone) <=> a \in Axioms(read) /\ a.module = Merge
<1>. SUFFICES ASSUME NEW a PROVE a \in Axioms(Alone) <=> a \in Axioms(read) /\ a.module = Merge
    OBVIOUS
<1>. DEFINE axiom(m, content, i) ==
                [formula |-> Formulas[content][i], module |-> m, digest |-> content, index |-> i]
<1>1. DOMAIN Alone = {Merge} /\ Alone[Merge] = Approved
    BY DEF Alone
<1>2. a \in Axioms(Alone) <=>
          \E i \in DOMAIN Formulas[Approved] :
              Formulas[Approved][i].pred # "other" /\ a = axiom(Merge, Approved, i)
    BY <1>1, AxiomsStated
<1>3. a \in Axioms(read) <=>
          \E m \in DOMAIN read : \E i \in DOMAIN Formulas[read[m]] :
              Formulas[read[m]][i].pred # "other" /\ a = axiom(m, read[m], i)
    BY AxiomsStated
<1>4. \A m, content, i : axiom(m, content, i).module = m
    OBVIOUS
<1>. HIDE DEF axiom
<1>. QED
    BY <1>2, <1>3, <1>4

LEMMA TailOfRoute ==
    ASSUME NEW s, NEW n, NEW edges, NEW start, NEW target, Route(s, n, edges, start, target)
    PROVE  /\ Len(Tail(s)) = n - 1 /\ Len(s) = n
           /\ \A i \in 1..(n - 1) : Tail(s)[i] = s[i + 1]
<1>. DEFINE S == {s[i] : i \in 1..n}
<1>1. n \in Nat \ {0} /\ s = [i \in 1..n |-> s[i]]
    BY BoundIsNatural DEF Route
<1>2. \A i \in 1..n : s[i] \in S
    OBVIOUS
<1>. HIDE DEF S
<1>3. s \in [1..n -> S]
    BY <1>1, <1>2
<1>4. s \in Seq(S) /\ s # <<>> /\ Len(s) = n
    BY <1>1, <1>3, LenProperties
<1>. QED
    BY <1>4, HeadTailProperties

LEMMA ExtractedFromApproved == Extractable \subseteq Extracted
<1>. SUFFICES ASSUME NEW read \in Extractable PROVE read \in Extracted
    OBVIOUS
<1>. DEFINE context == ContextOf(read)
            path == PathOf(read, Leaving)
            agents == PathOf(read, AutonomousAgent)
<1>1. read \in Projectable /\ Publishable(read)
    BY DEF Extractable
<1>2. \A a : a \in Axioms(Alone) <=> a \in Axioms(read) /\ a.module = Merge
    BY ExtractableMerge, AxiomsOfMerge
<1>3. Subclasses(Alone) \subseteq Subclasses(read)
    BY <1>2 DEF Subclasses, Said
<1>4. ASSUME NEW pred, NEW of, NEW to, Cardinality(Stating(read, pred, of, to)) = 1
      PROVE  \E a \in Stating(read, pred, of, to) : TRUE
    BY <1>4, FS_EmptySet
<1>5. \A pred, of, to : Stating(read, pred, of, to) \subseteq Axioms(Alone)
    BY <1>2 DEF Stating
<1>6. ASSUME NEW e \in PublishedEdges(read)
      PROVE  /\ e = <<e[1], e[2]>>
             /\ \E a \in Stating(read, "subclass", e[1], e[2]) : TRUE
             /\ e \in Subclasses(Alone)
    <2>1. e = <<e[1], e[2]>>
        BY DEF PublishedEdges, EdgesOf
    <2>2. PICK a \in Stating(read, "subclass", e[1], e[2]) : TRUE
        BY <1>1, <1>4 DEF Publishable
    <2>3. a.formula \in Said(Alone, "subclass") /\ a.formula.of = e[1] /\ a.formula.to = e[2]
        BY <1>5 DEF Stating, Said
    <2>. QED
        BY <2>1, <2>2, <2>3 DEF Subclasses
<1>7. UniquePath(read, Leaving) /\ UniquePath(read, AutonomousAgent)
    BY <1>1 DEF Projectable, Projects
<1>8. ASSUME NEW start, UniquePath(read, start)
      PROVE  /\ ShortestPaths(read, start, Entity) = {PathOf(read, start)}
             /\ Route(PathOf(read, start), Len(PathOf(read, start)), Subclasses(read), start, Entity)
    <2>1. ShortestPaths(read, start, Entity) = {PathOf(read, start)}
        BY <1>8 DEF UniquePath, PathOf
    <2>2. PathOf(read, start) \in Reaching(read, start, Entity)
        BY <2>1 DEF ShortestPaths
    <2>. QED
        BY <2>1, <2>2, ReachingRoutes
<1>9. ShortestPaths(Alone, AutonomousAgent, Entity) = {agents}
    <2>1. Linked(agents, Len(agents), Subclasses(Alone))
        BY <1>6 DEF Linked, PublishedEdges, EdgesOf
    <2>. QED
        BY <1>3, <1>7, <1>8, <2>1, UniqueInPart
<1>10. ShortestPaths(Alone, Translocation, Entity) = {Tail(path)}
    <2>. DEFINE n == Len(path)
    <2>1. /\ n \in Nat /\ Len(Tail(path)) = n - 1
          /\ \A i \in 1..(n - 1) : Tail(path)[i] = path[i + 1]
        BY <1>7, <1>8, TailOfRoute, BoundIsNatural DEF Route
    <2>2. Len(Tail(path)) >= 2 /\ Head(Tail(path)) = Translocation
        BY <1>1 DEF Publishable, Hierarchy
    <2>3. n >= 2 /\ path[2] = Translocation
        BY <2>1, <2>2
    <2>4. Linked(Tail(path), n - 1, Subclasses(Alone))
        BY <1>6, <2>1 DEF Linked, PublishedEdges, EdgesOf, Hierarchy
    <2>5. ShortestPaths(read, Leaving, Entity) = {path}
        BY <1>7, <1>8
    <2>. HIDE DEF path
    <2>6. ShortestPaths(Alone, path[2], Entity) = {Tail(path)}
        BY <1>3, <2>3, <2>4, <2>5, TailUniqueInPart
    <2>. QED
        BY <2>3, <2>6
<1>11. context.hierarchy = Tail(path) /\ context.agents = agents
       /\ context.facts = (UNION {Stating(read, "subclass", e[1], e[2]) : e \in PublishedEdges(read)})
                             \cup (UNION {Stating(read, "instance", role, CaseRole) : role \in {agent, patient}})
       /\ context.constraints = UNION {Constraints(read, role, Merge) : role \in {agent, patient}}
       /\ PublishedEdges(read) = EdgesOf(context.hierarchy) \cup EdgesOf(context.agents)
    BY DEF ContextOf, Hierarchy, PublishedEdges
<1>. HIDE DEF context, path, agents
<1>12. ASSUME NEW a \in context.facts
       PROVE  \/ \E e \in PublishedEdges(read) : a \in Stating(read, "subclass", e[1], e[2])
              \/ \E role \in {agent, patient} : a \in Stating(read, "instance", role, CaseRole)
    <2>. DEFINE edges == UNION {Stating(read, "subclass", e[1], e[2]) : e \in PublishedEdges(read)}
                roles == UNION {Stating(read, "instance", role, CaseRole) : role \in {agent, patient}}
    <2>1. context.facts = edges \cup roles
        BY <1>11
    <2>. HIDE DEF edges, roles
    <2>2. a \in edges \/ a \in roles
        BY <2>1
    <2>. QED
        BY <2>2 DEF edges, roles
<1>13. ASSUME NEW e \in PublishedEdges(read), NEW a \in Stating(read, "subclass", e[1], e[2])
       PROVE  a \in context.facts
    <2>1. a \in UNION {Stating(read, "subclass", x[1], x[2]) : x \in PublishedEdges(read)}
        OBVIOUS
    <2>. QED
        BY <1>11, <2>1, Zenon
<1>14. context.facts \subseteq Axioms(Alone)
    BY <1>5, <1>12
<1>15. {<<a.formula.of, a.formula.to>> : a \in {x \in context.facts : x.formula.pred = "subclass"}}
           = EdgesOf(context.hierarchy) \cup EdgesOf(context.agents)
    <2>1. ASSUME NEW a \in context.facts, a.formula.pred = "subclass"
          PROVE  <<a.formula.of, a.formula.to>> \in PublishedEdges(read)
        <3>1. \A role : a \notin Stating(read, "instance", role, CaseRole)
            BY <2>1 DEF Stating
        <3>2. PICK e \in PublishedEdges(read) : a \in Stating(read, "subclass", e[1], e[2])
            BY <1>12, <3>1
        <3>. QED
            BY <1>6, <3>2 DEF Stating
    <2>2. ASSUME NEW e \in PublishedEdges(read)
          PROVE  \E a \in context.facts : a.formula.pred = "subclass" /\ e = <<a.formula.of, a.formula.to>>
        <3>1. PICK a \in Stating(read, "subclass", e[1], e[2]) : TRUE
            BY <1>6
        <3>2. a \in context.facts
            BY <1>13, <3>1
        <3>. QED
            BY <1>6, <3>1, <3>2 DEF Stating
    <2>. DEFINE pairs == {<<a.formula.of, a.formula.to>> : a \in {x \in context.facts : x.formula.pred = "subclass"}}
    <2>3. pairs \subseteq PublishedEdges(read)
        BY <2>1
    <2>4. PublishedEdges(read) \subseteq pairs
        BY <2>2
    <2>. HIDE DEF pairs
    <2>5. pairs = PublishedEdges(read)
        BY <2>3, <2>4
    <2>. QED
        BY <1>11, <2>5 DEF pairs
<1>16. context.constraints = Requirements
    BY <1>2, <1>11 DEF Constraints, Requirements
<1>17. FromApproved(context)
    BY <1>9, <1>10, <1>11, <1>14, <1>15, <1>16 DEF FromApproved
<1>. QED
    BY <1>1, <1>17 DEF Extracted, context

(* The bounded context and its review follow from the approved Merge.kif   *)
(* alone, though every module is read and searched, and the notice is of   *)
(* that content: whatever others do to the checkout, whatever the modules  *)
(* say and however many runs write the outputs (compile_sumo_publication). *)
THEOREM ContextIsOfApproved == Spec => []ContextOfApproved
<1>1. SourceInv => ContextOfApproved
    BY ExtractedFromApproved DEF SourceInv, FilesSourced, ContextOfApproved
<1>. QED
    BY <1>1, Sources, PTL

(***************************************************************************)
(* The comparisons of an audit.                                            *)
(***************************************************************************)
LEMMA SaidNamesTerms ==
    ASSUME NEW read \in Reads, NEW pred, NEW f \in Said(read, pred)
    PROVE  NamesTerms(f) /\ f.pred = pred
<1>1. PICK a \in Axioms(read) : a.formula.pred = pred /\ f = a.formula
    BY DEF Said
<1>2. PICK m \in DOMAIN read : \E i \in DOMAIN Formulas[read[m]] : a.formula = Formulas[read[m]][i]
    BY AxiomsStated
<1>3. read[m] \in Contents
    BY ReadDomain
<1>4. \A i \in DOMAIN Formulas[read[m]] : NamesTerms(Formulas[read[m]][i])
    BY <1>3, SourceConstants
<1>. QED
    BY <1>1, <1>2, <1>4

(* Every class that an audit compares is among the terms.                  *)
LEMMA ComparedAreTerms ==
    ASSUME NEW read \in Reads
    PROVE  /\ Subclasses(read) \subseteq Terms \X Terms
           /\ TypesIn(read) \subseteq Terms
           /\ \A role : Observed(read, role) \subseteq Terms
<1>1. \A f \in Said(read, "subclass") \cup Said(read, "disjoint") : f.of \in Terms /\ f.to \in Terms
    BY SaidNamesTerms DEF NamesTerms
<1>2. \A kind \in ConstraintKinds \cup {"instance"} : \A f \in Said(read, kind) : f.to \in Terms
    BY SaidNamesTerms DEF NamesTerms
<1>3. InstancesOf(read, Class) \subseteq Terms
    BY SaidNamesTerms DEF InstancesOf, NamesTerms
<1>4. Subclasses(read) \subseteq Terms \X Terms
    BY <1>1 DEF Subclasses
<1>5. TypesIn(read) \subseteq Terms
    <2>. DEFINE classes == UNION {{f.of, f.to} : f \in Said(read, "subclass") \cup Said(read, "disjoint")}
                kinds == UNION {{f.to : f \in Said(read, kind)} : kind \in ConstraintKinds \cup {"instance"}}
    <2>1. TypesIn(read) = classes \cup kinds \cup InstancesOf(read, Class)
        BY DEF TypesIn
    <2>2. classes \subseteq Terms
        BY <1>1
    <2>3. kinds \subseteq Terms
        BY <1>2
    <2>. HIDE DEF classes, kinds
    <2>. QED
        BY <1>3, <2>1, <2>2, <2>3
<1>6. \A role : Observed(read, role) \subseteq Terms
    <2>1. ASSUME NEW role, NEW o \in Observed(read, role) PROVE o \in Terms
        <3>1. PICK a \in Constraints(read, role, Merge) : a.formula.pred = "domain" /\ o = a.formula.to
            BY DEF Observed
        <3>2. a.formula \in Said(read, "domain")
            BY <3>1 DEF Constraints, Said
        <3>. QED
            BY <1>2, <3>1, <3>2 DEF ConstraintKinds
    <2>. QED
        BY <2>1
<1>. QED
    BY <1>4, <1>5, <1>6

(* The breadth-first search, which repeats no class and stops at the class *)
(* it looks for, finds a class above another exactly when the axioms       *)
(* entail it, whatever cycles they have (_path, audit_sumo_crosswalk_v1).  *)
THEOREM SearchIsEntailment ==
    ASSUME NEW read \in Projectable, NEW class \in Terms, NEW super \in Terms
    PROVE  Means(read, class, super) <=> DescendsFrom(read, class, super)
<1>1. ClosedSets[read] = {S \in SUBSET Terms : Respects(S, read)}
    BY DEF ClosedSets
<1>2. ASSUME DescendsFrom(read, class, super) PROVE Means(read, class, super)
    BY <1>1, <1>2, DescentIsSound DEF Means
<1>3. ASSUME Means(read, class, super) PROVE DescendsFrom(read, class, super)
    <2>. DEFINE above == {x \in Terms : DescendsFrom(read, class, x)}
    <2>1. read \in Reads
        BY DEF Projectable
    <2>2. class \in above /\ Respects(above, read)
        BY <2>1, ComparedAreTerms, DescentIsComplete
    <2>3. above \in SUBSET Terms
        OBVIOUS
    <2>. HIDE DEF above
    <2>4. super \in above
        BY <1>1, <1>3, <2>2, <2>3 DEF Means
    <2>. QED
        BY <2>4 DEF above
<1>. QED
    BY <1>2, <1>3

LEMMA AuditsAreSound == Audits \subseteq SoundAudits
<1>. SUFFICES ASSUME NEW read \in Projectable, NEW d \in Donors, NEW key \in DOMAIN Database[d].slots
              PROVE  LET slot == Database[d].slots[key]
                     IN  AgreesWithMeaning(read, slot.type, RoleRow(read, slot))
    BY DEF Audits, SoundAudits
<1>. DEFINE slot == Database[d].slots[key]
            row == RoleRow(read, slot)
            type == slot.type
<1>1. CASE ~Comparable(read, slot)
    BY <1>1 DEF RoleRow, AgreesWithMeaning
<1>2. CASE Comparable(read, slot)
    <2>1. row.observed = Observed(read, slot.role)
          /\ row.constraint = Comparison(read, type, row.observed)
        BY <1>2 DEF RoleRow
    <2>2. type \in Terms /\ row.observed \subseteq Terms
        <3>1. type \in TypesIn(read)
            BY <1>2 DEF Comparable, Identity
        <3>2. read \in Reads
            BY DEF Projectable
        <3>. QED
            BY <2>1, <3>1, <3>2, ComparedAreTerms
    <2>. HIDE DEF row, type
    <2>3. \A o \in row.observed : /\ Means(read, type, o) <=> DescendsFrom(read, type, o)
                                  /\ Means(read, o, type) <=> DescendsFrom(read, o, type)
        BY <2>2, SearchIsEntailment
    <2>4. DescendsFrom(read, type, type)
        <3>1. read \in Reads
            BY DEF Projectable
        <3>. QED
            BY <2>2, <3>1, ComparedAreTerms, DescentIsComplete
    <2>. DEFINE below == \A o \in row.observed : Means(read, type, o)
                above == \A o \in row.observed : Means(read, o, type)
    <2>5. row.observed # {} =>
              row.constraint =
                  IF row.observed = {type} THEN "direct_match"
                  ELSE IF below THEN "compatible_donor_subtype"
                  ELSE IF above THEN "incompatible_donor_supertype"
                  ELSE "incomparable_types"
        BY <2>1, <2>3 DEF Comparison
    <2>6. row.observed = {type} => below
        BY <2>3, <2>4
    <2>. HIDE DEF below, above
    <2>7. row.observed # {} =>
              /\ row.constraint \in {"direct_match", "compatible_donor_subtype"} <=> below
              /\ row.constraint = "incompatible_donor_supertype" <=> above /\ ~below
              /\ row.constraint = "incomparable_types" <=> ~above /\ ~below
        BY <2>5, <2>6
    <2>. QED
        BY <2>7 DEF AgreesWithMeaning, below, above, row, type
<1>. QED
    BY <1>1, <1>2

(* Whatever modules an audit has read, and however they were mixed, its    *)
(* comparisons of the donor's types with the constraints of Merge.kif are  *)
(* what the subclass axioms of these modules mean (audit_sumo_crosswalk).  *)
THEOREM AuditIsSound == Spec => []AuditSound
<1>1. SourceInv => AuditSound
    BY AuditsAreSound DEF SourceInv, FilesSourced, AuditSound, Classifiable
<1>. QED
    BY <1>1, Sources, PTL
=============================================================================
