----------------------------- MODULE SumoPipeline -----------------------------
(***************************************************************************)
(* Runs of the three commands that compile a SUMO checkout: the projection *)
(* alone, the audit of the donor, and the publication of a bounded context *)
(* with its review and notice.  A run verifies the checkout, then lists    *)
(* and reads it again; the checkout and the donor belong to others, who    *)
(* change them at any time.                                                *)
(***************************************************************************)
EXTENDS SumoSource

CONSTANTS
    Runs,        \* invocations of the commands
    Rank,        \* Rank[m]: where the path of m is in the sorted listing
    Versions,    \* Versions[m]: the contents the file of m may have
    Donors,      \* donor databases, named by their digests
    Database,    \* Database[d]: what d holds
    Absent,      \* no file
    Torn,        \* a file whose write has not ended
    MaxEdits     \* bound: changes of the checkout and the donor by others

ASSUME PipelineConstants ==
    /\ Rank \in [Modules -> Nat] /\ \A m, n \in Modules : Rank[m] = Rank[n] => m = n
    /\ Absent \notin Contents /\ Torn \notin Contents
    /\ \A m \in Modules : Versions[m] \subseteq Contents \cup {Absent}
    /\ MaxEdits \in Nat

VARIABLES
    checkout,    \* checkout[m]: the file of m
    donor,       \* the donor database
    files,       \* the outputs
    run,         \* run[p]: what the invocation knows
    edits        \* changes made by others

vars == <<checkout, donor, files, run, edits>>

Kinds == {"project", "audit", "publish"}
Artifacts == {"projection", "audit", "review", "context", "notice"}
Outputs(kind) ==
    CASE kind = "project" -> <<"projection">>
      [] kind = "audit"   -> <<"audit">>
      [] kind = "publish" -> <<"review", "context", "notice">>

Reads == {[m \in S |-> held[m]] : S \in SUBSET Modules, held \in [Modules -> Contents]}
Unread == [m \in {} |-> Approved]

(* What the compilers accept, of all there is to read. *)
Projectable == {read \in Reads : Projects(read)}
Extractable == {read \in Projectable : Publishable(read)}
Audits == {<<read, c, d>> : read \in Projectable, c \in Donors, d \in Donors}
Selected(c, d) == [preds |-> Database[c].preds, slots |-> Database[d].slots]
Classifiable == {a \in Audits : Auditable(a[1], Selected(a[2], a[3]))}

(* todo holds the modules to read, left the outputs to write; named is the *)
(* donor a report names, preds and rows are those its predicates and its   *)
(* role slots come from.  Two fields only record what happened: atOnce,    *)
(* whether the checkout held all that was read when reading ended, and     *)
(* swaps, how often others have changed what is read twice since its first *)
(* reading began.                                                          *)
NewRun == [pc |-> "new", kind |-> "project", force |-> FALSE, todo |-> {}, left |-> <<>>,
           read |-> Unread, named |-> Absent, preds |-> Absent, rows |-> Absent,
           atOnce |-> FALSE, swaps |-> 0]
Ended == [NewRun EXCEPT !.pc = "ended"]

Init ==
    /\ checkout = [m \in Modules |-> IF m \in DOMAIN Pinned THEN Pinned[m] ELSE Absent]
    /\ donor \in Donors
    /\ files = [f \in Artifacts |-> Absent]
    /\ run = [p \in Runs |-> NewRun]
    /\ edits = 0

(***************************************************************************)
(* The owners of the checkout and of the donor.                            *)
(***************************************************************************)
Disturbed(kind, pcs) ==
    [p \in Runs |-> IF run[p].kind = kind /\ run[p].pc \in pcs
                    THEN [run[p] EXCEPT !.swaps = @ + 1] ELSE run[p]]

Edit(m, content) ==
    /\ edits < MaxEdits /\ checkout[m] # content
    /\ checkout' = [checkout EXCEPT ![m] = content]
    /\ edits' = edits + 1
    /\ run' = Disturbed("publish", {"read", "reread"})
    /\ UNCHANGED <<donor, files>>

ReplaceDonor(d) ==
    /\ edits < MaxEdits /\ donor # d
    /\ donor' = d
    /\ edits' = edits + 1
    /\ run' = Disturbed("audit", {"open", "roles", "rehash"})
    /\ UNCHANGED <<checkout, files>>

(***************************************************************************)
(* The compilation every command begins with.                              *)
(***************************************************************************)
At(p, pc) == run[p].pc = pc
Become(p, state) == run' = [run EXCEPT ![p] = state]
Proceed(p, accepted, state) == Become(p, IF accepted THEN state ELSE Ended)

Listing == {m \in Modules : checkout[m] # Absent}
First(p, m) == m \in run[p].todo /\ \A x \in run[p].todo : Rank[m] <= Rank[x]

Start(p, kind, force) ==
    /\ At(p, "new")
    /\ kind = "publish" => ~force
    /\ Listing = DOMAIN Pinned
    /\ Become(p, [NewRun EXCEPT !.pc = "verify", !.kind = kind, !.force = force, !.todo = Listing])
    /\ UNCHANGED <<checkout, donor, files, edits>>

VerifyModule(p) ==
    /\ At(p, "verify")
    /\ \E m \in Modules : First(p, m) /\ Proceed(p, checkout[m] = Pinned[m], [run[p] EXCEPT !.todo = @ \ {m}])
    /\ UNCHANGED <<checkout, donor, files, edits>>

ListAgain(p) ==
    /\ At(p, "verify") /\ run[p].todo = {}
    /\ Become(p, [run[p] EXCEPT !.pc = "read", !.todo = Listing])
    /\ UNCHANGED <<checkout, donor, files, edits>>

Having(read, m, content) ==
    [x \in DOMAIN read \cup {m} |-> IF x = m THEN content ELSE read[x]]

ReadModule(p) ==
    /\ At(p, "read")
    /\ \E m \in Modules :
           /\ First(p, m)
           /\ Proceed(p, checkout[m] \notin Broken \cup {Absent},
                      [run[p] EXCEPT !.todo = @ \ {m}, !.read = Having(@, m, checkout[m])])
    /\ UNCHANGED <<checkout, donor, files, edits>>

Compiled(p) ==
    CASE run[p].kind = "project" -> [run[p] EXCEPT !.pc = "check", !.left = Outputs("project")]
      [] run[p].kind = "audit"   -> [run[p] EXCEPT !.pc = "hash"]
      [] run[p].kind = "publish" -> [run[p] EXCEPT !.pc = "reread", !.todo = DOMAIN run[p].read,
                                         !.atOnce = \A m \in DOMAIN run[p].read : checkout[m] = run[p].read[m]]

Compile(p) ==
    /\ At(p, "read") /\ run[p].todo = {}
    /\ Proceed(p, run[p].read \in Projectable, Compiled(p))
    /\ UNCHANGED <<checkout, donor, files, edits>>

(***************************************************************************)
(* The audit: the donor is hashed, opened and read by one SELECT after the *)
(* other, in no transaction, and hashed again.                             *)
(***************************************************************************)
HashDonor(p) ==
    /\ At(p, "hash")
    /\ Become(p, [run[p] EXCEPT !.pc = "open", !.named = donor])
    /\ UNCHANGED <<checkout, donor, files, edits>>

ReadPredicates(p) ==
    /\ At(p, "open")
    /\ Become(p, [run[p] EXCEPT !.pc = "roles", !.preds = donor])
    /\ UNCHANGED <<checkout, donor, files, edits>>

(* A database that was renamed over is still the open one; of one that was *)
(* written over, the new content is read.                                  *)
ReadRoles(p) ==
    /\ At(p, "roles")
    /\ \E d \in {run[p].preds, donor} :
           Become(p, [run[p] EXCEPT !.pc = "rehash", !.rows = d])
    /\ UNCHANGED <<checkout, donor, files, edits>>

(* An audit that trusts its first hash. *)
HashAgainUnchecked(p) ==
    /\ At(p, "rehash")
    /\ Proceed(p, <<run[p].read, run[p].preds, run[p].rows>> \in Classifiable,
               [run[p] EXCEPT !.pc = "check", !.left = Outputs("audit")])
    /\ UNCHANGED <<checkout, donor, files, edits>>

HashAgain(p) ==
    /\ At(p, "rehash")
    /\ Proceed(p, donor = run[p].named /\ <<run[p].read, run[p].preds, run[p].rows>> \in Classifiable,
               [run[p] EXCEPT !.pc = "check", !.left = Outputs("audit")])
    /\ UNCHANGED <<checkout, donor, files, edits>>

(***************************************************************************)
(* The publication reads every module a third time.                        *)
(***************************************************************************)

(* A publication that compares with the profile and not with its reading.  *)
StillApprovedUncompared(p, m) ==
    /\ checkout[m] # Absent
    /\ m = Merge => checkout[m] = Approved /\ checkout[m] \in Granting

StillApproved(p, m) ==
    /\ checkout[m] = run[p].read[m]
    /\ m = Merge => checkout[m] = Approved /\ checkout[m] \in Granting

Reread(p) ==
    /\ At(p, "reread")
    /\ \E m \in Modules : First(p, m) /\ Proceed(p, StillApproved(p, m), [run[p] EXCEPT !.todo = @ \ {m}])
    /\ UNCHANGED <<checkout, donor, files, edits>>

Extract(p) ==
    /\ At(p, "reread") /\ run[p].todo = {}
    /\ Proceed(p, run[p].read \in Extractable /\ \A f \in {"review", "context", "notice"} : files[f] = Absent,
               [run[p] EXCEPT !.pc = "check", !.left = Outputs("publish")])
    /\ UNCHANGED <<checkout, donor, files, edits>>

(***************************************************************************)
(* The outputs.  What is written is named by what it is computed from.     *)
(***************************************************************************)
ArtifactOf(p, f) ==
    CASE f = "audit"  -> [read |-> run[p].read, named |-> run[p].named,
                          preds |-> run[p].preds, rows |-> run[p].rows]
      [] f = "notice" -> run[p].read[Merge]
      [] OTHER        -> run[p].read

Check(p) ==
    /\ At(p, "check")
    /\ Proceed(p, run[p].force \/ files[Head(run[p].left)] = Absent, [run[p] EXCEPT !.pc = "put"])
    /\ UNCHANGED <<checkout, donor, files, edits>>

(* An output written in place. *)
ReplaceInPlace(p) ==
    /\ At(p, "put") /\ run[p].kind # "publish"
    /\ files' = [files EXCEPT ![Head(run[p].left)] = Torn]
    /\ Become(p, [run[p] EXCEPT !.pc = "fill"])
    /\ UNCHANGED <<checkout, donor, edits>>

(* The staged file takes the output's place. *)
Replace(p) ==
    /\ At(p, "put") /\ run[p].kind # "publish"
    /\ files' = [files EXCEPT ![Head(run[p].left)] = ArtifactOf(p, Head(run[p].left))]
    /\ Become(p, Ended)
    /\ UNCHANGED <<checkout, donor, edits>>

Truncate(p) ==
    /\ At(p, "put") /\ run[p].kind = "publish"
    /\ files' = [files EXCEPT ![Head(run[p].left)] = Torn]
    /\ Become(p, [run[p] EXCEPT !.pc = "fill"])
    /\ UNCHANGED <<checkout, donor, edits>>

(* A file another run has filled since keeps its end if it is longer. *)
Filled(p, f) ==
    IF files[f] \in {Torn, ArtifactOf(p, f)} THEN {ArtifactOf(p, f)} ELSE {ArtifactOf(p, f), Torn}

Fill(p) ==
    /\ At(p, "fill")
    /\ LET f == Head(run[p].left)
       IN  \E bytes \in Filled(p, f) : files' = [files EXCEPT ![f] = bytes]
    /\ Become(p, IF Len(run[p].left) = 1 THEN Ended
                 ELSE [run[p] EXCEPT !.pc = "check", !.left = Tail(@)])
    /\ UNCHANGED <<checkout, donor, edits>>

Kill(p) ==
    /\ run[p].pc \notin {"new", "ended"}
    /\ Become(p, Ended)
    /\ UNCHANGED <<checkout, donor, files, edits>>

Next ==
    \/ \E m \in Modules : \E content \in Versions[m] : Edit(m, content)
    \/ \E d \in Donors : ReplaceDonor(d)
    \/ \E p \in Runs :
        \/ \E kind \in Kinds, force \in BOOLEAN : Start(p, kind, force)
        \/ VerifyModule(p) \/ ListAgain(p) \/ ReadModule(p) \/ Compile(p)
        \/ HashDonor(p) \/ ReadPredicates(p) \/ ReadRoles(p) \/ HashAgain(p)
        \/ Reread(p) \/ Extract(p)
        \/ Check(p) \/ Replace(p) \/ Truncate(p) \/ Fill(p) \/ Kill(p)

Spec == Init /\ [][Next]_vars

(***************************************************************************)
(* Properties.                                                             *)
(***************************************************************************)
Whole(f) == files[f] \notin {Absent, Torn}

RunStates ==
    [pc : {"new", "ended", "verify", "read", "hash", "open", "roles", "rehash", "reread", "check",
           "put", "fill"},
     kind : Kinds, force : BOOLEAN, todo : SUBSET Modules, left : Seq(Artifacts), read : Reads,
     named : Donors \cup {Absent}, preds : Donors \cup {Absent}, rows : Donors \cup {Absent},
     atOnce : BOOLEAN, swaps : 0..MaxEdits]

(* Every variable has its type; what the projection and audit commands     *)
(* write is never torn (os.replace in _write_atomic).                      *)
TypeOK ==
    /\ checkout \in [Modules -> Contents \cup {Absent}]
    /\ donor \in Donors
    /\ files = [f \in Artifacts |-> files[f]]
    /\ files.projection \in Reads \cup {Absent}
    /\ files.audit \in [read : Reads, named : Donors, preds : Donors, rows : Donors] \cup {Absent}
    /\ files.review \in Reads \cup {Absent, Torn}
    /\ files.context \in Reads \cup {Absent, Torn}
    /\ files.notice \in Contents \cup {Absent, Torn}
    /\ run \in [Runs -> RunStates]
    /\ edits \in 0..MaxEdits

(* The context is computed from every module, read from a checkout that    *)
(* others edit, and its hierarchies are searched in all of them.  What it  *)
(* holds of SUMO follows from the approved Merge.kif alone: its            *)
(* hierarchies are the only shortest ones there, its facts state them, and *)
(* its constraints are all that Merge.kif requires of the case roles       *)
(* (compile_sumo_publication_v1).                                          *)
Alone == [m \in {Merge} |-> Approved]
Requirements ==
    {a \in Axioms(Alone) : a.formula.pred \in ConstraintKinds /\ a.formula.of \in {agent, patient}}

FromApproved(context) ==
    /\ ShortestPaths(Alone, Translocation, Entity) = {context.hierarchy}
    /\ ShortestPaths(Alone, AutonomousAgent, Entity) = {context.agents}
    /\ context.facts \subseteq Axioms(Alone)
    /\ {<<a.formula.of, a.formula.to>> : a \in {x \in context.facts : x.formula.pred = "subclass"}}
          = EdgesOf(context.hierarchy) \cup EdgesOf(context.agents)
    /\ context.constraints = Requirements

Extracted == {read \in Projectable : FromApproved(ContextOf(read))}

ContextOfApproved ==
    /\ \A f \in {"review", "context"} : Whole(f) => files[f] \in Extracted
    /\ Whole("notice") => files.notice = Approved

(* The modules a review disposes of were all in the checkout at one        *)
(* moment: two readings that agree are a snapshot, unless the checkout was *)
(* changed and changed back in between (compile_sumo_publication_v1 reads  *)
(* what compile_sumo_projection_v1 has read).                              *)
ReviewOfOneCheckout ==
    \A p \in Runs :
        run[p].kind = "publish" /\ run[p].pc \in {"check", "put", "fill"} /\ ~run[p].atOnce
        => run[p].swaps >= 2

(* An audit of which a predicate or a role slot is not of the donor it     *)
(* names can only come of a donor replaced twice between the two hashes,   *)
(* whether others rename over it or write over it, and between whichever   *)
(* of its readings (audit_sumo_crosswalk_v1).                              *)
AuditNamesDonor ==
    \A p \in Runs :
        run[p].kind = "audit" /\ run[p].pc \in {"check", "put"}
            /\ {run[p].preds, run[p].rows} # {run[p].named}
        => run[p].swaps >= 2

(* By its meaning a class is below another if every set that respects the  *)
(* axioms and holds the one holds the other.                               *)
ClosedSets == [read \in Projectable |-> {S \in SUBSET Terms : Respects(S, read)}]
Means(read, class, super) == \A S \in ClosedSets[read] : class \in S => super \in S

AgreesWithMeaning(read, type, row) ==
    LET below == \A o \in row.observed : Means(read, type, o)
        above == \A o \in row.observed : Means(read, o, type)
    IN  row.observed # {} =>
            /\ row.constraint \in {"direct_match", "compatible_donor_subtype"} <=> below
            /\ row.constraint = "incompatible_donor_supertype" <=> above /\ ~below
            /\ row.constraint = "incomparable_types" <=> ~above /\ ~below

SoundAudits ==
    {a \in Audits :
        \A slot \in {Database[a[3]].slots[key] : key \in DOMAIN Database[a[3]].slots} :
            AgreesWithMeaning(a[1], slot.type, RoleRow(a[1], slot))}

(* The comparisons of an audit agree with what the axioms of the modules   *)
(* it read mean, however these were mixed (audit_sumo_crosswalk_v1).       *)
AuditSound == Whole("audit") => <<files.audit.read, files.audit.preds, files.audit.rows>> \in SoundAudits
=============================================================================
