------------------------------ MODULE TraceBundle ------------------------------
(***************************************************************************)
(* A pack, the trace adjunct beside it, and who works on them: a publisher *)
(* that compiles the FrameNet archive and puts a projection and a trace    *)
(* manifest in place, an installer that replaces files one at a time, and  *)
(* inspections that hash files and open them again to answer a query.      *)
(* A step is one access to a file that somebody else may change.           *)
(* A file is its content, and a digest is the content it was taken of.     *)
(***************************************************************************)
EXTENDS FrameNet, Sequences

CONSTANTS
    Archives, Pinned,         \* the archives, and the one the source manifest pins
    Releases,                 \* what the installer installs: a content for each file
    Initial,                  \* what the directories may hold in the beginning
    Credited,                 \* the attributions that credit FrameNet as the manifest does
    Query,                    \* [pack, predicate]
    Publishers, Inspections,
    Absent, NoSumo,
    MaxEvents                 \* changes of files and publications started

Assets == {"predicates", "roles", "edges", "mappings", "canon"}
Outputs == {"projection", "trace"}
Files == {"manifest", "attribution", "context", "notice"} \cup Assets \cup Outputs

VARIABLES
    archive,    \* the archive at the path the publisher is given
    disk,       \* disk[f]: the file f, Absent when there is none
    job,        \* job[p]: the local variables of the publisher p
    inspection, \* inspection[q]: the local variables of the inspection q
    events

vars == <<archive, disk, job, inspection, events>>

TraceOf(projection, manifest, attribution) ==
    [pack |-> Query.pack, target |-> manifest,
     projection |-> projection, frames |-> projection.frames, archive |-> projection.archive,
     attribution |-> attribution, sumo |-> NoSumo]

(* What is in the files was installed, or a publisher compiled it of an    *)
(* archive that passes.                                                    *)
Content(f) == {r[f] : r \in Releases} \cup {Absent}
Projections == {ProjectionOf(a, Pinned) : a \in {b \in Archives : Compiles(b)}}
Manifests == {r["manifest"] : r \in Releases}
Traces == {TraceOf(p, m, t) : p \in Projections, m \in Manifests,
                              t \in {r["attribution"] : r \in Releases}}
Written == [projection |-> Projections, trace |-> Traces]
Held(f) == Content(f) \cup (IF f \in Outputs THEN Written[f] ELSE {})

ASSUME BundleConstants ==
    /\ Pinned \in Archives
    /\ \A r \in Releases \cup Initial : DOMAIN r = Files
    /\ \A r \in Releases : \A f \in Assets : r["manifest"].artifacts[f] = r[f]
    /\ \A r \in Initial : \A f \in Files : r[f] \in Held(f)
    /\ MaxEvents \in Nat

Nothing == [f \in {} |-> Absent]
With(function, f, content) ==
    [g \in DOMAIN function \cup {f} |-> IF g = f THEN content ELSE function[g]]
Without(function, f) == [g \in DOMAIN function \ {f} |-> function[g]]

IdleJob == [pc |-> "idle"]
Waiting == [at |-> 0, hashed |-> Nothing, opened |-> Nothing, replaced |-> {}]

Init ==
    /\ archive = Pinned /\ disk \in Initial
    /\ job = [p \in Publishers |-> IdleJob]
    /\ inspection = [q \in Inspections |-> Waiting]
    /\ events = 0

(***************************************************************************)
(* The world.                                                              *)
(***************************************************************************)
(* For the properties: the files that were replaced after an inspection    *)
(* has hashed them and before it opens them; and the publishers that have  *)
(* looked at their outputs before somebody else changes one.               *)
Replaced(f) ==
    [q \in Inspections |->
        IF f \in DOMAIN inspection[q].hashed \ DOMAIN inspection[q].opened
        THEN [inspection[q] EXCEPT !.replaced = @ \cup {f}] ELSE inspection[q]]

Claiming == {"backup", "publish", "cleanup", "rollback", "failed"}

Disturbed(p, f) ==
    IF f \in Outputs /\ job[p].pc \in Claiming THEN [job[p] EXCEPT !.disturbed = TRUE] ELSE job[p]

(* An installation goes file by file, stops anywhere, goes on with another *)
(* release.                                                                *)
Install(f, r) ==
    /\ events < MaxEvents /\ disk[f] # r[f]
    /\ disk' = [disk EXCEPT ![f] = r[f]]
    /\ events' = events + 1
    /\ inspection' = Replaced(f)
    /\ job' = [p \in Publishers |-> Disturbed(p, f)]
    /\ UNCHANGED archive

ReplaceArchive(a) ==
    /\ events < MaxEvents /\ a # archive
    /\ archive' = a /\ events' = events + 1
    /\ UNCHANGED <<disk, job, inspection>>

(***************************************************************************)
(* A publisher: compile_framenet_projection with a trace manifest.         *)
(***************************************************************************)
At(p, pc) == job[p].pc = pc
Become(p, state) ==
    /\ job' = [job EXCEPT ![p] = state]
    /\ UNCHANGED <<archive, disk, inspection, events>>

(* Put content at an output and go on. *)
Place(p, f, content, state) ==
    /\ disk' = [disk EXCEPT ![f] = content]
    /\ inspection' = Replaced(f)
    /\ job' = [o \in Publishers |-> IF o = p THEN state ELSE Disturbed(o, f)]
    /\ UNCHANGED <<archive, events>>

(* Verify the archive against the source manifest; anything else is refused. *)
StartPublication(p, force) ==
    /\ At(p, "idle") /\ events < MaxEvents
    /\ archive = Pinned
    /\ events' = events + 1
    /\ job' = [job EXCEPT ![p] = [pc |-> "open", force |-> force]]
    /\ UNCHANGED <<archive, disk, inspection>>

(* A compiler that does not compare the members of the archive. *)
OpenArchiveUnchecked(p) ==
    /\ At(p, "open")
    /\ Become(p, [pc |-> "check", force |-> job[p].force,
                  projection |-> ProjectionOf(archive, Pinned)])

(* Open the path again and compile what is there under the verified identity. *)
OpenArchive(p) ==
    /\ At(p, "open") /\ Compiles(archive)
    /\ Become(p, [pc |-> "check", force |-> job[p].force,
                  projection |-> ProjectionOf(archive, Pinned)])

ArchiveRefused(p) == At(p, "open") /\ ~Compiles(archive) /\ Become(p, IdleJob)

(* The attribution credits the source, the pack manifest is of the pack.   *)
(* Both are hashed after they were read, and must still be there.          *)
InputsFit(p) ==
    /\ disk["attribution"] # Absent /\ disk["manifest"] # Absent
    /\ At(p, "check") => disk["attribution"] \in Credited /\ disk["manifest"].pack = Query.pack

CheckInputs(p) == At(p, "check") /\ InputsFit(p) /\ Become(p, [job[p] EXCEPT !.pc = "hash"])
InputsRefused(p) == job[p].pc \in {"check", "hash"} /\ ~InputsFit(p) /\ Become(p, IdleJob)

BuildTrace(p) ==
    LET projection == job[p].projection
        trace == TraceOf(projection, disk["manifest"], disk["attribution"])
    IN  /\ At(p, "hash") /\ InputsFit(p)
        /\ Become(p, [pc |-> "stage", force |-> job[p].force,
                      payload |-> [projection |-> projection, trace |-> trace]])

(* The outputs may be written: with --force, or where there are none. *)
Writable(p) == job[p].force \/ \A f \in Outputs : disk[f] = Absent

Stage(p) == At(p, "stage") /\ Writable(p) /\ Become(p, [job[p] EXCEPT !.pc = "recheck"])

Order == <<"projection", "trace">>

(* From here on the outputs change, and an error takes them back.  For the *)
(* properties: what was there before; whether somebody else has changed an *)
(* output since; whether an interrupt came in the gap between a rename and *)
(* its record, or the rollback itself failed; and the stray backup whose   *)
(* name the publisher has then not noted.                                  *)
Recheck(p) ==
    /\ At(p, "recheck") /\ Writable(p)
    /\ Become(p, [pc |-> IF job[p].force THEN "backup" ELSE "publish", at |-> 1,
                  payload |-> job[p].payload, backup |-> Nothing, published |-> {},
                  before |-> [f \in Outputs |-> disk[f]],
                  disturbed |-> FALSE, spoiled |-> FALSE, stray |-> Nothing])

OutputRefused(p) ==
    (At(p, "stage") \/ At(p, "recheck")) /\ ~Writable(p) /\ Become(p, IdleJob)

Subject(p) == Order[job[p].at]

(* The state after one output, and after the last. *)
Advance(state, pc) ==
    IF state.at = Len(Order) THEN [state EXCEPT !.pc = pc, !.at = 1] ELSE [state EXCEPT !.at = @ + 1]

(* A publisher that makes room by deleting. *)
BackUpDeleting(p) ==
    /\ At(p, "backup") /\ disk[Subject(p)] # Absent
    /\ Place(p, Subject(p), Absent, Advance(job[p], "publish"))

BackUp(p) ==
    /\ At(p, "backup") /\ disk[Subject(p)] # Absent
    /\ Place(p, Subject(p), Absent,
             Advance([job[p] EXCEPT !.backup = With(@, Subject(p), disk[Subject(p)])], "publish"))

NothingToBackUp(p) ==
    At(p, "backup") /\ disk[Subject(p)] = Absent /\ Become(p, Advance(job[p], "publish"))

Publish(p) ==
    /\ At(p, "publish")
    /\ Place(p, Subject(p), job[p].payload[Subject(p)],
             Advance([job[p] EXCEPT !.published = @ \cup {Subject(p)}], "cleanup"))

Cleanup(p) == At(p, "cleanup") /\ Become(p, IdleJob)

RollingBack(state) == [state EXCEPT !.pc = "rollback", !.at = Len(Order)]

(* A call fails, or an interrupt arrives between two records. *)
CallFails(p) == (At(p, "backup") \/ At(p, "publish")) /\ Become(p, RollingBack(job[p]))

(* An interrupt arrives after the rename and before its record. *)
BackUpUnrecorded(p) ==
    /\ At(p, "backup") /\ disk[Subject(p)] # Absent
    /\ Place(p, Subject(p), Absent,
             RollingBack([job[p] EXCEPT
                 !.spoiled = TRUE, !.stray = With(@, Subject(p), disk[Subject(p)])]))

PublishUnrecorded(p) ==
    /\ At(p, "publish")
    /\ Place(p, Subject(p), job[p].payload[Subject(p)],
             RollingBack([job[p] EXCEPT !.spoiled = TRUE]))

(* Backwards through the outputs. *)
Retreat(state) ==
    IF state.at = 1 THEN [state EXCEPT !.pc = "failed"] ELSE [state EXCEPT !.at = @ - 1]

Restore(p) ==
    /\ At(p, "rollback") /\ Subject(p) \in DOMAIN job[p].backup
    /\ Place(p, Subject(p), job[p].backup[Subject(p)],
             Retreat([job[p] EXCEPT !.backup = Without(@, Subject(p))]))

(* A rollback that restores backups and leaves new outputs in place. *)
WithdrawNothing(p) ==
    /\ At(p, "rollback") /\ Subject(p) \notin DOMAIN job[p].backup
    /\ Become(p, Retreat(job[p]))

Withdraw(p) ==
    /\ At(p, "rollback") /\ Subject(p) \notin DOMAIN job[p].backup
    /\ IF Subject(p) \in job[p].published
       THEN Place(p, Subject(p), Absent, Retreat(job[p]))
       ELSE Become(p, Retreat(job[p]))

RollbackFails(p) ==
    At(p, "rollback") /\ Become(p, Retreat([job[p] EXCEPT !.spoiled = TRUE]))

Raise(p) == At(p, "failed") /\ Become(p, IdleJob)
Kill(p) == ~At(p, "idle") /\ Become(p, IdleJob)

PublisherStep(p) ==
    \/ \E force \in BOOLEAN : StartPublication(p, force)
    \/ OpenArchive(p) \/ ArchiveRefused(p)
    \/ CheckInputs(p) \/ InputsRefused(p) \/ BuildTrace(p)
    \/ Stage(p) \/ Recheck(p) \/ OutputRefused(p)
    \/ BackUp(p) \/ NothingToBackUp(p) \/ Publish(p) \/ Cleanup(p)
    \/ CallFails(p) \/ BackUpUnrecorded(p) \/ PublishUnrecorded(p)
    \/ Restore(p) \/ Withdraw(p) \/ RollbackFails(p)
    \/ Raise(p) \/ Kill(p)

(***************************************************************************)
(* An inspection: inspect_linguistic_bundle_at_roots, one file at a time.  *)
(***************************************************************************)
Access(op, file) == [op |-> op, file |-> file]
Both(file) == <<Access("hash", file), Access("open", file)>>
Hashes(list) == [i \in DOMAIN list |-> Access("hash", list[i])]
Opens(list) == [i \in DOMAIN list |-> Access("open", list[i])]

Opening ==
    Both("manifest") \o Both("trace")
        \o Hashes(<<"predicates", "roles", "edges", "mappings", "canon", "projection", "attribution">>)
        \o <<Access("open", "projection")>>
Grounding == Hashes(<<"context", "notice">>) \o <<Access("open", "context")>>
Parsing == Opens(<<"predicates", "roles", "edges", "mappings">>)

Grounded(r) == "trace" \in DOMAIN r.opened /\ r.opened["trace"].sumo # NoSumo
Script(r) == Opening \o (IF Grounded(r) THEN Grounding ELSE <<>>) \o Parsing

(* An asset has the digest the pack manifest declares, a file of the       *)
(* adjunct the one the trace manifest names.                               *)
HashFits(r, f, c) ==
    \/ f \in {"manifest", "trace"}
    \/ f \in Assets /\ c = r.opened["manifest"].artifacts[f]
    \/ f \in {"projection", "attribution"} /\ c = r.opened["trace"][f]
    \/ f \in {"context", "notice"} /\ c = r.opened["trace"].sumo[f]

(* A reader that takes the trace of any build of the pack. *)
TraceFitsAnyBuild(r, c) == c.pack = Query.pack

(* The trace is of this pack, and of the very manifest that was hashed. *)
TraceFits(r, c) == c.pack = Query.pack /\ c.target = r.hashed["manifest"]

(* A reader that trusts the digest it took of the projection file. *)
ProjectionFitsUnread(r, c) == ProjectionClosed(c)

(* What is parsed has the content and the source the trace says. *)
ProjectionFits(r, c) ==
    LET t == r.opened["trace"]
    IN  ProjectionClosed(c) /\ c.frames = t.frames /\ c.archive = t.archive

ContextFits(r, c) ==
    LET t == r.opened["trace"]
    IN  c.facts = t.sumo.facts /\ c.notice = r.hashed["notice"]

EdgesFit(r, c) == \A e \in c : e.pred = Query.predicate => e.role \in r.opened["roles"]

(* A FrameNet mapping is an unverified candidate for a frame that exists. *)
MappingsFit(r, c) ==
    \A m \in c :
        m.pred = Query.predicate /\ m.family = "framenet" =>
            /\ m.relation = "candidate" /\ ~m.verified
            /\ \E x \in r.opened["projection"].frames : x.key.name = m.target

OpenFits(r, f, c) ==
    \/ f = "manifest" /\ c.pack = Query.pack
    \/ f = "trace" /\ TraceFits(r, c)
    \/ f = "projection" /\ ProjectionFits(r, c)
    \/ f = "context" /\ ContextFits(r, c)
    \/ f = "predicates" /\ Query.predicate \in c
    \/ f = "roles"
    \/ f = "edges" /\ EdgesFit(r, c)
    \/ f = "mappings" /\ MappingsFit(r, c)

Working(r) == r.at \in DOMAIN Script(r)
Now(r) == Script(r)[r.at]

Fits(r) ==
    LET f == Now(r).file
    IN  /\ disk[f] # Absent
        /\ IF Now(r).op = "hash" THEN HashFits(r, f, disk[f]) ELSE OpenFits(r, f, disk[f])

Inspect(q, state) ==
    /\ inspection' = [inspection EXCEPT ![q] = state]
    /\ UNCHANGED <<archive, disk, job, events>>

StartInspection(q) == inspection[q].at = 0 /\ Inspect(q, [Waiting EXCEPT !.at = 1])

TakeStep(q) ==
    LET r == inspection[q]
    IN  /\ Working(r) /\ Fits(r)
        /\ Inspect(q, IF Now(r).op = "hash"
                      THEN [r EXCEPT !.at = @ + 1, !.hashed = With(@, Now(r).file, disk[Now(r).file])]
                      ELSE [r EXCEPT !.at = @ + 1, !.opened = With(@, Now(r).file, disk[Now(r).file])])

InspectionRefused(q) ==
    /\ Working(inspection[q]) /\ ~Fits(inspection[q])
    /\ Inspect(q, Waiting)

(* The bundle is complete, and is returned. *)
Complete(r) == r.at = Len(Script(r)) + 1
Return(q) == Complete(inspection[q]) /\ Inspect(q, Waiting)

InspectionStep(q) == StartInspection(q) \/ TakeStep(q) \/ InspectionRefused(q) \/ Return(q)

Next ==
    \/ \E p \in Publishers : PublisherStep(p)
    \/ \E q \in Inspections : InspectionStep(q)
    \/ \E f \in Files, r \in Releases : Install(f, r)
    \/ \E a \in Archives : ReplaceArchive(a)

Spec == Init /\ [][Next]_vars

(***************************************************************************)
(* Properties.                                                             *)
(***************************************************************************)
(* A file holds what was installed or compiled, and an inspection what was *)
(* once in the files it has read.                                          *)
TypeOK ==
    /\ archive \in Archives
    /\ \A f \in Files : disk[f] \in Held(f)
    /\ \A q \in Inspections :
           LET r == inspection[q]
           IN  /\ r.at \in 0..(Len(Script(r)) + 1)
               /\ \A f \in DOMAIN r.hashed \cup DOMAIN r.opened : f \in Files
    /\ events \in 0..MaxEvents
    /\ \A p \in Publishers :
           job[p].pc \in {"idle", "open", "check", "hash", "stage", "recheck"} \cup Claiming

(* "Exact FrameNet records": whatever is replaced while an inspection runs *)
(* and whatever publishers leave half done, the frames and the SUMO facts  *)
(* of a bundle are those its trace manifest names, though the projection   *)
(* and the context are opened again after they were hashed.                *)
ExactFrames ==
    \A q \in Inspections :
        LET r == inspection[q]
            t == r.opened["trace"]
        IN  Complete(r) =>
                /\ r.opened["projection"].frames = t.frames
                /\ Grounded(r) => r.opened["context"].facts = t.sumo.facts

(* The pack rows of a bundle were hashed as those of one release, the one  *)
(* of the pack manifest it parsed, however many files of others an         *)
(* installer puts between two readings.  It is the release the trace names *)
(* and the rows are parsed as they were hashed, but for a file that was    *)
(* itself replaced between its own two readings.                           *)
OneRelease ==
    \A q \in Inspections :
        LET r == inspection[q]
        IN  Complete(r) =>
                /\ \E s \in Releases :
                       /\ r.opened["manifest"] = s["manifest"]
                       /\ \A f \in Assets : r.hashed[f] = s[f]
                /\ "manifest" \notin r.replaced =>
                       r.opened["trace"].target = r.opened["manifest"]
                /\ \A f \in DOMAIN r.opened \ r.replaced : r.opened[f] = r.hashed[f]

(* "If any publication fails, the function restores every prior output and *)
(* removes every newly published output": a failed publication leaves what *)
(* was there and a completed one its own set, unless an output was changed *)
(* by somebody else or the run was spoiled (_atomic_write_many).           *)
SetAtomic ==
    \A p \in Publishers :
        /\ At(p, "failed") /\ ~job[p].disturbed /\ ~job[p].spoiled =>
               \A f \in Outputs : disk[f] = job[p].before[f]
        /\ At(p, "cleanup") /\ ~job[p].disturbed =>
               \A f \in Outputs : disk[f] = job[p].payload[f]

(* Wherever a publisher is killed or interrupted, an output it replaces    *)
(* still exists: in place, as a backup, or as a stray backup.              *)
PriorKept ==
    \A p \in Publishers :
        job[p].pc \in Claiming \ {"cleanup"} /\ ~job[p].disturbed =>
            \A f \in Outputs :
                job[p].before[f] # Absent =>
                    \/ job[p].before[f] = disk[f]
                    \/ f \in DOMAIN job[p].backup /\ job[p].before[f] = job[p].backup[f]
                    \/ f \in DOMAIN job[p].stray /\ job[p].before[f] = job[p].stray[f]
=============================================================================
