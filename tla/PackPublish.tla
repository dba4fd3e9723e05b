----------------------------- MODULE PackPublish -----------------------------
(***************************************************************************)
(* Builders, each one invocation of a pack compiler, over one directory of *)
(* packs and one donor database file that somebody may replace at any      *)
(* time.  A build checks that its output is absent, reads, stages a        *)
(* complete pack in a temporary directory that only it knows, validates it *)
(* there, looks at its output again, and renames the stage to the output.  *)
(* A step is what lies between two points where another builder or the     *)
(* donor can interfere: each connection to the donor sees one state of it. *)
(* A build that dies leaves its temporary directory, which nothing reads.  *)
(***************************************************************************)
EXTENDS Packs

CONSTANTS Builders, FirstDonor, Unread

VARIABLES
    donor,   \* the donor database file
    packs,   \* packs[v]: the directory of version v, NoPack when absent
    build    \* build[b]: the invocation b

vars == <<donor, packs, build>>

ASSUME PublishConstants == FirstDonor \in Donors /\ Unread \notin Donors

(* The local variables of a build, set as far as it came. *)
Phases == {"idle", "rows", "hierarchy", "digest", "provenance", "stage",
           "relations", "recheck", "rename"}

Build ==
    [pc        : Phases,
     version   : Versions,
     rows      : Donors \cup {Unread},
     hierarchy : Donors \cup {Unread},
     digest    : Donors \cup {Unread},
     seen      : UNION {[P -> Donors] : P \in SUBSET Terms},
     stage     : Pack \cup {NoPack}]

Begin(v, pc, stage) ==
    [pc |-> pc, version |-> v, rows |-> Unread, hierarchy |-> Unread, digest |-> Unread,
     seen |-> [p \in {} |-> Unread], stage |-> stage]

(* No invocation is running; what the last one read is forgotten. *)
Idle == Begin(ViewVersion, "idle", NoPack)

Init ==
    /\ donor = FirstDonor
    /\ packs = [v \in Versions |-> NoPack]
    /\ build = [b \in Builders |-> Idle]

At(b, pc) == build[b].pc = pc
Become(b, state) == build' = [build EXCEPT ![b] = state]

(* Every error path ends the process, and with it the stage. *)
Stop(b) == Become(b, Idle) /\ UNCHANGED <<donor, packs>>

(***************************************************************************)
(* The base compiler.                                                      *)
(***************************************************************************)
StartBase(b, v) ==
    /\ At(b, "idle")
    /\ packs[v] = NoPack
    /\ Become(b, Begin(v, "rows", NoPack))
    /\ UNCHANGED <<donor, packs>>

(* A read that warns of blank labels and goes on. *)
ReadAnyRows(b) ==
    /\ At(b, "rows")
    /\ Become(b, [build[b] EXCEPT !.pc = "hierarchy", !.rows = donor])
    /\ UNCHANGED <<donor, packs>>

(* Predicates and roles, over one connection; a blank label aborts. *)
ReadRows(b) ==
    /\ At(b, "rows")
    /\ Labelled(RowSlots(donor))
    /\ Become(b, [build[b] EXCEPT !.pc = "hierarchy", !.rows = donor])
    /\ UNCHANGED <<donor, packs>>

BlankLabel(b) == At(b, "rows") /\ ~Labelled(RowSlots(donor)) /\ Stop(b)

ReadHierarchy(b) ==
    /\ At(b, "hierarchy")
    /\ Become(b, [build[b] EXCEPT
           !.pc = IF build[b].version = HistoricVersion THEN "stage" ELSE "digest",
           !.hierarchy = donor])
    /\ UNCHANGED <<donor, packs>>

ReadDigest(b) ==
    /\ At(b, "digest")
    /\ Become(b, [build[b] EXCEPT !.pc = "provenance", !.digest = donor])
    /\ UNCHANGED <<donor, packs>>

(* The predicates of the rows that have no provenance bundle yet. *)
Untraced(b) == build[b].rows.preds \ DOMAIN build[b].seen

(* A connection of its own per predicate. *)
ReadProvenance(b, p) ==
    /\ At(b, "provenance")
    /\ p \in Untraced(b)
    /\ p \in donor.preds /\ Labelled(SlotsOf(donor, p))
    /\ Become(b, [build[b] EXCEPT
           !.seen = [q \in DOMAIN build[b].seen \cup {p} |->
                        IF q = p THEN donor ELSE build[b].seen[q]]])
    /\ UNCHANGED <<donor, packs>>

(* The predicate has gone from the donor, or lost the label of a role. *)
UnknownPredicate(b, p) ==
    /\ At(b, "provenance")
    /\ p \in Untraced(b)
    /\ ~(p \in donor.preds /\ Labelled(SlotsOf(donor, p)))
    /\ Stop(b)

AllTraced(b) ==
    /\ At(b, "provenance")
    /\ Untraced(b) = {}
    /\ Become(b, [build[b] EXCEPT !.pc = "stage"])
    /\ UNCHANGED <<donor, packs>>

Staged(b) ==
    BasePack(build[b].version, build[b].rows, build[b].hierarchy, build[b].digest, build[b].seen)

(* Write all files to the stage and validate them there. *)
Stage(b) ==
    /\ At(b, "stage")
    /\ Validated(build[b].version, Staged(b))
    /\ Become(b, Begin(build[b].version, "recheck", Staged(b)))
    /\ UNCHANGED <<donor, packs>>

Invalid(b) == At(b, "stage") /\ ~Validated(build[b].version, Staged(b)) /\ Stop(b)

(***************************************************************************)
(* The relations slice compiler.                                           *)
(***************************************************************************)
StartSlice(b, v) ==
    /\ At(b, "idle")
    /\ packs[Slices[v].base] # NoPack
    /\ packs[v] = NoPack
    /\ Become(b, Begin(v, "relations", NoPack))
    /\ UNCHANGED <<donor, packs>>

(* One connection to the donor.  The packs of the lineage are read while   *)
(* it is open; they cannot change, so one step stands for all reads.       *)
CompileSlice(b) ==
    LET args == Slices[build[b].version]
    IN  /\ At(b, "relations")
        /\ Accounted(donor, args, packs)
        /\ Become(b, Begin(build[b].version, "recheck", SlicePack(donor, args, packs)))
        /\ UNCHANGED <<donor, packs>>

Unaccounted(b) ==
    /\ At(b, "relations")
    /\ ~Accounted(donor, Slices[build[b].version], packs)
    /\ Stop(b)

(***************************************************************************)
(* The runtime view: one check of the output, no second one.               *)
(***************************************************************************)
StartView(b) ==
    /\ At(b, "idle")
    /\ packs[ViewVersion] = NoPack
    /\ Become(b, Begin(ViewVersion, "rename", ViewPack))
    /\ UNCHANGED <<donor, packs>>

(***************************************************************************)
(* Publication.                                                            *)
(***************************************************************************)
Recheck(b) ==
    /\ At(b, "recheck")
    /\ packs[build[b].version] = NoPack
    /\ Become(b, [build[b] EXCEPT !.pc = "rename"])
    /\ UNCHANGED <<donor, packs>>

Appeared(b) == At(b, "recheck") /\ packs[build[b].version] # NoPack /\ Stop(b)

(* A publication that clears its output first. *)
RenameOver(b) ==
    /\ At(b, "rename")
    /\ packs' = [packs EXCEPT ![build[b].version] = build[b].stage]
    /\ Become(b, Idle)
    /\ UNCHANGED donor

(* rename(2) moves a directory onto a name that is free; onto a directory  *)
(* with files in it, as every pack is, it fails.                           *)
Rename(b) ==
    /\ At(b, "rename")
    /\ packs[build[b].version] = NoPack
    /\ packs' = [packs EXCEPT ![build[b].version] = build[b].stage]
    /\ Become(b, Idle)
    /\ UNCHANGED donor

RenameFails(b) == At(b, "rename") /\ packs[build[b].version] # NoPack /\ Stop(b)

(* A process is killed; or the donor file is replaced under its path. *)
Crash(b) == ~At(b, "idle") /\ Stop(b)

DonorReplaced(d) ==
    /\ d # donor
    /\ donor' = d
    /\ UNCHANGED <<packs, build>>

BaseStep(b) ==
    \/ \E v \in BaseVersions : StartBase(b, v)
    \/ ReadRows(b) \/ BlankLabel(b)
    \/ ReadHierarchy(b) \/ ReadDigest(b)
    \/ \E p \in Terms : ReadProvenance(b, p) \/ UnknownPredicate(b, p)
    \/ AllTraced(b)
    \/ Stage(b) \/ Invalid(b)

SliceStep(b) ==
    \/ \E v \in DOMAIN Slices : StartSlice(b, v)
    \/ CompileSlice(b) \/ Unaccounted(b)

PublishStep(b) == Recheck(b) \/ Appeared(b) \/ Rename(b) \/ RenameFails(b)

Next ==
    \/ \E b \in Builders :
           BaseStep(b) \/ SliceStep(b) \/ StartView(b) \/ PublishStep(b) \/ Crash(b)
    \/ \E d \in Donors : DonorReplaced(d)

Spec == Init /\ [][Next]_vars

(***************************************************************************)
(* Properties.                                                             *)
(***************************************************************************)

(* The directory holds packs, and a build the states it has read. *)
TypeOK ==
    /\ donor \in Donors
    /\ packs \in [Versions -> Pack \cup {NoPack}]
    /\ build \in [Builders -> Build]

Published == {v \in Versions : packs[v] # NoPack}

(* However builds interleave, race for one version and die, the directory  *)
(* is a catalogue: no version is published twice or in part, or changes,   *)
(* or extends a version that is not there (the two checks of the output,   *)
(* the stage and the rename of all three compilers).                       *)
Catalogue == INSTANCE PackCatalogue
CatalogueKept == Catalogue!Spec

(* No predicate, role, type or hierarchy edge is declared by two packs of  *)
(* one lineage, though each slice was compiled from a donor and a list of  *)
(* approved modules of its own (_collect_ancestor_identities).             *)
NothingRedeclared ==
    \A v \in Published : \A u \in Lineage(packs, v) \ {v} : Disjoint(packs[u], packs[v])

(* Leaving out what an ancestor owns leaves nothing dangling: a role edge  *)
(* is of a declared predicate and role, a constraint of a declared role    *)
(* edge and type, a hierarchy edge of declared types, in the lineage.      *)
ReferencesResolve ==
    \A v \in Published :
        Resolves(packs[v], OwnedRoles(packs, v), OwnedEntities(packs, v))

(* Whatever the donor was at each of the four reads of a build, a pack     *)
(* published under a released version has the predicates, role edges and   *)
(* hierarchy of the release, and as many predicates per type (compile_pack *)
(* reads the rows, the validator compares them with the provenance rows,   *)
(* and these with the pinned ones).                                        *)
ReleaseReproduced ==
    \A v \in Published \cap BaseVersions \cap DOMAIN Released :
        v # HistoricVersion =>
            /\ packs[v].preds = Released[v].preds
            /\ packs[v].slots = Released[v].slots
            /\ packs[v].edges = Released[v].edges
            /\ \A t \in Types : Uses(ConstrainedTypes(packs[v]), t) =
                                Uses(Released[v].types, t)

(* "Byte-bound donor artifact used directly by the compiler": the rows of  *)
(* a successor are those of the donor whose digest its sources file names. *)
DigestNamesRows ==
    \A v \in Published \cap BaseVersions :
        v # HistoricVersion =>
            LET d == packs[v].digest
            IN  /\ packs[v].preds = d.preds
                /\ packs[v].constraints = {<<s.pred, s.role, s.type>> : s \in Typed(RowSlots(d))}
=============================================================================
