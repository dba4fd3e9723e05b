-------------------------- MODULE PackPublishProofs --------------------------
(***************************************************************************)
(* Theorems about the publication of packs, for all donors, versions,      *)
(* slices and numbers of builders.                                         *)
(***************************************************************************)
EXTENDS PackPublish, TLAPS

(***************************************************************************)
(* Lineages.                                                               *)
(***************************************************************************)

(* A set of versions that holds the base of each of its packs. *)
ClosedUp(cat, S) ==
    \A w \in S : cat[w] # NoPack /\ cat[w].base # NoBase => cat[w].base \in S

(* Every base is published. *)
Grounded(cat) ==
    \A w \in Versions : cat[w] # NoPack /\ cat[w].base # NoBase =>
        cat[w].base \in Versions /\ cat[cat[w].base] # NoPack

(* The packs of one directory are in the other, unchanged. *)
Grown(cat, new) == \A u \in Versions : cat[u] # NoPack => new[u] = cat[u]

LEMMA LineageSelf ==
    ASSUME NEW cat, NEW v \in Versions
    PROVE  v \in Lineage(cat, v)
BY DEF Lineage

(* A lineage is the least set that holds its version and is closed up. *)
LEMMA LineageLeast ==
    ASSUME NEW cat, NEW v, NEW S \in SUBSET Versions, v \in S, ClosedUp(cat, S)
    PROVE  Lineage(cat, v) \subseteq S
BY DEF Lineage, ClosedUp

LEMMA LineageClosed ==
    ASSUME NEW cat, NEW v \in Versions, Grounded(cat)
    PROVE  ClosedUp(cat, Lineage(cat, v))
<1> SUFFICES ASSUME NEW w \in Lineage(cat, v), cat[w] # NoPack, cat[w].base # NoBase
             PROVE  cat[w].base \in Lineage(cat, v)
  BY DEF ClosedUp
<1>1. w \in Versions /\ cat[w].base \in Versions
  BY DEF Lineage, Grounded
<1>2. ASSUME NEW S \in SUBSET Versions, v \in S,
             \A x \in S : cat[x] # NoPack /\ cat[x].base # NoBase => cat[x].base \in S
      PROVE  cat[w].base \in S
  <2>1. w \in S
    BY <1>2 DEF Lineage
  <2> QED
    BY <1>2, <2>1
<1> QED
  BY <1>1, <1>2 DEF Lineage

LEMMA LineagePublished ==
    ASSUME NEW cat, NEW v \in Versions, Grounded(cat), cat[v] # NoPack
    PROVE  \A u \in Lineage(cat, v) : u \in Versions /\ cat[u] # NoPack
<1> DEFINE S == {u \in Versions : cat[u] # NoPack}
<1>1. ClosedUp(cat, S)
  BY DEF ClosedUp, Grounded
<1> QED
  BY <1>1, LineageLeast

(* Publishing a version leaves the lineage of every other pack as it is.   *)
LEMMA LineageKept ==
    ASSUME NEW cat, NEW new, Grounded(cat), Grounded(new), Grown(cat, new),
           NEW w \in Versions, cat[w] # NoPack
    PROVE  /\ Lineage(new, w) = Lineage(cat, w)
           /\ \A u \in Lineage(cat, w) : new[u] = cat[u]
<1>1. \A u \in Lineage(cat, w) : u \in Versions /\ cat[u] # NoPack
  BY LineagePublished
<1>2. \A u \in Versions : cat[u] # NoPack => new[u] = cat[u]
  BY DEF Grown
<1>3. Lineage(new, w) \subseteq Lineage(cat, w)
  <2>1. ClosedUp(cat, Lineage(cat, w))
    BY LineageClosed
  <2>2. ClosedUp(new, Lineage(cat, w))
    BY <1>1, <1>2, <2>1 DEF ClosedUp
  <2> QED
    BY <1>1, <2>2, LineageSelf, LineageLeast
<1>4. Lineage(cat, w) \subseteq Lineage(new, w)
  <2>1. ClosedUp(new, Lineage(new, w))
    BY LineageClosed
  <2>2. \A u \in Lineage(new, w) : u \in Versions
    BY DEF Lineage
  <2>3. ClosedUp(cat, Lineage(new, w))
    BY <1>2, <2>1, <2>2 DEF ClosedUp
  <2> QED
    BY <2>2, <2>3, LineageSelf, LineageLeast
<1> QED
  BY <1>1, <1>2, <1>3, <1>4

(* The lineage of a published pack is itself and its base's. *)
LEMMA LineageOfNew ==
    ASSUME NEW cat, Grounded(cat), NEW v \in Versions, cat[v] # NoPack
    PROVE  /\ cat[v].base = NoBase => Lineage(cat, v) = {v}
           /\ cat[v].base # NoBase =>
                  Lineage(cat, v) = {v} \cup Lineage(cat, cat[v].base)
<1>1. v \in Lineage(cat, v)
  BY LineageSelf
<1>2. ASSUME cat[v].base = NoBase PROVE Lineage(cat, v) = {v}
  <2>1. ClosedUp(cat, {v})
    BY <1>2 DEF ClosedUp
  <2> QED
    BY <1>1, <2>1, LineageLeast
<1>3. ASSUME cat[v].base # NoBase
      PROVE  Lineage(cat, v) = {v} \cup Lineage(cat, cat[v].base)
  <2> DEFINE base == cat[v].base
  <2>1. base \in Versions
    BY <1>3 DEF Grounded
  <2>2. ClosedUp(cat, Lineage(cat, base)) /\ base \in Lineage(cat, base)
    BY <2>1, LineageClosed, LineageSelf
  <2>3. ClosedUp(cat, {v} \cup Lineage(cat, base))
    BY <2>2 DEF ClosedUp
  <2>4. {v} \cup Lineage(cat, base) \subseteq Versions
    BY DEF Lineage
  <2>5. Lineage(cat, v) \subseteq {v} \cup Lineage(cat, base)
    BY <2>3, <2>4, LineageLeast
  <2>6. ClosedUp(cat, Lineage(cat, v)) /\ base \in Lineage(cat, v)
    BY <1>1, <1>3, LineageClosed DEF ClosedUp
  <2>7. Lineage(cat, v) \subseteq Versions
    BY DEF Lineage
  <2>8. Lineage(cat, base) \subseteq Lineage(cat, v)
    BY <2>6, <2>7, LineageLeast
  <2> QED
    BY <1>1, <2>5, <2>8
<1> QED
  BY <1>2, <1>3

(***************************************************************************)
(* What the compilers stage.                                               *)
(***************************************************************************)
Seen == UNION {[P -> Donors] : P \in SUBSET Terms}
SeenLabelled(seen) == \A p \in DOMAIN seen : Labelled(SlotsOf(seen[p], p))

LEMMA DonorFields ==
    ASSUME NEW d \in Donors
    PROVE  /\ d.preds \subseteq Terms /\ d.frames \subseteq Terms
           /\ d.slots \subseteq
                  [pred : Terms, role : Labels \cup {Blank}, type : Types \cup {NoType}]
           /\ d.anc \in [Types -> SUBSET Types]
           /\ d.isa \subseteq Types \X Types
           /\ d.rels \subseteq
                  [id : Terms, arity : Positions, module : Modules, fn : BOOLEAN]
           /\ d.cons \subseteq [rel : Terms, pos : Nat, type : Types, module : Modules]
BY PackConstants DEF DonorSet

LEMMA ClosureTyped ==
    ASSUME NEW d \in Donors, NEW seeds \in SUBSET Types
    PROVE  /\ TypeClosure(d, seeds) \in SUBSET Types
           /\ seeds \subseteq TypeClosure(d, seeds)
           /\ EdgesWithin(d, TypeClosure(d, seeds)) \in SUBSET (Types \X Types)
           /\ EdgesWithin(d, TypeClosure(d, seeds))
                  \subseteq TypeClosure(d, seeds) \X TypeClosure(d, seeds)
<1>1. TypeClosure(d, seeds) \in SUBSET Types /\ seeds \subseteq TypeClosure(d, seeds)
  BY DonorFields DEF TypeClosure
<1>2. d.isa \subseteq Types \X Types
  BY DonorFields
<1> QED
  BY <1>1, <1>2 DEF EdgesWithin

(* Labelled slots of a donor, as the fields the pack takes from them. *)
LEMMA SlotFields ==
    ASSUME NEW slots,
           slots \subseteq [pred : Terms, role : Labels \cup {Blank}, type : Types \cup {NoType}],
           Labelled(slots)
    PROVE  /\ {s.role : s \in slots} \in SUBSET Labels
           /\ {<<s.pred, s.role>> : s \in slots} \in SUBSET (Terms \X Labels)
           /\ {s.type : s \in Typed(slots)} \in SUBSET Types
           /\ {<<s.pred, s.type>> : s \in Typed(slots)} \in SUBSET (Terms \X Types)
           /\ {<<s.pred, s.role, s.type>> : s \in Typed(slots)}
                  \in SUBSET (Terms \X (Labels \cup Nat) \X Types)
<1>1. \A s \in slots : s.pred \in Terms /\ s.role \in Labels
  BY DEF Labelled
<1>2. \A s \in Typed(slots) : s \in slots /\ s.type \in Types
  BY DEF Typed
<1> QED
  BY <1>1, <1>2

LEMMA RowSlotsOf ==
    ASSUME NEW d \in Donors
    PROVE  RowSlots(d) = {s \in d.slots : s.pred \in d.preds}
BY DEF RowSlots, SlotsOf

LEMMA BasePackTyped ==
    ASSUME NEW v \in Versions, NEW rows \in Donors, NEW hierarchy \in Donors,
           NEW digest, v # HistoricVersion => digest \in Donors, NEW seen \in Seen,
           Labelled(RowSlots(rows)), SeenLabelled(seen)
    PROVE  /\ BasePack(v, rows, hierarchy, digest, seen) \in Pack
           /\ BasePack(v, rows, hierarchy, digest, seen).base = NoBase
<1> DEFINE slots == RowSlots(rows)
           types == TypeClosure(hierarchy, Seeds(rows))
           edges == EdgesWithin(hierarchy, types)
           found == UNION {SlotsOf(seen[p], p) : p \in DOMAIN seen}
<1>1. slots \subseteq [pred : Terms, role : Labels \cup {Blank}, type : Types \cup {NoType}]
  BY DonorFields, RowSlotsOf
<1>2. /\ {s.role : s \in slots} \in SUBSET Labels
      /\ {<<s.pred, s.role>> : s \in slots} \in SUBSET (Terms \X Labels)
      /\ {s.type : s \in Typed(slots)} \in SUBSET Types
      /\ {<<s.pred, s.role, s.type>> : s \in Typed(slots)}
             \in SUBSET (Terms \X (Labels \cup Nat) \X Types)
  BY <1>1, SlotFields
<1>3. types \in SUBSET Types /\ edges \in SUBSET (Types \X Types)
  BY <1>2, ClosureTyped DEF Seeds
<1>4. DOMAIN seen \in SUBSET Terms /\ \A p \in DOMAIN seen : seen[p] \in Donors
  BY DEF Seen
<1>5. found \subseteq [pred : Terms, role : Labels \cup {Blank}, type : Types \cup {NoType}]
  BY <1>4, DonorFields DEF SlotsOf
<1>6. Labelled(found)
  BY DEF SeenLabelled, Labelled
<1>7. ProvenanceRows(seen, edges) \in Mappings
  <2>1. /\ {<<s.pred, s.role>> : s \in found} \in SUBSET (Terms \X Labels)
        /\ {<<s.pred, s.type>> : s \in Typed(found)} \in SUBSET (Terms \X Types)
    BY <1>5, <1>6, SlotFields
  <2>2. {p \in DOMAIN seen : p \in seen[p].frames} \in SUBSET Terms
    BY <1>4
  <2> QED
    BY <1>3, <1>4, <2>1, <2>2 DEF ProvenanceRows, Mappings
<1>8. rows.preds \in SUBSET Terms
  BY DonorFields
<1>9. {s.role : s \in slots} \in SUBSET Roles
  BY <1>2 DEF Roles
<1>10. {<<s.pred, s.role>> : s \in slots} \in SUBSET (Terms \X Roles)
  BY <1>2 DEF Roles
<1>11. (IF v = HistoricVersion THEN NoMappings ELSE ProvenanceRows(seen, edges))
           \in Mappings \cup {NoMappings}
  BY <1>7
<1>12. (IF v = HistoricVersion THEN NoDigest ELSE digest) \in Donors \cup {NoDigest}
  OBVIOUS
<1> QED
  BY <1>2, <1>3, <1>8, <1>9, <1>10, <1>11, <1>12 DEF BasePack, Pack

LEMMA BasePackResolves ==
    ASSUME NEW v \in Versions, NEW rows \in Donors, NEW hierarchy \in Donors,
           NEW digest, NEW seen, Labelled(RowSlots(rows))
    PROVE  LET pack == BasePack(v, rows, hierarchy, digest, seen)
           IN  Resolves(pack, pack.roles, pack.entities)
<1> DEFINE pack == BasePack(v, rows, hierarchy, digest, seen)
           slots == RowSlots(rows)
           types == TypeClosure(hierarchy, Seeds(rows))
<1>1. /\ pack.preds = rows.preds
      /\ pack.roles = {s.role : s \in slots}
      /\ pack.entities = types
      /\ pack.edges = EdgesWithin(hierarchy, types)
      /\ pack.slots = {<<s.pred, s.role>> : s \in slots}
      /\ pack.constraints = {<<s.pred, s.role, s.type>> : s \in Typed(slots)}
  BY DEF BasePack
<1>2. slots \subseteq [pred : Terms, role : Labels \cup {Blank}, type : Types \cup {NoType}]
      /\ \A s \in slots : s.pred \in rows.preds
  BY DonorFields, RowSlotsOf
<1>3. Seeds(rows) \in SUBSET Types
  BY <1>2, SlotFields DEF Seeds
<1>4. /\ Seeds(rows) \subseteq types
      /\ pack.edges \subseteq pack.entities \X pack.entities
  BY <1>1, <1>3, ClosureTyped
<1>5. pack.slots \subseteq pack.preds \X pack.roles
  BY <1>1, <1>2
<1>6. ASSUME NEW c \in pack.constraints
      PROVE  <<c[1], c[2]>> \in pack.slots /\ c[3] \in pack.entities
  <2>1. PICK s \in Typed(slots) : c = <<s.pred, s.role, s.type>>
    BY <1>1
  <2>2. s \in slots /\ s.type \in Seeds(rows)
    BY DEF Typed, Seeds
  <2> QED
    BY <1>1, <1>4, <2>1, <2>2
<1> QED
  BY <1>4, <1>5, <1>6 DEF Resolves

LEMMA SlicePackTyped ==
    ASSUME NEW d \in Donors, NEW args \in SliceArgs, NEW cat
    PROVE  /\ SlicePack(d, args, cat) \in Pack
           /\ SlicePack(d, args, cat).base = args.base
           /\ args.base # NoBase
<1> DEFINE final == FinalRelations(d, args, cat)
           kept == {c \in ConstraintsOn(d, final) : c.module \in args.approved}
           seeds == {c.type : c \in kept}
           types == TypeClosure(d, seeds)
<1>1. final \subseteq [id : Terms, arity : Positions, module : Modules, fn : BOOLEAN]
  BY DonorFields DEF FinalRelations
<1>2. kept \subseteq [rel : Terms, pos : Nat, type : Types, module : Modules]
  BY DonorFields DEF ConstraintsOn
<1>3. seeds \in SUBSET Types
  BY <1>2
<1>4. types \in SUBSET Types /\ EdgesWithin(d, types) \in SUBSET (Types \X Types)
  BY <1>3, ClosureTyped
<1>5. {r.id : r \in final} \in SUBSET Terms
  BY <1>1
<1>6. UNION {{<<r.id, n>> : n \in 1..r.arity} : r \in final} \in SUBSET (Terms \X Roles)
  <2>1. ASSUME NEW r \in final, NEW n \in 1..r.arity
        PROVE  r.id \in Terms /\ n \in Roles
    BY <1>1, PackConstants DEF Positions, Roles
  <2> QED
    BY <2>1
<1>7. {<<c.rel, c.pos, c.type>> : c \in kept} \in SUBSET (Terms \X (Labels \cup Nat) \X Types)
  BY <1>2
<1>8. args.base \in Versions /\ args.base # NoBase
  BY PackConstants DEF SliceArgs
<1>9. {n \in Positions : \E r \in final : n <= r.arity} \ OwnedRoles(cat, args.base)
          \in SUBSET Roles
  BY DEF Roles
<1> QED
  BY <1>4, <1>5, <1>6, <1>7, <1>8, <1>9 DEF SlicePack, Pack

(* A slice declares nothing that the lineage of its base declares. *)
LEMMA SlicePackDisjoint ==
    ASSUME NEW d \in Donors, NEW args \in SliceArgs, NEW cat,
           NEW u \in Lineage(cat, args.base)
    PROVE  Disjoint(cat[u], SlicePack(d, args, cat))
<1> DEFINE pack == SlicePack(d, args, cat)
<1>1. /\ cat[u].preds \subseteq OwnedPreds(cat, args.base)
      /\ cat[u].roles \subseteq OwnedRoles(cat, args.base)
      /\ cat[u].entities \subseteq OwnedEntities(cat, args.base)
      /\ cat[u].edges \subseteq OwnedEdges(cat, args.base)
  BY DEF OwnedPreds, OwnedRoles, OwnedEntities, OwnedEdges
<1>2. pack.preds \cap OwnedPreds(cat, args.base) = {}
  BY DEF SlicePack, FinalRelations
<1>3. pack.roles \cap OwnedRoles(cat, args.base) = {}
  BY DEF SlicePack
<1>4. pack.entities \cap OwnedEntities(cat, args.base) = {}
  BY DEF SlicePack
<1>5. pack.edges \cap OwnedEdges(cat, args.base) = {}
  BY DEF SlicePack
<1> QED
  BY <1>1, <1>2, <1>3, <1>4, <1>5 DEF Disjoint

(* What a slice leaves out, the lineage of its base declares. *)
LEMMA SlicePackResolves ==
    ASSUME NEW d \in Donors, NEW args \in SliceArgs, NEW cat
    PROVE  LET pack == SlicePack(d, args, cat)
           IN  Resolves(pack, pack.roles \cup OwnedRoles(cat, args.base),
                              pack.entities \cup OwnedEntities(cat, args.base))
<1> DEFINE pack == SlicePack(d, args, cat)
           final == FinalRelations(d, args, cat)
           kept == {c \in ConstraintsOn(d, final) : c.module \in args.approved}
           seeds == {c.type : c \in kept}
           types == TypeClosure(d, seeds)
           roles == pack.roles \cup OwnedRoles(cat, args.base)
           entities == pack.entities \cup OwnedEntities(cat, args.base)
<1>1. /\ pack.preds = {r.id : r \in final}
      /\ pack.roles = {n \in Positions : \E r \in final : n <= r.arity}
                          \ OwnedRoles(cat, args.base)
      /\ pack.entities = types \ OwnedEntities(cat, args.base)
      /\ pack.edges \subseteq EdgesWithin(d, types)
      /\ pack.slots = UNION {{<<r.id, n>> : n \in 1..r.arity} : r \in final}
      /\ pack.constraints = {<<c.rel, c.pos, c.type>> : c \in kept}
  BY DEF SlicePack
<1>2. /\ final \subseteq d.rels /\ \A r \in final : ~r.fn
      /\ kept \subseteq d.cons /\ \A c \in kept : \E r \in final : r.id = c.rel
  BY DEF FinalRelations, ConstraintsOn
<1>3. /\ d.rels \subseteq [id : Terms, arity : Positions, module : Modules, fn : BOOLEAN]
      /\ d.cons \subseteq [rel : Terms, pos : Nat, type : Types, module : Modules]
  BY DonorFields
<1>4. seeds \in SUBSET Types
  BY <1>2, <1>3
<1>5. seeds \subseteq types /\ EdgesWithin(d, types) \subseteq types \X types
  BY <1>4, ClosureTyped
<1>6. types \subseteq entities
  BY <1>1
<1>7. ASSUME NEW r \in final, NEW n \in 1..r.arity
      PROVE  <<r.id, n>> \in pack.slots /\ r.id \in pack.preds /\ n \in roles
  <2>1. n \in Positions /\ n <= r.arity
    BY <1>2, <1>3, PackConstants DEF Positions
  <2> QED
    BY <1>1, <2>1
<1>8. pack.slots \subseteq pack.preds \X roles
  BY <1>1, <1>7
<1>9. ASSUME NEW c \in pack.constraints
      PROVE  <<c[1], c[2]>> \in pack.slots /\ c[3] \in entities
  <2>1. PICK row \in kept : c = <<row.rel, row.pos, row.type>>
    BY <1>1
  <2>2. PICK r \in final : r.id = row.rel
    BY <1>2
  <2>3. row.pos \in 1..r.arity
    BY <1>2, <2>2, PackConstants DEF PositionsDeclared
  <2>4. <<row.rel, row.pos>> \in pack.slots
    BY <1>7, <2>2, <2>3
  <2>5. row.type \in entities
    BY <1>5, <1>6
  <2> QED
    BY <2>1, <2>4, <2>5
<1>10. pack.edges \subseteq entities \X entities
  BY <1>1, <1>5, <1>6
<1> QED
  BY <1>8, <1>9, <1>10 DEF Resolves

LEMMA ViewPackFits ==
    /\ ViewPack \in Pack /\ ViewPack.base = NoBase
    /\ Resolves(ViewPack, ViewPack.roles, ViewPack.entities)
BY DEF ViewPack, Pack, Resolves

(***************************************************************************)
(* The inductive invariant.  The properties of published packs hold of a   *)
(* pack from the moment it is staged, with respect to a lineage that is    *)
(* published already and therefore fixed; and what a base build has read   *)
(* so far are donors whose roles are labelled.                             *)
(***************************************************************************)
StageFits(cat, pack) ==
    /\ pack \in Pack
    /\ pack.base = NoBase => Resolves(pack, pack.roles, pack.entities)
    /\ pack.base # NoBase =>
           /\ cat[pack.base] # NoPack
           /\ \A u \in Lineage(cat, pack.base) : Disjoint(cat[u], pack)
           /\ Resolves(pack, pack.roles \cup OwnedRoles(cat, pack.base),
                             pack.entities \cup OwnedEntities(cat, pack.base))

BuildFits(cat, state) ==
    /\ state.pc \in {"hierarchy", "digest", "provenance", "stage"} =>
           state.rows \in Donors /\ Labelled(RowSlots(state.rows))
    /\ state.pc \in {"digest", "provenance", "stage"} => state.hierarchy \in Donors
    /\ state.pc \in {"provenance", "stage"} /\ state.version # HistoricVersion =>
           state.digest \in Donors
    /\ SeenLabelled(state.seen)
    /\ state.pc = "relations" =>
           state.version \in DOMAIN Slices /\ cat[Slices[state.version].base] # NoPack
    /\ state.pc \in {"recheck", "rename"} => StageFits(cat, state.stage)

IInv ==
    /\ TypeOK
    /\ Grounded(packs)
    /\ NothingRedeclared
    /\ ReferencesResolve
    /\ \A b \in Builders : BuildFits(packs, build[b])

LEMMA BeginTyped ==
    ASSUME NEW v \in Versions, NEW pc \in Phases, NEW stage \in Pack \cup {NoPack}
    PROVE  /\ Begin(v, pc, stage) \in Build
           /\ Begin(v, pc, stage).pc = pc /\ Begin(v, pc, stage).version = v
           /\ Begin(v, pc, stage).stage = stage
           /\ SeenLabelled(Begin(v, pc, stage).seen)
<1>1. [p \in {} |-> Unread] \in Seen /\ DOMAIN [p \in {} |-> Unread] = {}
  <2>1. {} \in SUBSET Terms /\ [p \in {} |-> Unread] \in [{} -> Donors]
    OBVIOUS
  <2> QED
    BY <2>1 DEF Seen
<1> QED
  BY <1>1 DEF Begin, Build, Seen, SeenLabelled

LEMMA IdleFits == Idle \in Build /\ \A cat : BuildFits(cat, Idle)
<1>1. ViewVersion \in Versions /\ "idle" \in Phases
  BY DEF Versions, Phases
<1> QED
  BY <1>1, BeginTyped DEF Idle, BuildFits

LEMMA InitFits == Init => IInv
<1> SUFFICES ASSUME Init PROVE IInv
  OBVIOUS
<1>1. TypeOK
  BY IdleFits, PublishConstants DEF Init, TypeOK
<1>2. \A v \in Versions : packs[v] = NoPack
  BY DEF Init
<1>3. Grounded(packs) /\ NothingRedeclared /\ ReferencesResolve
  BY <1>2 DEF Grounded, NothingRedeclared, ReferencesResolve, Published
<1>4. \A b \in Builders : BuildFits(packs, build[b])
  BY IdleFits DEF Init
<1> QED
  BY <1>1, <1>3, <1>4 DEF IInv

(* A step that publishes nothing and leaves a build that fits. *)
LEMMA BuildStepFits ==
    ASSUME IInv, NEW b \in Builders, NEW state \in Build, BuildFits(packs, state),
           Become(b, state), UNCHANGED <<donor, packs>>
    PROVE  IInv'
<1>1. TypeOK'
  BY DEF IInv, TypeOK, Become
<1>2. Grounded(packs)' /\ NothingRedeclared' /\ ReferencesResolve'
  BY DEF IInv, Grounded, NothingRedeclared, ReferencesResolve, Published
<1>3. \A c \in Builders : BuildFits(packs, build[c])'
  BY DEF IInv, TypeOK, Become, BuildFits
<1> QED
  BY <1>1, <1>2, <1>3 DEF IInv

LEMMA StopFits ==
    ASSUME IInv, NEW b \in Builders, Stop(b)
    PROVE  IInv'
BY IdleFits, BuildStepFits DEF Stop

LEMMA BaseStepFits ==
    ASSUME IInv, NEW b \in Builders, BaseStep(b)
    PROVE  IInv'
<1> USE DEF IInv
<1>1. /\ donor \in Donors /\ build[b] \in Build /\ BuildFits(packs, build[b])
      /\ BaseVersions \subseteq Versions
  BY DEF TypeOK, Versions
<1>2. ASSUME NEW v \in BaseVersions, StartBase(b, v) PROVE IInv'
  <2>1. v \in Versions /\ "rows" \in Phases
    BY <1>1 DEF Phases
  <2>2. Begin(v, "rows", NoPack) \in Build /\ BuildFits(packs, Begin(v, "rows", NoPack))
    BY <2>1, BeginTyped DEF BuildFits
  <2> QED
    BY <1>2, <2>2, BuildStepFits DEF StartBase
<1>3. CASE ReadRows(b)
  <2> DEFINE state == [build[b] EXCEPT !.pc = "hierarchy", !.rows = donor]
  <2>1. state \in Build
    BY <1>1 DEF Build, Phases
  <2>2. BuildFits(packs, state)
    BY <1>1, <1>3 DEF BuildFits, ReadRows, Build
  <2> QED
    BY <1>3, <2>1, <2>2, BuildStepFits DEF ReadRows
<1>4. CASE ReadHierarchy(b)
  <2> DEFINE state == [build[b] EXCEPT
                 !.pc = IF build[b].version = HistoricVersion THEN "stage" ELSE "digest",
                 !.hierarchy = donor]
  <2>1. state \in Build
    BY <1>1 DEF Build, Phases
  <2>2. BuildFits(packs, state)
    BY <1>1, <1>4 DEF BuildFits, ReadHierarchy, At, Build
  <2> QED
    BY <1>4, <2>1, <2>2, BuildStepFits DEF ReadHierarchy
<1>5. CASE ReadDigest(b)
  <2> DEFINE state == [build[b] EXCEPT !.pc = "provenance", !.digest = donor]
  <2>1. state \in Build
    BY <1>1 DEF Build, Phases
  <2>2. BuildFits(packs, state)
    BY <1>1, <1>5 DEF BuildFits, ReadDigest, At, Build
  <2> QED
    BY <1>5, <2>1, <2>2, BuildStepFits DEF ReadDigest
<1>6. ASSUME NEW p \in Terms, ReadProvenance(b, p) PROVE IInv'
  <2> DEFINE seen == [q \in DOMAIN build[b].seen \cup {p} |->
                         IF q = p THEN donor ELSE build[b].seen[q]]
             state == [build[b] EXCEPT !.seen = seen]
  <2>1. build[b].seen \in Seen
    BY <1>1 DEF Build, Seen
  <2>2. DOMAIN seen \in SUBSET Terms /\ seen \in [DOMAIN seen -> Donors]
    BY <1>1, <2>1 DEF Seen
  <2>3. seen \in Seen
    BY <2>2 DEF Seen
  <2>4. SeenLabelled(seen)
    BY <1>1, <1>6 DEF BuildFits, SeenLabelled, ReadProvenance
  <2>5. state \in Build
    BY <1>1, <2>3 DEF Build, Seen
  <2>6. BuildFits(packs, state)
    BY <1>1, <1>6, <2>4 DEF BuildFits, ReadProvenance, At, Build
  <2> QED
    BY <1>6, <2>5, <2>6, BuildStepFits DEF ReadProvenance
<1>7. CASE AllTraced(b)
  <2> DEFINE state == [build[b] EXCEPT !.pc = "stage"]
  <2>1. state \in Build
    BY <1>1 DEF Build, Phases
  <2>2. BuildFits(packs, state)
    BY <1>1, <1>7 DEF BuildFits, AllTraced, At, Build
  <2> QED
    BY <1>7, <2>1, <2>2, BuildStepFits DEF AllTraced
<1>8. CASE Stage(b)
  <2> DEFINE v == build[b].version
             state == Begin(v, "recheck", Staged(b))
  <2>1. /\ v \in Versions /\ build[b].seen \in Seen /\ SeenLabelled(build[b].seen)
        /\ build[b].rows \in Donors /\ Labelled(RowSlots(build[b].rows))
        /\ build[b].hierarchy \in Donors
        /\ v # HistoricVersion => build[b].digest \in Donors
    BY <1>1, <1>8 DEF Build, Seen, BuildFits, Stage, At
  <2>2. Staged(b) \in Pack /\ Staged(b).base = NoBase
    BY <2>1, BasePackTyped DEF Staged
  <2>3. Resolves(Staged(b), Staged(b).roles, Staged(b).entities)
    BY <2>1, BasePackResolves DEF Staged
  <2>4. StageFits(packs, Staged(b))
    BY <2>2, <2>3 DEF StageFits
  <2>5. state \in Build /\ BuildFits(packs, state)
    BY <2>1, <2>2, <2>4, BeginTyped DEF BuildFits, Phases
  <2> QED
    BY <1>8, <2>5, BuildStepFits DEF Stage
<1>9. CASE BlankLabel(b) \/ (\E p \in Terms : UnknownPredicate(b, p)) \/ Invalid(b)
  BY <1>9, StopFits DEF BlankLabel, UnknownPredicate, Invalid
<1> QED
  BY <1>2, <1>3, <1>4, <1>5, <1>6, <1>7, <1>8, <1>9 DEF BaseStep

LEMMA SliceStepFits ==
    ASSUME IInv, NEW b \in Builders, SliceStep(b)
    PROVE  IInv'
<1> USE DEF IInv
<1>1. /\ donor \in Donors /\ build[b] \in Build /\ BuildFits(packs, build[b])
      /\ DOMAIN Slices \subseteq Versions
      /\ \A v \in DOMAIN Slices : Slices[v] \in SliceArgs
  BY PackConstants DEF TypeOK, Versions
<1>2. ASSUME NEW v \in DOMAIN Slices, StartSlice(b, v) PROVE IInv'
  <2>1. v \in Versions /\ "relations" \in Phases
    BY <1>1 DEF Phases
  <2>2. Begin(v, "relations", NoPack) \in Build
        /\ BuildFits(packs, Begin(v, "relations", NoPack))
    BY <1>2, <2>1, BeginTyped DEF BuildFits, StartSlice
  <2> QED
    BY <1>2, <2>2, BuildStepFits DEF StartSlice
<1>3. CASE CompileSlice(b)
  <2> DEFINE v == build[b].version
             pack == SlicePack(donor, Slices[v], packs)
             state == Begin(v, "recheck", pack)
  <2>1. v \in DOMAIN Slices /\ packs[Slices[v].base] # NoPack
    BY <1>1, <1>3 DEF CompileSlice, At, BuildFits
  <2>2. Slices[v] \in SliceArgs
    BY <1>1, <2>1
  <2>3. pack \in Pack /\ pack.base = Slices[v].base /\ pack.base # NoBase
    BY <1>1, <2>2, SlicePackTyped
  <2>4. \A u \in Lineage(packs, pack.base) : Disjoint(packs[u], pack)
    BY <1>1, <2>2, <2>3, SlicePackDisjoint
  <2>5. Resolves(pack, pack.roles \cup OwnedRoles(packs, pack.base),
                       pack.entities \cup OwnedEntities(packs, pack.base))
    BY <1>1, <2>2, <2>3, SlicePackResolves
  <2>6. StageFits(packs, pack)
    BY <2>1, <2>3, <2>4, <2>5 DEF StageFits
  <2>7. state \in Build /\ BuildFits(packs, state)
    BY <1>1, <2>1, <2>3, <2>6, BeginTyped DEF BuildFits, Phases
  <2> QED
    BY <1>3, <2>7, BuildStepFits DEF CompileSlice
<1>4. CASE Unaccounted(b)
  BY <1>4, StopFits DEF Unaccounted
<1> QED
  BY <1>2, <1>3, <1>4 DEF SliceStep

LEMMA StartViewFits ==
    ASSUME IInv, NEW b \in Builders, StartView(b)
    PROVE  IInv'
<1>1. ViewVersion \in Versions /\ "rename" \in Phases
  BY DEF Versions, Phases
<1>2. StageFits(packs, ViewPack)
  BY ViewPackFits DEF StageFits
<1>3. Begin(ViewVersion, "rename", ViewPack) \in Build
      /\ BuildFits(packs, Begin(ViewVersion, "rename", ViewPack))
  BY <1>1, <1>2, BeginTyped, ViewPackFits DEF BuildFits
<1> QED
  BY <1>3, BuildStepFits DEF StartView

LEMMA RecheckFits ==
    ASSUME IInv, NEW b \in Builders, Recheck(b)
    PROVE  IInv'
<1> DEFINE state == [build[b] EXCEPT !.pc = "rename"]
<1>1. build[b] \in Build /\ BuildFits(packs, build[b]) /\ build[b].pc = "recheck"
  BY DEF IInv, TypeOK, Recheck, At
<1>2. state \in Build /\ BuildFits(packs, state)
  BY <1>1 DEF Build, Phases, BuildFits
<1> QED
  BY <1>2, BuildStepFits DEF Recheck

(***************************************************************************)
(* The rename adds a pack over a lineage that it leaves as it was.         *)
(***************************************************************************)
Adds(cat, new, v, pack) == new[v] = pack /\ \A u \in Versions : u # v => new[u] = cat[u]

LineagesKept(cat, new) ==
    \A w \in Versions : cat[w] # NoPack =>
        /\ Lineage(new, w) = Lineage(cat, w)
        /\ \A u \in Lineage(cat, w) : new[u] = cat[u]
        /\ OwnedRoles(new, w) = OwnedRoles(cat, w)
        /\ OwnedEntities(new, w) = OwnedEntities(cat, w)

LEMMA PublicationFits ==
    ASSUME NEW cat, Grounded(cat), NEW v \in Versions, cat[v] = NoPack,
           NEW pack, StageFits(cat, pack), NEW new, Adds(cat, new, v, pack)
    PROVE  Grounded(new) /\ LineagesKept(cat, new)
<1>1. pack \in Pack /\ pack # NoPack /\ pack.base \in Versions \cup {NoBase}
  BY PackConstants DEF StageFits, Pack
<1>2. new[v] = pack /\ \A u \in Versions : u # v => new[u] = cat[u]
  BY DEF Adds
<1>3. pack.base # NoBase => cat[pack.base] # NoPack
  BY DEF StageFits
<1>4. ASSUME NEW w \in Versions, new[w] # NoPack, new[w].base # NoBase
      PROVE  new[w].base \in Versions /\ new[new[w].base] # NoPack
  <2>1. CASE w = v
    BY <1>1, <1>2, <1>3, <1>4, <2>1
  <2>2. CASE w # v
    <3>1. new[w] = cat[w]
      BY <1>2, <2>2
    <3>2. cat[w].base \in Versions /\ cat[cat[w].base] # NoPack
      BY <1>4, <3>1 DEF Grounded
    <3>3. cat[w].base # v
      BY <3>2
    <3> QED
      BY <1>2, <3>1, <3>2, <3>3
  <2> QED
    BY <2>1, <2>2
<1>5. Grounded(new)
  BY <1>4 DEF Grounded
<1>6. Grown(cat, new)
  BY <1>2 DEF Grown
<1>7. ASSUME NEW w \in Versions, cat[w] # NoPack
      PROVE  /\ Lineage(new, w) = Lineage(cat, w)
             /\ \A u \in Lineage(cat, w) : new[u] = cat[u]
             /\ OwnedRoles(new, w) = OwnedRoles(cat, w)
             /\ OwnedEntities(new, w) = OwnedEntities(cat, w)
  <2>1. /\ \A u \in Lineage(cat, w) : new[u] = cat[u]
        /\ Lineage(new, w) = Lineage(cat, w)
    BY <1>5, <1>6, <1>7, LineageKept, Zenon
  <2>2. {new[u].roles : u \in Lineage(cat, w)} = {cat[u].roles : u \in Lineage(cat, w)}
    BY <2>1
  <2>3. {new[u].entities : u \in Lineage(cat, w)} = {cat[u].entities : u \in Lineage(cat, w)}
    BY <2>1
  <2> QED
    BY <2>1, <2>2, <2>3 DEF OwnedRoles, OwnedEntities
<1> QED
  BY <1>5, <1>7 DEF LineagesKept

LEMMA RenameFits ==
    ASSUME IInv, NEW b \in Builders, Rename(b)
    PROVE  IInv'
<1> DEFINE v == build[b].version
           pack == build[b].stage
<1>1. /\ packs \in [Versions -> Pack \cup {NoPack}] /\ Grounded(packs)
      /\ v \in Versions /\ packs[v] = NoPack
      /\ StageFits(packs, pack)
      /\ packs' = [packs EXCEPT ![v] = pack]
  BY DEF IInv, TypeOK, Rename, At, Build, BuildFits
<1>2. /\ packs' \in [Versions -> Pack \cup {NoPack}] /\ Grounded(packs')
      /\ \A w \in Versions : packs[w] # NoPack =>
             /\ Lineage(packs', w) = Lineage(packs, w)
             /\ \A u \in Lineage(packs, w) : packs'[u] = packs[u]
             /\ OwnedRoles(packs', w) = OwnedRoles(packs, w)
             /\ OwnedEntities(packs', w) = OwnedEntities(packs, w)
  <2>1. packs' \in [Versions -> Pack \cup {NoPack}] /\ Adds(packs, packs', v, pack)
    BY <1>1 DEF StageFits, Adds
  <2>2. Grounded(packs) /\ v \in Versions /\ packs[v] = NoPack /\ StageFits(packs, pack)
    BY <1>1
  <2>3. Grounded(packs') /\ LineagesKept(packs, packs')
    <3> HIDE DEF v, pack
    <3> QED
      BY <2>1, <2>2, PublicationFits, Zenon
  <2> QED
    BY <2>1, <2>3 DEF LineagesKept
<1>3. /\ pack \in Pack /\ pack # NoPack /\ pack.base \in Versions \cup {NoBase}
      /\ packs'[v] = pack
      /\ \A w \in Versions : w # v => packs'[w] = packs[w]
  BY <1>1, PackConstants DEF StageFits, Pack
<1>4. /\ pack.base = NoBase => Lineage(packs', v) = {v}
      /\ pack.base # NoBase => Lineage(packs', v) = {v} \cup Lineage(packs, pack.base)
      /\ pack.base # NoBase => packs[pack.base] # NoPack
  <2>1. /\ pack.base = NoBase => Lineage(packs', v) = {v}
        /\ pack.base # NoBase => Lineage(packs', v) = {v} \cup Lineage(packs', pack.base)
    <3> PICK new : new = packs'
      OBVIOUS
    <3>1. Grounded(new) /\ new[v] = pack /\ new[v] # NoPack /\ v \in Versions
      BY <1>1, <1>2, <1>3
    <3> HIDE DEF v, pack
    <3> QED
      BY <3>1, LineageOfNew
  <2>2. pack.base # NoBase => packs[pack.base] # NoPack
    BY <1>1 DEF StageFits
  <2> QED
    BY <1>2, <1>3, <2>1, <2>2
<1>5. TypeOK'
  BY <1>2, IdleFits DEF IInv, TypeOK, Rename, Become
<1>6. ASSUME NEW w \in Versions, packs'[w] # NoPack, NEW u \in Lineage(packs', w) \ {w}
      PROVE  Disjoint(packs'[u], packs'[w])
  <2>1. CASE w = v
    <3>1. pack.base # NoBase /\ u \in Lineage(packs, pack.base)
      BY <1>4, <1>6, <2>1
    <3>2. Disjoint(packs[u], pack)
      BY <1>1, <3>1 DEF StageFits
    <3>3. packs'[u] = packs[u]
      BY <1>2, <1>3, <1>4, <3>1
    <3> QED
      BY <1>3, <2>1, <3>2, <3>3
  <2>2. CASE w # v
    <3>1. packs[w] = packs'[w] /\ packs[w] # NoPack
      BY <1>3, <1>6, <2>2
    <3>2. u \in Lineage(packs, w) \ {w} /\ packs'[u] = packs[u]
      BY <1>2, <1>6, <3>1
    <3> QED
      BY <3>1, <3>2 DEF IInv, NothingRedeclared, Published
  <2> QED
    BY <2>1, <2>2
<1>7. NothingRedeclared'
  BY <1>6 DEF NothingRedeclared, Published
<1>8. ASSUME NEW w \in Versions, packs'[w] # NoPack
      PROVE  Resolves(packs'[w], OwnedRoles(packs', w), OwnedEntities(packs', w))
  <2>1. CASE w = v /\ pack.base = NoBase
    <3>1. /\ OwnedRoles(packs', v) = pack.roles
          /\ OwnedEntities(packs', v) = pack.entities
      BY <1>3, <1>4, <2>1 DEF OwnedRoles, OwnedEntities
    <3> QED
      BY <1>1, <1>3, <2>1, <3>1 DEF StageFits
  <2>2. CASE w = v /\ pack.base # NoBase
    <3>1. \A u \in Lineage(packs, pack.base) : packs'[u] = packs[u]
      BY <1>2, <1>3, <1>4, <2>2
    <3>2. /\ OwnedRoles(packs', v) = pack.roles \cup OwnedRoles(packs, pack.base)
          /\ OwnedEntities(packs', v) = pack.entities \cup OwnedEntities(packs, pack.base)
      BY <1>3, <1>4, <2>2, <3>1 DEF OwnedRoles, OwnedEntities
    <3> QED
      BY <1>1, <1>3, <2>2, <3>2 DEF StageFits
  <2>3. CASE w # v
    <3>1. packs'[w] = packs[w] /\ packs[w] # NoPack
      BY <1>3, <1>8, <2>3
    <3> QED
      BY <1>2, <3>1 DEF IInv, ReferencesResolve, Published
  <2> QED
    BY <2>1, <2>2, <2>3
<1>9. ReferencesResolve'
  BY <1>8 DEF ReferencesResolve, Published
<1>10. ASSUME NEW c \in Builders PROVE BuildFits(packs', build'[c])
  <2>1. CASE c = b
    BY <2>1, IdleFits DEF IInv, TypeOK, Rename, Become
  <2>2. CASE c # b
    <3>1. build'[c] = build[c] /\ build[c] \in Build /\ BuildFits(packs, build[c])
      BY <2>2 DEF IInv, TypeOK, Rename, Become
    <3>2. ASSUME build[c].pc = "relations"
          PROVE  packs'[Slices[build[c].version].base] # NoPack
      <4>1. /\ build[c].version \in DOMAIN Slices
            /\ packs[Slices[build[c].version].base] # NoPack
        BY <3>1, <3>2 DEF BuildFits
      <4>2. Slices[build[c].version].base \in Versions
        BY <4>1, PackConstants DEF SliceArgs
      <4> QED
        BY <1>1, <1>3, <4>1, <4>2
    <3>3. ASSUME NEW stage, StageFits(packs, stage) PROVE StageFits(packs', stage)
      <4>1. CASE stage.base = NoBase
        BY <3>3, <4>1 DEF StageFits
      <4>2. CASE stage.base # NoBase
        <5>1. stage.base \in Versions /\ packs[stage.base] # NoPack
          BY <3>3, <4>2 DEF StageFits, Pack
        <5>2. packs'[stage.base] # NoPack
          BY <1>1, <1>3, <5>1
        <5> QED
          BY <1>2, <3>3, <5>1, <5>2 DEF StageFits
      <4> QED
        BY <4>1, <4>2
    <3> QED
      BY <3>1, <3>2, <3>3 DEF BuildFits
  <2> QED
    BY <2>1, <2>2
<1> QED
  BY <1>2, <1>5, <1>7, <1>9, <1>10 DEF IInv

LEMMA StepFits == IInv /\ [Next]_vars => IInv'
<1> SUFFICES ASSUME IInv, [Next]_vars PROVE IInv'
  OBVIOUS
<1>1. CASE UNCHANGED vars
  BY <1>1 DEF vars, IInv, TypeOK, Grounded, NothingRedeclared, ReferencesResolve, Published,
     BuildFits
<1>2. ASSUME NEW d \in Donors, DonorReplaced(d) PROVE IInv'
  <2>1. TypeOK'
    BY <1>2 DEF DonorReplaced, IInv, TypeOK
  <2> QED
    BY <1>2, <2>1 DEF DonorReplaced, IInv, Grounded, NothingRedeclared, ReferencesResolve,
       Published, BuildFits
<1>3. ASSUME NEW b \in Builders, BaseStep(b) \/ SliceStep(b) \/ StartView(b) PROVE IInv'
  BY <1>3, BaseStepFits, SliceStepFits, StartViewFits
<1>4. ASSUME NEW b \in Builders, PublishStep(b) PROVE IInv'
  BY <1>4, RecheckFits, RenameFits, StopFits DEF PublishStep, Appeared, RenameFails
<1>5. ASSUME NEW b \in Builders, Crash(b) PROVE IInv'
  BY <1>5, StopFits DEF Crash
<1> QED
  BY <1>1, <1>2, <1>3, <1>4, <1>5 DEF Next

THEOREM PublishInvariant == Spec => []IInv
BY InitFits, StepFits, PTL DEF Spec

(* The directory holds packs, and a build what it has read. *)
THEOREM PublishTypeCorrect == Spec => []TypeOK
BY PublishInvariant, PTL DEF IInv

(* No two packs of a lineage declare the same predicate, role, type or     *)
(* hierarchy edge, whatever donors and dispositions they were built from.  *)
THEOREM LineagesNeverRedeclare == Spec => []NothingRedeclared
BY PublishInvariant, PTL DEF IInv

(* Every reference of a published pack resolves within its lineage. *)
THEOREM LineagesResolve == Spec => []ReferencesResolve
BY PublishInvariant, PTL DEF IInv

(***************************************************************************)
(* The directory of packs is a catalogue.                                  *)
(***************************************************************************)
LEMMA CatalogueStep ==
    ASSUME IInv, [Next]_vars
    PROVE  [Catalogue!Next]_packs
<1>1. ASSUME NEW b \in Builders, Rename(b) PROVE Catalogue!Next
  <2> DEFINE v == build[b].version
             pack == build[b].stage
  <2>1. /\ v \in Versions /\ packs[v] = NoPack
        /\ StageFits(packs, pack)
        /\ packs' = [packs EXCEPT ![v] = pack]
        /\ packs \in [Versions -> Pack \cup {NoPack}]
    BY <1>1 DEF IInv, TypeOK, Rename, At, Build, BuildFits
  <2>2. packs'[v] = pack /\ pack \in Pack
    BY <2>1 DEF StageFits
  <2>3. pack.base # NoBase => packs[pack.base] # NoPack
    BY <2>1 DEF StageFits
  <2>4. Catalogue!Publish(v)
    BY <2>1, <2>2, <2>3 DEF Catalogue!Publish
  <2> QED
    BY <2>1, <2>4 DEF Catalogue!Next
<1>2. ASSUME NEW b \in Builders,
             BaseStep(b) \/ SliceStep(b) \/ StartView(b) \/ Recheck(b) \/ Appeared(b)
                 \/ RenameFails(b) \/ Crash(b)
      PROVE  UNCHANGED packs
  BY <1>2 DEF BaseStep, SliceStep, StartView, Recheck, Appeared, RenameFails, Crash, Stop,
     StartBase, ReadRows, BlankLabel, ReadHierarchy, ReadDigest, ReadProvenance,
     UnknownPredicate, AllTraced, Stage, Invalid, StartSlice, CompileSlice, Unaccounted
<1> QED
  BY <1>1, <1>2 DEF Next, PublishStep, DonorReplaced, vars

(* Publication implements the write-once catalogue. *)
THEOREM PublishKeepsCatalogue == Spec => CatalogueKept
<1>1. Init => Catalogue!Init
  BY DEF Init, Catalogue!Init
<1>2. Catalogue!Spec <=> Catalogue!Init /\ [][Catalogue!Next]_packs
  BY DEF Catalogue!Spec
<1> QED
  BY <1>1, <1>2, CatalogueStep, PublishInvariant, PTL DEF Spec, CatalogueKept

(***************************************************************************)
(* Releases.                                                               *)
(***************************************************************************)

(* The three compilers are given versions of their own.                    *)
VersionsApart == BaseVersions \cap (DOMAIN Slices \cup {ViewVersion}) = {}

(* What is published, or waits to be, under a version of the base compiler *)
(* has been validated; slices are made under versions of slices.           *)
ReleasesValidated ==
    /\ \A v \in Published \cap BaseVersions : Validated(v, packs[v])
    /\ \A b \in Builders :
           /\ At(b, "relations") => build[b].version \in DOMAIN Slices
           /\ build[b].pc \in {"recheck", "rename"} /\ build[b].version \in BaseVersions =>
                  Validated(build[b].version, build[b].stage)

LEMMA ReleasesNext ==
    VersionsApart /\ TypeOK /\ ReleasesValidated /\ [Next]_vars => ReleasesValidated'
<1> SUFFICES ASSUME VersionsApart, TypeOK, ReleasesValidated, [Next]_vars
             PROVE  ReleasesValidated'
  OBVIOUS
<1> DEFINE BuildOf(state) ==
      /\ state.pc = "relations" => state.version \in DOMAIN Slices
      /\ state.pc \in {"recheck", "rename"} /\ state.version \in BaseVersions =>
             Validated(state.version, state.stage)
<1>a. \A b \in Builders : BuildOf(build[b])
  BY DEF ReleasesValidated, At
<1>1. ASSUME NEW b \in Builders, NEW state, Become(b, state), BuildOf(state)
      PROVE  \A o \in Builders : BuildOf(build[o])'
  <2>1. build'[b] = state /\ \A o \in Builders \ {b} : build'[o] = build[o]
    BY <1>1 DEF Become, TypeOK
  <2> QED
    BY <1>a, <1>1, <2>1
<1>2. ASSUME UNCHANGED packs, \A o \in Builders : BuildOf(build[o])'
      PROVE  ReleasesValidated'
  BY <1>2 DEF ReleasesValidated, Published, At
<1>3. ASSUME NEW b \in Builders, NEW state, Become(b, state), BuildOf(state), UNCHANGED packs
      PROVE  ReleasesValidated'
  BY <1>1, <1>2, <1>3
<1>4. BuildOf(Idle)
  BY DEF Idle, Begin
<1>5. ASSUME NEW b \in Builders, Stop(b)
      PROVE  ReleasesValidated'
  BY <1>3, <1>4, <1>5 DEF Stop
<1>6. ASSUME NEW b \in Builders, BaseStep(b)
      PROVE  ReleasesValidated'
  <2>1. build[b] \in Build
    BY DEF TypeOK
  <2>2. ASSUME NEW v \in BaseVersions, StartBase(b, v)
        PROVE  ReleasesValidated'
    <3>1. BuildOf(Begin(v, "rows", NoPack))
      BY DEF Begin
    <3> HIDE DEF BuildOf
    <3> QED
      BY <1>3, <2>2, <3>1 DEF StartBase
  <2>3. ASSUME NEW state, Become(b, state), UNCHANGED packs,
               state.pc \in {"hierarchy", "stage", "digest", "provenance"}
        PROVE  ReleasesValidated'
    BY <1>3, <2>3
  <2>4. ASSUME ReadRows(b) \/ ReadHierarchy(b) \/ ReadDigest(b) \/ AllTraced(b)
        PROVE  ReleasesValidated'
    BY <2>1, <2>3, <2>4 DEF ReadRows, ReadHierarchy, ReadDigest, AllTraced, Build
  <2>5. ASSUME NEW p \in Terms, ReadProvenance(b, p)
        PROVE  ReleasesValidated'
    <3> DEFINE seen == [q \in DOMAIN build[b].seen \cup {p} |->
                           IF q = p THEN donor ELSE build[b].seen[q]]
               state == [build[b] EXCEPT !.seen = seen]
    <3>1. Become(b, state) /\ UNCHANGED packs /\ build[b].pc = "provenance"
      BY <2>5 DEF ReadProvenance, At
    <3> HIDE DEF seen
    <3>2. state.pc = "provenance"
      BY <2>1, <3>1 DEF Build
    <3> HIDE DEF state
    <3> QED
      BY <2>3, <3>1, <3>2
  <2>6. ASSUME Stage(b)
        PROVE  ReleasesValidated'
    <3>1. BuildOf(Begin(build[b].version, "recheck", Staged(b)))
      BY <2>6 DEF Stage, Begin
    <3> HIDE DEF BuildOf
    <3> QED
      BY <1>3, <2>6, <3>1 DEF Stage
  <2> QED
    BY <1>5, <1>6, <2>2, <2>4, <2>5, <2>6
       DEF BaseStep, BlankLabel, UnknownPredicate, Invalid
<1>7. ASSUME NEW b \in Builders, SliceStep(b)
      PROVE  ReleasesValidated'
  <2>1. ASSUME NEW v \in DOMAIN Slices, StartSlice(b, v)
        PROVE  ReleasesValidated'
    <3>1. BuildOf(Begin(v, "relations", NoPack))
      BY DEF Begin
    <3> HIDE DEF BuildOf
    <3> QED
      BY <1>3, <2>1, <3>1 DEF StartSlice
  <2>2. ASSUME CompileSlice(b)
        PROVE  ReleasesValidated'
    <3> DEFINE state == Begin(build[b].version, "recheck",
                              SlicePack(donor, Slices[build[b].version], packs))
    <3>1. build[b].version \in DOMAIN Slices
      BY <1>a, <2>2 DEF CompileSlice, At
    <3>2. state.version \notin BaseVersions /\ state.pc = "recheck"
      BY <3>1 DEF VersionsApart, Begin
    <3>3. BuildOf(state)
      BY <3>2
    <3> HIDE DEF BuildOf
    <3> QED
      BY <1>3, <2>2, <3>3 DEF CompileSlice
  <2> QED
    BY <1>5, <1>7, <2>1, <2>2 DEF SliceStep, Unaccounted
<1>8. ASSUME NEW b \in Builders, StartView(b)
      PROVE  ReleasesValidated'
  <2>1. BuildOf(Begin(ViewVersion, "rename", ViewPack))
    BY DEF Begin, VersionsApart
  <2> HIDE DEF BuildOf
  <2> QED
    BY <1>3, <1>8, <2>1 DEF StartView
<1>9. ASSUME NEW b \in Builders, Recheck(b)
      PROVE  ReleasesValidated'
  <2> DEFINE state == [build[b] EXCEPT !.pc = "rename"]
  <2>1. BuildOf(state)
    BY <1>a, <1>9 DEF Recheck, At, TypeOK, Build
  <2> HIDE DEF BuildOf
  <2> QED
    BY <1>3, <1>9, <2>1 DEF Recheck
<1>10. ASSUME NEW b \in Builders, Rename(b)
       PROVE  ReleasesValidated'
  <2>1. \A o \in Builders : BuildOf(build[o])'
    BY <1>1, <1>4, <1>10 DEF Rename
  <2>2. ASSUME NEW v \in Published' \cap BaseVersions
        PROVE  Validated(v, packs'[v])
    <3>1. v # build[b].version => v \in Published /\ packs'[v] = packs[v]
      BY <1>10, <2>2 DEF Rename, TypeOK, Published
    <3>2. v = build[b].version => packs'[v] = build[b].stage
      BY <1>10, <2>2 DEF Rename, TypeOK, Published
    <3>3. v = build[b].version => Validated(v, build[b].stage)
      BY <1>a, <1>10 DEF Rename, At
    <3> QED
      BY <3>1, <3>2, <3>3 DEF ReleasesValidated
  <2> QED
    BY <2>1, <2>2 DEF ReleasesValidated, At, Validated, ProvenanceCovers, ConstrainedTypes
<1>11. ASSUME NEW d \in Donors, DonorReplaced(d)
       PROVE  ReleasesValidated'
  BY <1>a, <1>2, <1>11 DEF DonorReplaced
<1>12. CASE UNCHANGED vars
  BY <1>a, <1>2, <1>12 DEF vars
<1> QED
  BY <1>5, <1>6, <1>7, <1>8, <1>9, <1>10, <1>11, <1>12
     DEF Next, PublishStep, Appeared, RenameFails, Crash

(* A released version is rebuilt as it was, whatever the donor was at each *)
(* of the reads, when no slice or view is built under a version of the     *)
(* base compiler.                                                          *)
THEOREM ReleasesAreReproduced ==
    ASSUME VersionsApart
    PROVE  Spec => []ReleaseReproduced
<1>1. Init => ReleasesValidated
  BY DEF Init, ReleasesValidated, Published, At, Idle, Begin
<1>2. ReleasesValidated => ReleaseReproduced
  BY DEF ReleasesValidated, ReleaseReproduced, Validated, ProvenanceCovers
<1>3. TypeOK /\ ReleasesValidated /\ [Next]_vars => ReleasesValidated'
  BY ReleasesNext
<1> QED
  BY <1>1, <1>2, <1>3, PublishTypeCorrect, PTL DEF Spec

(***************************************************************************)
(* Digests.  The donor is replaced only while no build is under way.       *)
(***************************************************************************)
ReplacedBetweenBuilds ==
    [][donor' # donor => \A b \in Builders : At(b, "idle")]_vars

Successors == BaseVersions \ {HistoricVersion}

(* The pack has the rows of the donor that it names.                       *)
Named(pack) ==
    LET d == pack.digest
    IN  /\ pack.preds = d.preds
        /\ pack.constraints = {<<s.pred, s.role, s.type>> : s \in Typed(RowSlots(d))}

(* A build has read its rows, and then the digest, of the donor there is.  *)
BuildNames(state, d) ==
    /\ state.pc \in {"hierarchy", "digest", "provenance", "stage"} => state.rows = d
    /\ state.pc \in {"provenance", "stage"} /\ state.version # HistoricVersion => state.digest = d
    /\ state.pc = "relations" => state.version \in DOMAIN Slices
    /\ state.pc \in {"recheck", "rename"} /\ state.version \in Successors => Named(state.stage)

DigestInv ==
    /\ \A v \in Published \cap Successors : Named(packs[v])
    /\ \A b \in Builders : BuildNames(build[b], donor)

LEMMA StagedNamed ==
    ASSUME NEW b, NEW d, build[b].rows = d, build[b].digest = d, build[b].version # HistoricVersion
    PROVE  Named(Staged(b))
<1>1. /\ Staged(b).digest = d /\ Staged(b).preds = d.preds
      /\ Staged(b).constraints = {<<s.pred, s.role, s.type>> : s \in Typed(RowSlots(d))}
  BY DEF Staged, BasePack
<1> QED
  BY <1>1 DEF Named

LEMMA DigestNext ==
    ASSUME VersionsApart, TypeOK, DigestInv, [Next]_vars,
           donor' # donor => \A b \in Builders : At(b, "idle")
    PROVE  DigestInv'
<1>a. \A b \in Builders : BuildNames(build[b], donor)
  BY DEF DigestInv
<1>b. \A v \in Published \cap Successors : Named(packs[v])
  BY DEF DigestInv
<1>1. ASSUME NEW b \in Builders, NEW state, Become(b, state), BuildNames(state, donor), UNCHANGED donor
      PROVE  \A o \in Builders : BuildNames(build'[o], donor')
  <2>1. build'[b] = state /\ \A o \in Builders \ {b} : build'[o] = build[o]
    BY <1>1 DEF Become, TypeOK
  <2> QED
    BY <1>a, <1>1, <2>1
<1>2. ASSUME UNCHANGED packs, \A o \in Builders : BuildNames(build'[o], donor')
      PROVE  DigestInv'
  BY <1>b, <1>2 DEF DigestInv, Published
<1>3. ASSUME NEW b \in Builders, NEW state, Become(b, state), BuildNames(state, donor),
             UNCHANGED <<donor, packs>>
      PROVE  DigestInv'
  BY <1>1, <1>2, <1>3
<1>4. \A d : BuildNames(Idle, d)
  BY DEF Idle, Begin, BuildNames
<1>5. ASSUME NEW b \in Builders, Stop(b)
      PROVE  DigestInv'
  BY <1>3, <1>4, <1>5 DEF Stop
<1>6. ASSUME NEW b \in Builders, BaseStep(b)
      PROVE  DigestInv'
  <2>1. build[b] \in Build /\ BuildNames(build[b], donor)
    BY <1>a DEF TypeOK
  <2>2. ASSUME NEW v \in BaseVersions, StartBase(b, v)
        PROVE  DigestInv'
    <3>1. BuildNames(Begin(v, "rows", NoPack), donor)
      BY DEF Begin, BuildNames
    <3> QED
      BY <1>3, <2>2, <3>1 DEF StartBase
  <2>3. CASE ReadRows(b)
    <3> DEFINE state == [build[b] EXCEPT !.pc = "hierarchy", !.rows = donor]
    <3>1. state.pc = "hierarchy" /\ state.rows = donor
      BY <2>1 DEF Build
    <3> HIDE DEF state
    <3>2. BuildNames(state, donor)
      BY <3>1 DEF BuildNames
    <3> QED
      BY <1>3, <2>3, <3>2 DEF ReadRows, state
  <2>4. CASE ReadHierarchy(b)
    <3> DEFINE pc == IF build[b].version = HistoricVersion THEN "stage" ELSE "digest"
               state == [build[b] EXCEPT !.pc = pc, !.hierarchy = donor]
    <3>1. state.pc = pc /\ state.rows = donor /\ state.version = build[b].version
      BY <2>1, <2>4 DEF Build, BuildNames, ReadHierarchy, At
    <3> HIDE DEF state
    <3>2. BuildNames(state, donor)
      BY <3>1 DEF BuildNames
    <3> QED
      BY <1>3, <2>4, <3>2 DEF ReadHierarchy, state
  <2>5. CASE ReadDigest(b)
    <3> DEFINE state == [build[b] EXCEPT !.pc = "provenance", !.digest = donor]
    <3>1. state.pc = "provenance" /\ state.rows = donor /\ state.digest = donor
      BY <2>1, <2>5 DEF Build, BuildNames, ReadDigest, At
    <3> HIDE DEF state
    <3>2. BuildNames(state, donor)
      BY <3>1 DEF BuildNames
    <3> QED
      BY <1>3, <2>5, <3>2 DEF ReadDigest, state
  <2>6. ASSUME NEW p \in Terms, ReadProvenance(b, p)
        PROVE  DigestInv'
    <3> DEFINE seen == [q \in DOMAIN build[b].seen \cup {p} |->
                           IF q = p THEN donor ELSE build[b].seen[q]]
               state == [build[b] EXCEPT !.seen = seen]
    <3> HIDE DEF seen
    <3>1. /\ state.pc = build[b].pc /\ state.rows = build[b].rows /\ state.digest = build[b].digest
          /\ state.version = build[b].version /\ build[b].pc = "provenance"
      BY <2>1, <2>6 DEF Build, ReadProvenance, At
    <3>2. Become(b, state) /\ UNCHANGED <<donor, packs>>
      BY <2>6 DEF ReadProvenance, seen
    <3> HIDE DEF state
    <3>3. BuildNames(state, donor)
      BY <2>1, <3>1 DEF BuildNames
    <3> QED
      BY <1>3, <3>2, <3>3
  <2>7. CASE AllTraced(b)
    <3> DEFINE state == [build[b] EXCEPT !.pc = "stage"]
    <3>1. /\ state.pc = "stage" /\ state.rows = build[b].rows /\ state.digest = build[b].digest
          /\ state.version = build[b].version /\ build[b].pc = "provenance"
      BY <2>1, <2>7 DEF Build, AllTraced, At
    <3> HIDE DEF state
    <3>2. BuildNames(state, donor)
      BY <2>1, <3>1 DEF BuildNames
    <3> QED
      BY <1>3, <2>7, <3>2 DEF AllTraced, state
  <2>8. CASE Stage(b)
    <3> DEFINE state == Begin(build[b].version, "recheck", Staged(b))
    <3>1. /\ state.pc = "recheck" /\ state.version = build[b].version /\ state.stage = Staged(b)
          /\ build[b].pc = "stage"
      BY <2>8 DEF Begin, Stage, At
    <3>2. build[b].version # HistoricVersion => Named(Staged(b))
      BY <2>1, <3>1, StagedNamed DEF BuildNames
    <3> HIDE DEF state
    <3>3. BuildNames(state, donor)
      BY <3>1, <3>2 DEF BuildNames, Successors
    <3> QED
      BY <1>3, <2>8, <3>3 DEF Stage, state
  <2> QED
    BY <1>5, <1>6, <2>2, <2>3, <2>4, <2>5, <2>6, <2>7, <2>8
       DEF BaseStep, BlankLabel, UnknownPredicate, Invalid
<1>7. ASSUME NEW b \in Builders, SliceStep(b)
      PROVE  DigestInv'
  <2>1. ASSUME NEW v \in DOMAIN Slices, StartSlice(b, v)
        PROVE  DigestInv'
    <3>1. BuildNames(Begin(v, "relations", NoPack), donor)
      BY DEF Begin, BuildNames
    <3> QED
      BY <1>3, <2>1, <3>1 DEF StartSlice
  <2>2. ASSUME CompileSlice(b)
        PROVE  DigestInv'
    <3> DEFINE state == Begin(build[b].version, "recheck",
                              SlicePack(donor, Slices[build[b].version], packs))
    <3>1. build[b].version \in DOMAIN Slices
      BY <1>a, <2>2 DEF CompileSlice, At, BuildNames
    <3>2. state.version \notin Successors /\ state.pc = "recheck"
      BY <3>1 DEF VersionsApart, Begin, Successors
    <3> HIDE DEF state
    <3>3. BuildNames(state, donor)
      BY <3>2 DEF BuildNames
    <3> QED
      BY <1>3, <2>2, <3>3 DEF CompileSlice, state
  <2> QED
    BY <1>5, <1>7, <2>1, <2>2 DEF SliceStep, Unaccounted
<1>8. ASSUME NEW b \in Builders, StartView(b)
      PROVE  DigestInv'
  <2>1. BuildNames(Begin(ViewVersion, "rename", ViewPack), donor)
    BY DEF Begin, VersionsApart, BuildNames, Successors
  <2> QED
    BY <1>3, <1>8, <2>1 DEF StartView
<1>9. ASSUME NEW b \in Builders, Recheck(b)
      PROVE  DigestInv'
  <2> DEFINE state == [build[b] EXCEPT !.pc = "rename"]
  <2>1. BuildNames(state, donor)
    BY <1>a, <1>9 DEF Recheck, At, TypeOK, Build, BuildNames
  <2> QED
    BY <1>3, <1>9, <2>1 DEF Recheck
<1>10. ASSUME NEW b \in Builders, Rename(b)
       PROVE  DigestInv'
  <2>1. \A o \in Builders : BuildNames(build'[o], donor')
    BY <1>1, <1>4, <1>10 DEF Rename
  <2>2. ASSUME NEW v \in Published' \cap Successors
        PROVE  Named(packs'[v])
    <3>1. v # build[b].version => v \in Published /\ packs'[v] = packs[v]
      BY <1>10, <2>2 DEF Rename, TypeOK, Published
    <3>2. v = build[b].version => packs'[v] = build[b].stage
      BY <1>10, <2>2 DEF Rename, TypeOK, Published
    <3>3. v = build[b].version => Named(build[b].stage)
      BY <1>a, <1>10, <2>2 DEF Rename, At, BuildNames
    <3> QED
      BY <1>b, <2>2, <3>1, <3>2, <3>3
  <2> QED
    BY <2>1, <2>2 DEF DigestInv
<1>11. ASSUME NEW d \in Donors, DonorReplaced(d)
       PROVE  DigestInv'
  <2>1. \A o \in Builders : build[o].pc = "idle"
    BY <1>11 DEF DonorReplaced, At
  <2>2. \A o \in Builders : BuildNames(build[o], d)
    BY <2>1 DEF BuildNames
  <2> QED
    BY <1>2, <1>11, <2>2 DEF DonorReplaced
<1>12. CASE UNCHANGED vars
  BY <1>a, <1>2, <1>12 DEF vars
<1> QED
  BY <1>5, <1>6, <1>7, <1>8, <1>9, <1>10, <1>11, <1>12
     DEF Next, PublishStep, Appeared, RenameFails, Crash

(* The rows of a successor are those of the donor whose digest its sources *)
(* file names, whatever builds race and die, if nobody replaces the donor  *)
(* while a build is under way (with one replaced in a build it is false).  *)
THEOREM DigestNamesRowsOfQuietDonor ==
    ASSUME VersionsApart
    PROVE  Spec /\ ReplacedBetweenBuilds => []DigestNamesRows
<1>1. Init => DigestInv
  BY DEF Init, DigestInv, Published, BuildNames, Idle, Begin
<1>2. DigestInv => DigestNamesRows
  BY DEF DigestInv, DigestNamesRows, Successors, Named
<1>3. /\ TypeOK /\ DigestInv /\ [Next]_vars
      /\ [donor' # donor => \A b \in Builders : At(b, "idle")]_vars
      => DigestInv'
  BY DigestNext DEF vars
<1> QED
  BY <1>1, <1>2, <1>3, PublishTypeCorrect, PTL DEF Spec, ReplacedBetweenBuilds
=============================================================================
