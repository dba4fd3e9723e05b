-------------------------------- MODULE Packs --------------------------------
(***************************************************************************)
(* The packs of linguistic_core and what the three compilers put in them.  *)
(* A donor database is a record of its tables; a pack is a record of its   *)
(* files, one field per file that the properties tell apart.  The digest   *)
(* of a donor file is the donor itself.                                    *)
(***************************************************************************)
EXTENDS Integers, FiniteSets

CONSTANTS
    Terms,            \* names of predicates and of relations
    Labels,           \* named labels of donor roles, up to case
    MaxArity,         \* the largest arity of a relation
    Types,            \* SUMO type names
    Modules,          \* SUMO modules a donor row may cite
    Donors,           \* the states of the donor database file
    BaseVersions,     \* versions the base compiler is asked to build
    HistoricVersion,  \* _PACK_VERSION: built without provenance files
    Released,         \* Released[v]: the pinned mapping rows of version v
    CanonicalFrames,  \* FrameNet mappings of the canonical donor
    Slices,           \* Slices[v]: the command line of the relations slice v
    ViewVersion,      \* the one version of the runtime view
    Unknown,          \* the module of rows that cite none
    Blank, NoType, NoPack, NoBase, NoMappings, NoDigest

Versions == BaseVersions \cup DOMAIN Slices \cup {ViewVersion}
Positions == 1..MaxArity
Roles == Labels \cup Positions

(* The tables of a donor database: predicates and their role_slots,        *)
(* type_ancestors, type_hierarchy, relations and relation_constraints.     *)
DonorSet ==
    [preds  : SUBSET Terms,
     frames : SUBSET Terms,
     slots  : SUBSET [pred : Terms, role : Labels \cup {Blank}, type : Types \cup {NoType}],
     anc    : [Types -> SUBSET Types],
     isa    : SUBSET (Types \X Types),
     rels   : SUBSET [id : Terms, arity : Positions, module : Modules, fn : BOOLEAN],
     cons   : SUBSET [rel : Terms, pos : Nat, type : Types, module : Modules]]

Mappings ==
    [preds  : SUBSET Terms,
     slots  : SUBSET (Terms \X Labels),
     types  : SUBSET (Terms \X Types),
     frames : SUBSET Terms,
     edges  : SUBSET (Types \X Types)]

Pack ==
    [base        : Versions \cup {NoBase},
     preds       : SUBSET Terms,
     roles       : SUBSET Roles,
     entities    : SUBSET Types,
     edges       : SUBSET (Types \X Types),
     slots       : SUBSET (Terms \X Roles),
     constraints : SUBSET (Terms \X (Labels \cup Nat) \X Types),
     mappings    : Mappings \cup {NoMappings},
     digest      : Donors \cup {NoDigest}]

(* The arguments of the slice compiler: the version it extends and the     *)
(* dispositions of the modules its disposition file lists.                 *)
SliceArgs == [base : Versions, known : SUBSET Modules, approved : SUBSET Modules]

(* Of a relation that is no function, a donor constrains declared argument *)
(* positions only.  No row of data/sumo_plus.db is an exception; those of  *)
(* functions are, which a slice leaves out.                                *)
PositionsDeclared(d) ==
    \A r \in d.rels, c \in d.cons : c.rel = r.id /\ ~r.fn => c.pos \in 1..r.arity

ASSUME PackConstants ==
    /\ MaxArity \in Nat
    /\ Labels \cap Positions = {} /\ Blank \notin Labels /\ NoType \notin Types
    /\ Donors \subseteq DonorSet
    /\ \A d \in Donors : PositionsDeclared(d)
    /\ Slices \in [DOMAIN Slices -> SliceArgs]
    /\ Released \in [DOMAIN Released -> Mappings]
    /\ NoPack \notin Pack /\ NoBase \notin Versions
    /\ NoMappings \notin Mappings /\ NoDigest \notin Donors

(***************************************************************************)
(* The base compiler.  Its four reads may see different states of the      *)
(* donor: rows, hierarchy, the digest for the sources file, and the        *)
(* provenance of each predicate p, from seen[p].                           *)
(***************************************************************************)
SlotsOf(d, p) == {s \in d.slots : s.pred = p}
RowSlots(d) == UNION {SlotsOf(d, p) : p \in d.preds}
Labelled(slots) == \A s \in slots : s.role # Blank
Typed(slots) == {s \in slots : s.type # NoType}

(* Types with all their ancestors, and the hierarchy rows among them. *)
TypeClosure(d, seeds) == seeds \cup UNION {d.anc[t] : t \in seeds}
EdgesWithin(d, types) == {e \in d.isa : e[1] \in types /\ e[2] \in types}

Seeds(rows) == {s.type : s \in Typed(RowSlots(rows))}

(* The bundles of all predicates and the exported edges, as the rows of    *)
(* semantic_mappings.jsonl.                                                *)
ProvenanceRows(seen, edges) ==
    LET found == UNION {SlotsOf(seen[p], p) : p \in DOMAIN seen}
    IN  [preds  |-> DOMAIN seen,
         slots  |-> {<<s.pred, s.role>> : s \in found},
         types  |-> {<<s.pred, s.type>> : s \in Typed(found)},
         frames |-> {p \in DOMAIN seen : p \in seen[p].frames},
         edges  |-> edges]

BasePack(v, rows, hierarchy, digest, seen) ==
    LET slots == RowSlots(rows)
        types == TypeClosure(hierarchy, Seeds(rows))
        edges == EdgesWithin(hierarchy, types)
    IN  [base        |-> NoBase,
         preds       |-> rows.preds,
         roles       |-> {s.role : s \in slots},
         entities    |-> types,
         edges       |-> edges,
         slots       |-> {<<s.pred, s.role>> : s \in slots},
         constraints |-> {<<s.pred, s.role, s.type>> : s \in Typed(slots)},
         mappings    |-> IF v = HistoricVersion THEN NoMappings
                         ELSE ProvenanceRows(seen, edges),
         digest      |-> IF v = HistoricVersion THEN NoDigest ELSE digest]

(* How many predicates constrain a role of theirs to type t: the validator *)
(* compares these numbers, not the predicates.                             *)
Uses(pairs, t) == Cardinality({pair \in pairs : pair[2] = t})
ConstrainedTypes(pack) == {<<c[1], c[3]>> : c \in pack.constraints}

(* A validator that looks at predicates and edges only. *)
ProvenanceCoversPredicates(pack) ==
    /\ pack.mappings.edges = pack.edges
    /\ pack.mappings.preds = pack.preds
    /\ Cardinality(pack.mappings.frames) = CanonicalFrames

(* validate_compiled_pack, of a pack with provenance. *)
ProvenanceCovers(pack) ==
    /\ pack.mappings.edges = pack.edges
    /\ pack.mappings.preds = pack.preds
    /\ pack.mappings.slots = pack.slots
    /\ \A t \in Types : Uses(pack.mappings.types, t) = Uses(ConstrainedTypes(pack), t)
    /\ Cardinality(pack.mappings.frames) = CanonicalFrames

Validated(v, pack) ==
    v # HistoricVersion =>
        /\ ProvenanceCovers(pack)
        /\ v \in DOMAIN Released => pack.mappings = Released[v]

(* The runtime view has every file and not a row in any. *)
ViewPack ==
    [base |-> NoBase, preds |-> {}, roles |-> {}, entities |-> {}, edges |-> {},
     slots |-> {}, constraints |-> {}, mappings |-> NoMappings, digest |-> NoDigest]

(***************************************************************************)
(* Lineages and the relations slice.                                       *)
(***************************************************************************)

(* The pack at v and every pack it extends, at any remove: the versions in *)
(* every set that holds v and the base of each of its members.             *)
Lineage(packs, v) ==
    {u \in Versions :
        \A S \in SUBSET Versions :
            /\ v \in S
            /\ \A w \in S : packs[w] # NoPack /\ packs[w].base # NoBase => packs[w].base \in S
            => u \in S}

(* The rows of the extended pack alone, whatever that one extends. *)
OwnedByBase(packs, v) == packs[v].entities

OwnedPreds(packs, v) == UNION {packs[u].preds : u \in Lineage(packs, v)}
OwnedRoles(packs, v) == UNION {packs[u].roles : u \in Lineage(packs, v)}
OwnedEntities(packs, v) == UNION {packs[u].entities : u \in Lineage(packs, v)}
OwnedEdges(packs, v) == UNION {packs[u].edges : u \in Lineage(packs, v)}

(* The selection without the exclusion of functions. *)
RelationsAndFunctions(d, args, packs) ==
    {r \in d.rels : /\ r.module \in args.approved
                    /\ r.id \notin d.preds \cup OwnedPreds(packs, args.base)}

(* Relations of approved modules that are no functions and whose name      *)
(* neither the donor nor an ancestor uses for a predicate.                 *)
FinalRelations(d, args, packs) ==
    {r \in d.rels : /\ r.module \in args.approved
                    /\ ~r.fn
                    /\ r.id \notin d.preds \cup OwnedPreds(packs, args.base)}

ConstraintsOn(d, relations) == {c \in d.cons : \E r \in relations : r.id = c.rel}

(* A row whose module the disposition file does not list stops the build,  *)
(* unless it is a relation of the module "unknown".                        *)
Accounted(d, args, packs) ==
    /\ \A r \in d.rels : r.module \in args.known \cup {Unknown}
    /\ \A c \in ConstraintsOn(d, FinalRelations(d, args, packs)) : c.module \in args.known

SlicePack(d, args, packs) ==
    LET final == FinalRelations(d, args, packs)
        kept  == {c \in ConstraintsOn(d, final) : c.module \in args.approved}
        types == TypeClosure(d, {c.type : c \in kept})
    IN  [base        |-> args.base,
         preds       |-> {r.id : r \in final},
         roles       |-> {n \in Positions : \E r \in final : n <= r.arity}
                             \ OwnedRoles(packs, args.base),
         entities    |-> types \ OwnedEntities(packs, args.base),
         edges       |-> EdgesWithin(d, types) \ OwnedEdges(packs, args.base),
         slots       |-> UNION {{<<r.id, n>> : n \in 1..r.arity} : r \in final},
         constraints |-> {<<c.rel, c.pos, c.type>> : c \in kept},
         mappings    |-> NoMappings,
         digest      |-> NoDigest]

(***************************************************************************)
(* What the properties say of packs.                                       *)
(***************************************************************************)
Disjoint(a, b) ==
    /\ a.preds \cap b.preds = {}
    /\ a.roles \cap b.roles = {}
    /\ a.entities \cap b.entities = {}
    /\ a.edges \cap b.edges = {}

(* Every reference in a pack's files is to one of its predicates and role  *)
(* edges, or to the roles and entities it may refer to.                    *)
Resolves(pack, roles, entities) ==
    /\ pack.slots \subseteq pack.preds \X roles
    /\ \A c \in pack.constraints : <<c[1], c[2]>> \in pack.slots /\ c[3] \in entities
    /\ pack.edges \subseteq entities \X entities
=============================================================================
