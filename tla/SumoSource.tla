------------------------------ MODULE SumoSource ------------------------------
(***************************************************************************)
(* The KIF modules of a SUMO checkout, the projection compiled of them,    *)
(* the bounded context published from one of them, and the audit of the    *)
(* donor's SUMO names against them.  A content of a module file is named   *)
(* by its digest; a projection is the function read that gives each module *)
(* the content it was compiled from.                                       *)
(***************************************************************************)
EXTENDS Naturals, Sequences, FiniteSets

CONSTANTS
    Modules,            \* paths of root modules
    Merge,              \* "Merge.kif"
    Contents,           \* contents of module files
    Formulas,           \* Formulas[c]: the top-level formulas of c, in order
    Broken,             \* contents with a formula that does not parse
    Granting,           \* contents whose notice grants derivative works
    Size,               \* Size[c]: bytes
    Pinned,             \* Pinned[m]: the content the source manifest pins
    Approved,           \* the content of Merge.kif that the publication profile approves
    Terms,              \* classes
    Leaving, Translocation, AutonomousAgent, Entity, CaseRole, RelationClass, Class,
    agent, patient,
    Unmapped            \* an absent role or type of the donor

(* A formula is [pred, of, pos, to]; one whose predicate is not supported  *)
(* is counted and not projected, and has the predicate "other".            *)
ConstraintKinds == {"domain", "domainSubclass", "range", "rangeSubclass"}

(* The classes a formula names are among the terms. *)
NamesTerms(f) ==
    /\ f.pred \in {"subclass", "disjoint"} => {f.of, f.to} \subseteq Terms
    /\ f.pred \in ConstraintKinds \cup {"instance"} => f.to \in Terms
    /\ f.pred = "instance" /\ f.to = Class => f.of \in Terms

ASSUME SourceConstants ==
    /\ Merge \in DOMAIN Pinned /\ DOMAIN Pinned \subseteq Modules
    /\ \A m \in DOMAIN Pinned : Pinned[m] \in Contents
    /\ Approved \in Contents
    /\ \A c \in Contents : Size[c] \in Nat
    /\ IsFiniteSet(Terms) /\ Unmapped \notin Terms
    /\ \A c \in Contents : \A i \in DOMAIN Formulas[c] : NamesTerms(Formulas[c][i])

(***************************************************************************)
(* The projection.                                                         *)
(***************************************************************************)

(* Every supported formula, with where it stands. *)
Axioms(read) ==
    UNION {{[formula |-> Formulas[read[m]][i], module |-> m, digest |-> read[m], index |-> i] :
               i \in {j \in DOMAIN Formulas[read[m]] : Formulas[read[m]][j].pred # "other"}} :
           m \in DOMAIN read}

Said(read, pred) == {a.formula : a \in {x \in Axioms(read) : x.formula.pred = pred}}
Subclasses(read) == {<<f.of, f.to>> : f \in Said(read, "subclass")}
ParentsOf(read, term) == {e[2] : e \in {x \in Subclasses(read) : x[1] = term}}

(* The breadth-first search: paths of n terms that repeat none, and end at *)
(* the target if they come to it.                                          *)
Extended(paths, n, edges, target) ==
    UNION {{Append(s, e[2]) : e \in {x \in edges : x[1] = s[n] /\ \A i \in 1..n : x[2] # s[i]}} :
           s \in {t \in paths : t[n] # target}}

PathsFrom(read, start, target) ==
    LET edges == Subclasses(read)
        level[n \in 1..Cardinality(Terms)] ==
            IF n = 1 THEN {<<start>>} ELSE Extended(level[n - 1], n - 1, edges, target)
    IN  UNION {level[n] : n \in 1..Cardinality(Terms)}

Reaching(read, start, target) == {s \in PathsFrom(read, start, target) : s[Len(s)] = target}
ShortestPaths(read, start, target) ==
    {s \in Reaching(read, start, target) :
        \A t \in Reaching(read, start, target) : Len(s) <= Len(t)}

UniquePath(read, start) ==
    \E s \in ShortestPaths(read, start, Entity) : ShortestPaths(read, start, Entity) = {s}
PathOf(read, start) == CHOOSE s \in ShortestPaths(read, start, Entity) : TRUE

(* The search over pending and visited classes. *)
DescendsFrom(read, term, ancestor) == Reaching(read, term, ancestor) # {}

(* A selection of what the relation requires of its second argument only.  *)
ConstraintsOfSecond(read, relation, module) ==
    {a \in Axioms(read) : /\ a.formula.pred \in ConstraintKinds /\ a.formula.of = relation
                          /\ a.formula.pos = 2 /\ a.module = module}

Constraints(read, relation, module) ==
    {a \in Axioms(read) : a.formula.pred \in ConstraintKinds /\ a.formula.of = relation /\ a.module = module}

InstancesOf(read, class) == {f.of : f \in {g \in Said(read, "instance") : g.to = class}}

TypesIn(read) ==
    (UNION {{f.of, f.to} : f \in Said(read, "subclass") \cup Said(read, "disjoint")})
        \cup (UNION {{f.to : f \in Said(read, kind)} : kind \in ConstraintKinds \cup {"instance"}})
        \cup InstancesOf(read, Class)

RelationsIn(read) ==
    (UNION {{f.of, f.to} : f \in Said(read, "subrelation")})
        \cup (UNION {{f.of : f \in Said(read, kind)} : kind \in ConstraintKinds})
        \cup {f.of : f \in {g \in Said(read, "instance") : DescendsFrom(read, g.to, RelationClass)}}

TotalSize(read) ==
    LET sum[S \in SUBSET DOMAIN read] ==
            IF S = {} THEN 0
            ELSE LET m == CHOOSE x \in S : TRUE IN Size[read[m]] + sum[S \ {m}]
    IN  sum[DOMAIN read]

(* The compiler and the validator accept what was read.  That the modules  *)
(* are those of the manifest is checked by number and bytes only.          *)
Projects(read) ==
    /\ UniquePath(read, Leaving) /\ UniquePath(read, AutonomousAgent)
    /\ {agent, patient} \subseteq InstancesOf(read, CaseRole)
    /\ \A role \in {agent, patient} : Constraints(read, role, Merge) # {}
    /\ Cardinality(DOMAIN read) = Cardinality(DOMAIN Pinned)
    /\ TotalSize(read) = TotalSize(Pinned)

(***************************************************************************)
(* The publication of a bounded context.                                   *)
(***************************************************************************)

(* The formulas of Merge.kif that state an edge or a case role. *)
Stating(read, pred, of, to) ==
    {a \in Axioms(read) :
        a.formula.pred = pred /\ a.formula.of = of /\ a.formula.to = to /\ a.module = Merge}

EdgesOf(path) == {<<path[i], path[i + 1]>> : i \in 1..(Len(path) - 1)}

(* The path from Leaving without Leaving, which Merge.kif does not define. *)
Hierarchy(read) == Tail(PathOf(read, Leaving))
PublishedEdges(read) == EdgesOf(Hierarchy(read)) \cup EdgesOf(PathOf(read, AutonomousAgent))

ContextOf(read) ==
    [hierarchy   |-> Hierarchy(read),
     agents      |-> PathOf(read, AutonomousAgent),
     facts       |-> (UNION {Stating(read, "subclass", e[1], e[2]) : e \in PublishedEdges(read)})
                        \cup (UNION {Stating(read, "instance", role, CaseRole) : role \in {agent, patient}}),
     constraints |-> UNION {Constraints(read, role, Merge) : role \in {agent, patient}}]

(* The validator of a context: all it cites is of the approved content.    *)
ClosesToApproved(context) ==
    \A a \in context.facts \cup context.constraints : a.module = Merge /\ a.digest = Approved

Publishable(read) ==
    /\ Len(Hierarchy(read)) >= 2 /\ Len(PathOf(read, AutonomousAgent)) >= 2
    /\ Head(Hierarchy(read)) = Translocation
    /\ \A e \in PublishedEdges(read) : Cardinality(Stating(read, "subclass", e[1], e[2])) = 1
    /\ \A role \in {agent, patient} : Cardinality(Stating(read, "instance", role, CaseRole)) = 1
    /\ ClosesToApproved(ContextOf(read))

(***************************************************************************)
(* The audit.  A database is [preds, slots]: the process type of each      *)
(* predicate, and the role and type of each <<predicate, label>>.          *)
(***************************************************************************)
Identity(name, inventory) ==
    IF name = Unmapped THEN "unmapped"
    ELSE IF name \in inventory THEN "exact_current_source" ELSE "missing_current_source"

RoleIdentity(read, role) ==
    IF role = Unmapped THEN "unmapped"
    ELSE IF role \notin RelationsIn(read) THEN "missing_current_source"
    ELSE IF role \in InstancesOf(read, CaseRole) THEN "exact_case_role"
    ELSE "exact_non_case_relation"

(* What Merge.kif requires of the second argument of a relation. *)
Observed(read, role) ==
    {a.formula.to : a \in {x \in Constraints(read, role, Merge) :
                              x.formula.pred = "domain" /\ x.formula.pos = 2}}

(* A comparison that looks at direct parents only. *)
ComparisonOfParents(read, type, observed) ==
    IF observed = {} THEN "no_direct_constraint"
    ELSE IF observed = {type} THEN "direct_match"
    ELSE IF \A o \in observed : o \in ParentsOf(read, type) \cup {type} THEN "compatible_donor_subtype"
    ELSE IF \A o \in observed : type \in ParentsOf(read, o) \cup {o} THEN "incompatible_donor_supertype"
    ELSE "incomparable_types"

Comparison(read, type, observed) ==
    IF observed = {} THEN "no_direct_constraint"
    ELSE IF observed = {type} THEN "direct_match"
    ELSE IF \A o \in observed : DescendsFrom(read, type, o) THEN "compatible_donor_subtype"
    ELSE IF \A o \in observed : DescendsFrom(read, o, type) THEN "incompatible_donor_supertype"
    ELSE "incomparable_types"

Comparable(read, slot) ==
    /\ RoleIdentity(read, slot.role) = "exact_case_role"
    /\ Identity(slot.type, TypesIn(read)) = "exact_current_source"

RoleRow(read, slot) ==
    LET observed == IF Comparable(read, slot) THEN Observed(read, slot.role) ELSE {}
    IN  [role       |-> RoleIdentity(read, slot.role),
         type       |-> Identity(slot.type, TypesIn(read)),
         constraint |-> IF Comparable(read, slot)
                        THEN Comparison(read, slot.type, observed)
                        ELSE "not_applicable",
         observed   |-> observed]

(* The validator of a role row: a comparison is with other types.          *)
RowAccepted(read, slot) ==
    LET row == RoleRow(read, slot)
    IN  row.constraint \in
            {"compatible_donor_subtype", "incompatible_donor_supertype", "incomparable_types"}
        => slot.type \notin row.observed

Auditable(read, db) ==
    \A key \in DOMAIN db.slots :
        key[1] \in DOMAIN db.preds /\ RowAccepted(read, db.slots[key])

ReportOf(read, db) ==
    [preds |-> [p \in DOMAIN db.preds |-> Identity(db.preds[p], TypesIn(read))],
     slots |-> [key \in DOMAIN db.slots |-> RoleRow(read, db.slots[key])]]

(* What the subclass axioms mean: a set of individuals that respects them. *)
Respects(S, read) == \A f \in Said(read, "subclass") : f.of \in S => f.to \in S
=============================================================================
