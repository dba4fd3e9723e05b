------------------------------- MODULE FrameNet -------------------------------
(***************************************************************************)
(* The FrameNet compiler: what an archive holds, when its members agree,   *)
(* the projection made of them, and the validator that every loader of a   *)
(* projection runs again.  A digest stands for the content it is taken of. *)
(***************************************************************************)
EXTENDS Naturals, FiniteSets

(***************************************************************************)
(* An archive is a record of                                               *)
(*   index      the frame keys [id, name] of frameIndex.xml                *)
(*   members    the frames by path: [key, elements, units, text]           *)
(*   lookup     the entries [id, key, status] of luIndex.xml               *)
(*   relations  the edges [id, type, sub, super, pairs] of frRelation.xml, *)
(*              with the keys of both frames as the edge repeats them; a   *)
(*              type is [id, name], a pair [id, sub, super] of elements.   *)
(***************************************************************************)
Unique(S, Key(_)) == \A x, y \in S : Key(x) = Key(y) => x = y

Id(x) == x.id
NameOf(x) == x.name

Paths(a) == DOMAIN a.members
Keys(a) == {a.members[n].key : n \in Paths(a)}
MembersOf(a, key) == {a.members[n] : n \in {m \in Paths(a) : a.members[m].key = key}}

(* frameIndex.xml names each frame once and each member it names.          *)
IndexAgrees(a) ==
    /\ a.index # {} /\ Unique(a.index, Id) /\ Unique(a.index, NameOf)
    /\ Paths(a) = {k.name : k \in a.index}
    /\ \A k \in a.index : a.members[k.name].key = k

(* A unit of a frame is the one luIndex.xml lists, or has a Problem.       *)
UnitAgrees(a, key, u) ==
    LET listed == {x \in a.lookup : x.id = u.id}
    IN  IF listed = {} THEN u.status = "Problem"
        ELSE \A x \in listed : x.key = key /\ x.status = u.status

Embedded(a) == UNION {{u.id : u \in a.members[n].units} : n \in Paths(a)}

(* A lookup that does not ask where its entries are declared. *)
UnitsAgreeOneWay(a) ==
    /\ a.lookup # {} /\ Unique(a.lookup, Id)
    /\ \A n \in Paths(a) : \A u \in a.members[n].units : UnitAgrees(a, a.members[n].key, u)

UnitsAgree(a) ==
    /\ a.lookup # {} /\ Unique(a.lookup, Id)
    /\ \A n \in Paths(a) : \A u \in a.members[n].units : UnitAgrees(a, a.members[n].key, u)
    /\ {x.id : x \in a.lookup} \subseteq Embedded(a)

ElementsOf(a, key) == UNION {m.elements : m \in MembersOf(a, key)}

(* Both frames of an edge exist under the repeated name, and each pair     *)
(* relates elements of them.                                               *)
RelationsAgree(a) ==
    /\ Unique({r.type : r \in a.relations}, Id) /\ Unique({r.type : r \in a.relations}, NameOf)
    /\ Unique(a.relations, Id)
    /\ \A r \in a.relations :
           /\ {r.sub, r.super} \subseteq Keys(a)
           /\ \A q \in r.pairs : q.sub \in ElementsOf(a, r.sub) /\ q.super \in ElementsOf(a, r.super)

(* An edge as the frame at one end of it keeps it. *)
EdgeFrom(r, end, other) == [id |-> r.id, type |-> r.type, end |-> end, other |-> other, pairs |-> r.pairs]

FrameOf(a, n) ==
    LET m == a.members[n]
    IN  [key      |-> m.key,
         elements |-> m.elements,
         units    |-> {[id |-> u.id, status |-> u.status,
                        indexed |-> \E x \in a.lookup : x.id = u.id] : u \in m.units},
         text     |-> m.text,
         outgoing |-> {EdgeFrom(r, "sub", r.super) : r \in {s \in a.relations : s.sub = m.key}},
         incoming |-> {EdgeFrom(r, "super", r.sub) : r \in {s \in a.relations : s.super = m.key}}]

(* The archive a projection says it is of is the one the manifest pins.    *)
ProjectionOf(a, pinned) == [archive |-> pinned, frames |-> {FrameOf(a, n) : n \in Paths(a)}]

(***************************************************************************)
(* The validator of a projection.                                          *)
(***************************************************************************)
(* What the frames declare, with the frame that declares it. *)
Across(p, Part(_)) == UNION {{[id |-> x.id, of |-> f.key, item |-> x] : x \in Part(f)} : f \in p.frames}

UnitsIn(f) == f.units
ElementsIn(f) == f.elements
OutgoingIn(f) == f.outgoing

FramesUnique(p) ==
    /\ p.frames # {}
    /\ Unique({f.key : f \in p.frames}, Id) /\ Unique({f.key : f \in p.frames}, NameOf)
    /\ Unique(p.frames, LAMBDA f : f.key)

IdentitiesUnique(p) ==
    /\ Unique(Across(p, UnitsIn), Id)
    /\ Unique(Across(p, ElementsIn), Id)
    /\ Unique(Across(p, OutgoingIn), Id)
    /\ Unique(UNION {{[id |-> q.id, under |-> e.id, item |-> q] : q \in e.pairs} :
                        e \in UNION {f.outgoing : f \in p.frames}}, Id)

LookupHonest(p) == \A f \in p.frames : \A u \in f.units : u.indexed \/ u.status = "Problem"

(* An edge leads to a frame, by elements of both, and has its mirror there. *)
Mirrored(p) ==
    \A f \in p.frames :
        /\ \A e \in f.outgoing : \E g \in p.frames :
               /\ g.key = e.other
               /\ EdgeFrom(e, "super", f.key) \in g.incoming
               /\ \A q \in e.pairs : q.sub \in f.elements /\ q.super \in g.elements
        /\ \A e \in f.incoming : \E g \in p.frames :
               /\ g.key = e.other
               /\ EdgeFrom(e, "sub", f.key) \in g.outgoing

TypesConsistent(p) ==
    LET types == {e.type : e \in UNION {f.outgoing : f \in p.frames}}
    IN  Unique(types, Id) /\ Unique(types, NameOf)

ProjectionClosed(p) ==
    /\ FramesUnique(p) /\ IdentitiesUnique(p) /\ LookupHonest(p)
    /\ Mirrored(p) /\ TypesConsistent(p)

(* The compiler accepts an archive.  Its result passes the validator.      *)
Compiles(a) ==
    /\ IndexAgrees(a) /\ UnitsAgree(a) /\ RelationsAgree(a)
    /\ ProjectionClosed(ProjectionOf(a, a))
=============================================================================
