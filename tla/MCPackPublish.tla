---------------------------- MODULE MCPackPublish ----------------------------
(* Instances of PackPublish for TLC. *)
EXTENDS PackPublish, TLC

CONSTANTS p, q, part, near, sumFn, agent, patient, T0, T1, T2, T3, m1, m2, m3, v2, v3, v4, s1, s2, b1, b2

Slot(term, label, type) == [pred |-> term, role |-> label, type |-> type]
Relation(term, arity, module) ==
    [id |-> term, arity |-> arity, module |-> module, fn |-> term = sumFn]
Constraint(term, n, type, module) ==
    [rel |-> term, pos |-> n, type |-> type, module |-> module]

(* T1 and T2 are below T0, and T3 below T1. *)
First ==
    [preds  |-> {p, q},
     frames |-> {p},
     slots  |-> {Slot(p, agent, T1), Slot(q, agent, T2)},
     anc    |-> [t \in Types |-> IF t = T3 THEN {T1, T0} ELSE IF t = T0 THEN {} ELSE {T0}],
     isa    |-> {<<T1, T0>>, <<T2, T0>>, <<T3, T1>>},
     rels   |-> {Relation(part, 2, m1), Relation(near, 3, m2), Relation(q, 1, m1),
                 Relation(sumFn, 1, m1), Relation(p, 1, Unknown)},
     cons   |-> {Constraint(part, 1, T3, m1), Constraint(part, 2, T2, m2),
                 Constraint(near, 3, T3, m2), Constraint(sumFn, 3, T2, m1)}]

(* The two predicates constrained to each other's types. *)
Exchanged == [First EXCEPT !.slots = {Slot(p, agent, T2), Slot(q, agent, T1)}]

(* A role has lost its label, and a predicate is gone. *)
Unlabelled == [First EXCEPT !.preds = {p}, !.slots = {Slot(p, agent, T1), Slot(p, Blank, T2)}]

(* The predicate q is gone, but for the relation of that name. *)
Shrunk ==
    [First EXCEPT !.preds = {p}, !.slots = {Slot(p, agent, T1)},
                  !.isa = @ \cup {<<T3, T0>>}]

(* A constraint, or a relation, of a module that no disposition lists. *)
Unlisted == [First EXCEPT !.cons = @ \cup {Constraint(near, 1, T1, Unknown)}]
Unheard == [First EXCEPT !.rels = @ \cup {Relation(p, 2, m3)}]

(* A role more, which the mappings of First do not trace. *)
Widened == [First EXCEPT !.slots = @ \cup {Slot(q, patient, NoType)}]

RaceDonors == {First, Unlabelled}
DigestDonors == {First, Exchanged}
LineageDonors == {First, Widened, Unlabelled, Shrunk, Unlisted, Unheard}

NoSlices == [v \in {} |-> v]

(* One slice that approves two modules. *)
OneSlice ==
    [v \in {s1} |-> [base |-> v4, known |-> {m1, m2}, approved |-> {m1, m2}]]

(* Two slices, the first of the module m1, the second of m1 and m2. *)
WideningSlices ==
    [v \in {s1, s2} |->
        IF v = s1 THEN [base |-> v3, known |-> {m1, m2}, approved |-> {m1}]
                  ELSE [base |-> s1, known |-> {m1, m2}, approved |-> {m1, m2}]]

FirstMappings ==
    ProvenanceRows([r \in First.preds |-> First], EdgesWithin(First, {T0, T1, T2}))
FirstReleased == [v \in {v3} |-> FirstMappings]

BuildersAlike == Permutations(Builders)
=============================================================================
