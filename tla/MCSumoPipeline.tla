---------------------------- MODULE MCSumoPipeline ----------------------------
(***************************************************************************)
(* Two invocations over a checkout of Merge.kif and one other module, for  *)
(* which a third, that the manifest does not name, may be substituted.     *)
(* mergeA is pinned and approved; mergeB requires of agent both            *)
(* AutonomousAgent and Object; mergeTorn does not parse.  midA says what   *)
(* Leaving is; midB, of the same size, adds a shortcut past Motion; midC   *)
(* states again an edge that Merge states; zedA says what midA says.       *)
(***************************************************************************)
EXTENDS SumoPipeline, TLC

CONSTANTS mid, zed, mergeA, mergeB, mergeTorn, midA, midB, midC, zedA,
          Motion, Object, give, go, d1, d2

MCModules == {Merge, mid, zed}
MCRank == (Merge :> 1) @@ (mid :> 2) @@ (zed :> 3)
MCContents == {mergeA, mergeB, mergeTorn, midA, midB, midC, zedA}
MCSize == [c \in MCContents |-> 2]
MCVersions == (Merge :> {mergeA, mergeB, mergeTorn}) @@ (mid :> {midA, midB, midC, Absent}) @@ (zed :> {zedA, Absent})
MCPinned == (Merge :> mergeA) @@ (mid :> midA)
MCTerms == {Leaving, Translocation, Motion, Object, AutonomousAgent, Entity,
            CaseRole, RelationClass}

F(pred, of, pos, to) == [pred |-> pred, of |-> of, pos |-> pos, to |-> to]
Core == <<F("subclass", Translocation, 0, Motion), F("subclass", Motion, 0, Entity),
          F("subclass", AutonomousAgent, 0, Object), F("subclass", Object, 0, Entity),
          F("subclass", CaseRole, 0, RelationClass),
          F("instance", agent, 0, CaseRole), F("instance", patient, 0, CaseRole),
          F("domain", agent, 1, Motion), F("domain", agent, 2, AutonomousAgent), F("domain", patient, 2, Entity),
          F("other", agent, 0, Entity)>>
LeavingIs == F("subclass", Leaving, 0, Translocation)
MCFormulas ==
    (mergeA :> Core) @@ (mergeB :> Append(Core, F("domain", agent, 2, Object)))
    @@ (mergeTorn :> <<>>) @@ (midA :> <<LeavingIs>>) @@ (zedA :> <<LeavingIs>>)
    @@ (midB :> <<LeavingIs, F("subclass", Translocation, 0, Entity)>>)
    @@ (midC :> <<LeavingIs, F("subclass", Motion, 0, Entity)>>)

Slot(role, type) == [role |-> role, type |-> type]
Donor1 == [preds |-> (give :> Translocation) @@ (go :> Unmapped),
           slots |-> (<<give, "a">> :> Slot(agent, AutonomousAgent)) @@ (<<give, "b">> :> Slot(patient, Object))
                     @@ (<<give, "c">> :> Slot(agent, Object)) @@ (<<go, "a">> :> Slot(agent, Motion))
                     @@ (<<go, "b">> :> Slot(patient, AutonomousAgent)) @@ (<<go, "c">> :> Slot(agent, Unmapped))]
Donor2 == [preds |-> give :> Class,
           slots |-> (<<give, "a">> :> Slot(agent, Entity)) @@ (<<give, "b">> :> Slot(CaseRole, Object))]
MCDatabase == (d1 :> Donor1) @@ (d2 :> Donor2)

RunsAlike == Permutations(Runs)
=============================================================================
