---------------------------- MODULE MCTraceBundle ----------------------------
(* Two builds of one pack, the second with one role more, each with its    *)
(* adjunct; the pinned archive, another with another text, and one whose   *)
(* lookup disagrees with its member.                                       *)
EXTENDS TraceBundle

CONSTANTS Pred, RoleA, RoleB, PackA, Text1, Text2, Credit1, Credit2,
          Facts1, Facts2, Canon, Notice

Frame1 == [id |-> 1, name |-> 1]
Archive(text, units) ==
    [index |-> {Frame1},
     members |-> [n \in {1} |->
         [key |-> Frame1, elements |-> {}, text |-> text, units |-> units]],
     lookup |-> {[id |-> 1, key |-> Frame1, status |-> "Created"]},
     relations |-> {}]

Unit(status) == {[id |-> 1, status |-> status]}
MCPinned == Archive(Text1, Unit("Created"))
MCArchives == {MCPinned, Archive(Text2, Unit("Created")), Archive(Text1, Unit("Problem"))}
MCQuery == [pack |-> PackA, predicate |-> Pred]

Edge(role) == [pred |-> Pred, role |-> role]
Mappings == {[pred |-> Pred, family |-> "framenet", target |-> 1,
              relation |-> "candidate", verified |-> FALSE]}
Assets1 == [predicates |-> {Pred}, roles |-> {RoleA}, edges |-> {Edge(RoleA)},
            mappings |-> Mappings, canon |-> Canon]
Assets2 == [Assets1 EXCEPT !.roles = {RoleA, RoleB}, !.edges = {Edge(RoleA), Edge(RoleB)}]

Release(pack, assets, credit, facts) ==
    LET manifest == [pack |-> pack, artifacts |-> assets]
        projection == ProjectionOf(MCPinned, MCPinned)
        trace == [pack |-> PackA, target |-> manifest, projection |-> projection,
                  frames |-> projection.frames, archive |-> MCPinned, attribution |-> credit,
                  sumo |-> [context |-> [facts |-> facts, notice |-> Notice],
                            facts |-> facts, notice |-> Notice]]
    IN  [f \in Files |->
            CASE f = "manifest" -> manifest
              [] f \in Assets -> assets[f]
              [] f = "projection" -> projection
              [] f = "trace" -> trace
              [] f = "attribution" -> credit
              [] f = "context" -> [facts |-> facts, notice |-> Notice]
              [] f = "notice" -> Notice]

MCFirst == Release(PackA, Assets1, Credit1, Facts1)
MCReleases == {MCFirst, Release(PackA, Assets2, Credit2, Facts2)}
MCInitial == {MCFirst, [MCFirst EXCEPT !["projection"] = Absent, !["trace"] = Absent]}
=============================================================================
