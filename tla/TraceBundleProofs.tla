-------------------------- MODULE TraceBundleProofs --------------------------
(***************************************************************************)
(* That a bundle has the frames and facts its trace names, and that a      *)
(* publication is kept or taken back as a whole, for any archives,         *)
(* releases, publishers, inspections and number of changes.                *)
(***************************************************************************)
EXTENDS TraceBundle, SequenceTheorems, TLAPS

(***************************************************************************)
(* The script of an inspection, and where it opens what the property is    *)
(* about.                                                                  *)
(***************************************************************************)
Accesses == [op : {"hash", "open"}, file : Files]

(* both is s followed by t, which have m and n elements.                   *)
Follows(both, s, t, m, n) ==
    /\ both \in Seq(Accesses) /\ Len(both) = m + n
    /\ \A i \in 1..(m + n) : both[i] = IF i <= m THEN s[i] ELSE t[i - m]

LEMMA Joined ==
    ASSUME NEW s \in Seq(Accesses), NEW t \in Seq(Accesses), NEW both, both = s \o t,
           NEW m, NEW n, Len(s) = m, Len(t) = n
    PROVE  Follows(both, s, t, m, n)
BY ConcatProperties DEF Follows

LEMMA HashesSeq ==
    ASSUME NEW list \in Seq(Files)
    PROVE  /\ Hashes(list) \in Seq(Accesses) /\ Len(Hashes(list)) = Len(list)
           /\ \A i \in 1..Len(list) : Hashes(list)[i] = Access("hash", list[i])
<1>1. Len(list) \in Nat /\ DOMAIN list = 1..Len(list) /\ \A i \in 1..Len(list) : list[i] \in Files
    BY LenProperties, ElementOfSeq
<1>2. Hashes(list) \in [1..Len(list) -> Accesses]
    BY <1>1 DEF Hashes, Accesses, Access
<1>3. Hashes(list) \in Seq(Accesses)
    BY <1>1, <1>2, SeqDef
<1>4. Len(Hashes(list)) = Len(list)
    BY <1>1, <1>2, <1>3, LenProperties
<1>. QED
    BY <1>1, <1>3, <1>4 DEF Hashes

LEMMA OpensSeq ==
    ASSUME NEW list \in Seq(Files)
    PROVE  /\ Opens(list) \in Seq(Accesses) /\ Len(Opens(list)) = Len(list)
           /\ \A i \in 1..Len(list) : Opens(list)[i] = Access("open", list[i])
<1>1. Len(list) \in Nat /\ DOMAIN list = 1..Len(list) /\ \A i \in 1..Len(list) : list[i] \in Files
    BY LenProperties, ElementOfSeq
<1>2. Opens(list) \in [1..Len(list) -> Accesses]
    BY <1>1 DEF Opens, Accesses, Access
<1>3. Opens(list) \in Seq(Accesses)
    BY <1>1, <1>2, SeqDef
<1>4. Len(Opens(list)) = Len(list)
    BY <1>1, <1>2, <1>3, LenProperties
<1>. QED
    BY <1>1, <1>3, <1>4 DEF Opens

(* The files an inspection hashes after it has opened the two manifests.   *)
HashedNext == <<"predicates", "roles", "edges", "mappings", "canon", "projection", "attribution">>

LEMMA OpeningIs ==
    /\ Opening \in Seq(Accesses) /\ Len(Opening) = 12
    /\ Opening[1] = Access("hash", "manifest") /\ Opening[2] = Access("open", "manifest")
    /\ Opening[3] = Access("hash", "trace") /\ Opening[4] = Access("open", "trace")
    /\ \A i \in 5..11 : Opening[i] = Access("hash", HashedNext[i - 4])
    /\ Opening[12] = Access("open", "projection")
    /\ \A i \in 1..12 : /\ Opening[i] = Access("open", "trace") <=> i = 4
                        /\ Opening[i] = Access("open", "projection") <=> i = 12
                        /\ Opening[i] # Access("open", "context")
<1>. DEFINE list == HashedNext
            hashes == Hashes(list)
            head == Both("manifest") \o Both("trace")
            last == <<Access("open", "projection")>>
<1>1. list \in Seq(Files) /\ Len(list) = 7
    BY DEF Files, Assets, Outputs, HashedNext
<1>2. hashes \in Seq(Accesses) /\ Len(hashes) = 7
      /\ \A i \in 1..7 : hashes[i] = Access("hash", HashedNext[i]) /\ hashes[i].op = "hash"
    <2>. HIDE DEF list
    <2>1. /\ hashes \in Seq(Accesses) /\ Len(hashes) = 7
          /\ \A i \in 1..7 : hashes[i] = Access("hash", list[i])
        BY <1>1, HashesSeq
    <2>. HIDE DEF hashes
    <2>2. list = HashedNext
        BY DEF list
    <2>. QED
        BY <2>1, <2>2 DEF Access
<1>3. head \in Seq(Accesses) /\ Len(head) = 4
      /\ head[1] = Access("hash", "manifest") /\ head[2] = Access("open", "manifest")
      /\ head[3] = Access("hash", "trace") /\ head[4] = Access("open", "trace")
    BY DEF Both, Access, Accesses, Files, Outputs
<1>4. last \in Seq(Accesses) /\ Len(last) = 1 /\ last[1] = Access("open", "projection")
    BY DEF Access, Accesses, Files, Outputs
<1>. HIDE DEF list, hashes, head, last
<1>. DEFINE start == head \o hashes
<1>5. Opening = start \o last
    BY DEF Opening, head, hashes, list, last, HashedNext
<1>6. /\ start \in Seq(Accesses) /\ Len(start) = 11
      /\ \A i \in 1..11 : start[i] = IF i <= 4 THEN head[i] ELSE hashes[i - 4]
    <2>. HIDE DEF start
    <2>1. start = head \o hashes
        BY DEF start
    <2>2. Follows(start, head, hashes, 4, 7)
        BY <1>2, <1>3, <2>1, Joined, Zenon
    <2>. QED
        BY <2>2 DEF Follows
<1>. HIDE DEF start
<1>7. /\ Opening \in Seq(Accesses) /\ Len(Opening) = 12
      /\ \A i \in 1..12 : Opening[i] = IF i <= 11 THEN start[i] ELSE last[i - 11]
    <2>1. Follows(Opening, start, last, 11, 1)
        BY <1>4, <1>5, <1>6, Joined, Zenon
    <2>. QED
        BY <2>1 DEF Follows
<1>8. \A i \in 1..12 : Opening[i] = IF i <= 4 THEN head[i] ELSE IF i <= 11 THEN hashes[i - 4] ELSE last[1]
    BY <1>6, <1>7
<1>9. \A i \in 5..11 : Opening[i] = Access("hash", HashedNext[i - 4])
    BY <1>2, <1>8
<1>. QED
    BY <1>2, <1>3, <1>4, <1>7, <1>8, <1>9 DEF Access

(* The rows it parses in the end.                                          *)
ParsedNext == <<"predicates", "roles", "edges", "mappings">>

LEMMA ParsingIs ==
    /\ Parsing \in Seq(Accesses) /\ Len(Parsing) = 4
    /\ \A i \in 1..4 : /\ Parsing[i].op = "open" /\ Parsing[i].file = ParsedNext[i]
                       /\ Parsing[i].file \in {"predicates", "roles", "edges", "mappings"}
                       /\ Parsing[i].file \notin {"trace", "projection", "context"}
<1>. DEFINE list == ParsedNext
<1>1. /\ list \in Seq(Files) /\ Len(list) = 4
      /\ \A i \in 1..4 : list[i] \in {"predicates", "roles", "edges", "mappings"}
    BY DEF Files, Assets, Outputs, ParsedNext
<1>. HIDE DEF list
<1>2. /\ Opens(list) \in Seq(Accesses) /\ Len(Opens(list)) = 4
      /\ \A i \in 1..4 : Opens(list)[i] = Access("open", list[i])
    BY <1>1, OpensSeq
<1>3. Parsing = Opens(list)
    BY DEF Parsing, list, ParsedNext
<1>. QED
    BY <1>1, <1>2, <1>3 DEF Access, list

LEMMA GroundingIs ==
    /\ Grounding \in Seq(Accesses) /\ Len(Grounding) = 3
    /\ Grounding[1] = Access("hash", "context") /\ Grounding[2] = Access("hash", "notice")
    /\ Grounding[1].op = "hash" /\ Grounding[2].op = "hash"
    /\ Grounding[3] = Access("open", "context")
<1>. DEFINE list == <<"context", "notice">>
            last == <<Access("open", "context")>>
<1>1. list \in Seq(Files) /\ Len(list) = 2 /\ list[1] = "context" /\ list[2] = "notice"
    BY DEF Files, Assets, Outputs
<1>2. last \in Seq(Accesses) /\ Len(last) = 1 /\ last[1] = Access("open", "context")
    BY DEF Access, Accesses, Files, Outputs
<1>. HIDE DEF list, last
<1>3. /\ Hashes(list) \in Seq(Accesses) /\ Len(Hashes(list)) = 2
      /\ \A i \in 1..2 : Hashes(list)[i] = Access("hash", list[i])
    BY <1>1, HashesSeq
<1>4. Grounding = Hashes(list) \o last
    BY DEF Grounding, list, last
<1>5. /\ Grounding \in Seq(Accesses) /\ Len(Grounding) = 3
      /\ \A i \in 1..3 : Grounding[i] = IF i <= 2 THEN Hashes(list)[i] ELSE last[i - 2]
    <2>1. Follows(Grounding, Hashes(list), last, 2, 1)
        BY <1>2, <1>3, <1>4, Joined, Zenon
    <2>. QED
        BY <2>1 DEF Follows
<1>6. /\ Grounding[1] = Access("hash", "context") /\ Grounding[2] = Access("hash", "notice")
      /\ Grounding[3] = Access("open", "context")
    BY <1>1, <1>2, <1>3, <1>5
<1>. QED
    BY <1>5, <1>6 DEF Access

ScriptLength(r) == IF Grounded(r) THEN 19 ELSE 16

LEMMA ScriptIs ==
    ASSUME NEW r
    PROVE  /\ Script(r) \in Seq(Accesses) /\ Len(Script(r)) = ScriptLength(r)
           /\ DOMAIN Script(r) = 1..ScriptLength(r)
           /\ \A i \in 1..ScriptLength(r) :
                  /\ Script(r)[i] \in Accesses
                  /\ Script(r)[i] = Access("open", "trace") <=> i = 4
                  /\ Script(r)[i] = Access("open", "projection") <=> i = 12
                  /\ Script(r)[i] = Access("open", "context") <=> i = 15 /\ Grounded(r)
           /\ \A i \in 1..12 : Script(r)[i] = Opening[i]
           /\ Grounded(r) => Script(r)[13] = Access("hash", "context")
           /\ \A i \in 13..ScriptLength(r) :
                  \/ /\ Script(r)[i].op = "open" /\ i > ScriptLength(r) - 4
                     /\ Script(r)[i].file \in {"predicates", "roles", "edges", "mappings"}
                     /\ Script(r)[i].file = ParsedNext[i - (ScriptLength(r) - 4)]
                  \/ Grounded(r) /\ i = 13 /\ Script(r)[i] = Access("hash", "context")
                  \/ Grounded(r) /\ i = 14 /\ Script(r)[i] = Access("hash", "notice")
                  \/ Grounded(r) /\ i = 15 /\ Script(r)[i] = Access("open", "context")
<1>1. CASE Grounded(r)
    <2>. DEFINE start == Opening \o Grounding
    <2>1. Script(r) = start \o Parsing /\ start = Opening \o Grounding
        BY <1>1 DEF Script
    <2>. HIDE DEF start
    <2>2. /\ start \in Seq(Accesses) /\ Len(start) = 15
          /\ \A i \in 1..15 : start[i] = IF i <= 12 THEN Opening[i] ELSE Grounding[i - 12]
        <3>1. Follows(start, Opening, Grounding, 12, 3)
            BY <2>1, OpeningIs, GroundingIs, Joined, Zenon
        <3>. QED
            BY <3>1 DEF Follows
    <2>3. /\ Script(r) \in Seq(Accesses) /\ Len(Script(r)) = 19
          /\ \A i \in 1..19 : Script(r)[i] = IF i <= 15 THEN start[i] ELSE Parsing[i - 15]
        <3>1. Follows(Script(r), start, Parsing, 15, 4)
            BY <2>1, <2>2, ParsingIs, Joined, Zenon
        <3>. QED
            BY <3>1 DEF Follows
    <2>4. \A i \in 1..19 : Script(r)[i] = IF i <= 12 THEN Opening[i] ELSE
                                          IF i <= 15 THEN Grounding[i - 12] ELSE Parsing[i - 15]
        BY <2>2, <2>3
    <2>5. DOMAIN Script(r) = 1..19 /\ \A i \in 1..19 : Script(r)[i] \in Accesses
        BY <2>3, LenProperties, ElementOfSeq
    <2>. QED
        <3>1. /\ Script(r)[13].op = "hash" /\ Script(r)[14].op = "hash"
              /\ Script(r)[15] = Access("open", "context")
              /\ \A i \in 16..19 : Script(r)[i].file \notin {"trace", "projection", "context"}
            BY <2>4, GroundingIs, ParsingIs
        <3>2. \A i \in 1..12 : Script(r)[i] = Opening[i]
            BY <2>4
        <3>3. ASSUME NEW i \in 1..19
              PROVE  /\ Script(r)[i] = Access("open", "trace") <=> i = 4
                     /\ Script(r)[i] = Access("open", "projection") <=> i = 12
                     /\ Script(r)[i] = Access("open", "context") <=> i = 15
            <4>1. CASE i \in 1..12
                BY <3>2, <4>1, OpeningIs
            <4>2. CASE i \in 13..19
                <5>1. i \in {13, 14, 15} \/ i \in 16..19
                    BY <4>2
                <5>. QED
                    BY <3>1, <5>1 DEF Access
            <4>. QED
                BY <4>1, <4>2
        <3>4. /\ Script(r)[13] = Access("hash", "context") /\ Script(r)[14] = Access("hash", "notice")
              /\ Script(r)[15] = Access("open", "context")
              /\ \A i \in 16..19 : /\ Script(r)[i].op = "open"
                                   /\ Script(r)[i].file \in {"predicates", "roles", "edges", "mappings"}
                                   /\ Script(r)[i].file = ParsedNext[i - 15]
            BY <2>4, GroundingIs, ParsingIs
        <3>5. \A i \in 13..19 : i \in {13, 14, 15} \/ i \in 16..19
            OBVIOUS
        <3>. QED
            BY <1>1, <2>3, <2>5, <3>2, <3>3, <3>4, <3>5 DEF ScriptLength
<1>2. CASE ~Grounded(r)
    <2>1. Script(r) = (Opening \o <<>>) \o Parsing
        BY <1>2 DEF Script
    <2>2. Script(r) = Opening \o Parsing
        BY <2>1, OpeningIs, ConcatEmptySeq
    <2>3. /\ Script(r) \in Seq(Accesses) /\ Len(Script(r)) = 16
          /\ \A i \in 1..16 : Script(r)[i] = IF i <= 12 THEN Opening[i] ELSE Parsing[i - 12]
        <3>1. Follows(Script(r), Opening, Parsing, 12, 4)
            BY <2>2, OpeningIs, ParsingIs, Joined, Zenon
        <3>. QED
            BY <3>1 DEF Follows
    <2>4. DOMAIN Script(r) = 1..16 /\ \A i \in 1..16 : Script(r)[i] \in Accesses
        BY <2>3, LenProperties, ElementOfSeq
    <2>5. /\ \A i \in 1..12 : Script(r)[i] = Opening[i]
          /\ \A i \in 13..16 : /\ Script(r)[i].op = "open"
                               /\ Script(r)[i].file \in {"predicates", "roles", "edges", "mappings"}
                               /\ Script(r)[i].file = ParsedNext[i - 12]
        BY <2>3, ParsingIs
    <2>6. \A i \in 1..16 : /\ Script(r)[i] = Access("open", "trace") <=> i = 4
                           /\ Script(r)[i] = Access("open", "projection") <=> i = 12
                           /\ Script(r)[i] # Access("open", "context")
        BY <2>3, OpeningIs, ParsingIs DEF Access
    <2>. QED
        BY <1>2, <2>3, <2>4, <2>5, <2>6 DEF ScriptLength
<1>. QED
    BY <1>1, <1>2

(***************************************************************************)
(* Inspections.                                                            *)
(***************************************************************************)

Fields == {"at", "hashed", "opened", "replaced"}

(* What has been opened, once the script is past it, is as the trace says. *)
InspectionOK(r) ==
    /\ DOMAIN r = Fields /\ r.at \in Nat
    /\ r.at >= 5 => "trace" \in DOMAIN r.opened
    /\ r.at >= 13 => /\ "projection" \in DOMAIN r.opened
                     /\ r.opened["projection"].frames = r.opened["trace"].frames
    /\ r.at >= 16 /\ Grounded(r) => /\ "context" \in DOMAIN r.opened
                                    /\ r.opened["context"].facts = r.opened["trace"].sumo.facts

InspectionsOK ==
    /\ inspection = [q \in Inspections |-> inspection[q]]
    /\ \A q \in Inspections : InspectionOK(inspection[q])

LEMMA WaitingOK == InspectionOK(Waiting) /\ InspectionOK([Waiting EXCEPT !.at = 1])
BY DEF InspectionOK, Waiting, Fields

LEMMA NowIs ==
    ASSUME NEW r, r.at \in Nat, Working(r)
    PROVE  /\ r.at \in 1..ScriptLength(r) /\ Now(r) \in Accesses
           /\ Now(r).op = "open" /\ Now(r).file = "trace" <=> r.at = 4
           /\ Now(r).op = "open" /\ Now(r).file = "projection" <=> r.at = 12
           /\ Now(r).op = "open" /\ Now(r).file = "context" <=> r.at = 15 /\ Grounded(r)
<1>1. r.at \in 1..ScriptLength(r)
    BY ScriptIs DEF Working
<1>2. \A a \in Accesses, f \in Files : a = Access("open", f) <=> a.op = "open" /\ a.file = f
    BY DEF Accesses, Access
<1>3. {"trace", "projection", "context"} \subseteq Files
    BY DEF Files, Outputs
<1>4. /\ Now(r) \in Accesses
      /\ Now(r) = Access("open", "trace") <=> r.at = 4
      /\ Now(r) = Access("open", "projection") <=> r.at = 12
      /\ Now(r) = Access("open", "context") <=> r.at = 15 /\ Grounded(r)
    BY <1>1, ScriptIs DEF Now
<1>. QED
    BY <1>1, <1>2, <1>3, <1>4

(* Hashing opens nothing.                                                  *)
LEMMA HashStepOK ==
    ASSUME NEW r, InspectionOK(r), Working(r), Now(r).op = "hash", NEW hashed
    PROVE  InspectionOK([r EXCEPT !.at = @ + 1, !.hashed = hashed])
<1>. DEFINE next == [r EXCEPT !.at = @ + 1, !.hashed = hashed]
<1>1. DOMAIN next = Fields /\ next.at = r.at + 1 /\ next.opened = r.opened
    BY DEF InspectionOK, Fields
<1>2. r.at # 4 /\ r.at # 12 /\ ~(r.at = 15 /\ Grounded(r)) /\ r.at \in Nat
    BY NowIs DEF InspectionOK
<1>. HIDE DEF next
<1>3. Grounded(next) <=> Grounded(r)
    BY <1>1 DEF Grounded
<1>. QED
    BY <1>1, <1>2, <1>3 DEF InspectionOK, next

(* Opening a file checks it against the trace, which is not opened again.  *)
LEMMA OpenStepOK ==
    ASSUME NEW r, InspectionOK(r), Working(r), Now(r).op = "open", NEW content,
           OpenFits(r, Now(r).file, content)
    PROVE  InspectionOK([r EXCEPT !.at = @ + 1, !.opened = With(@, Now(r).file, content)])
<1>. DEFINE f == Now(r).file
            opened == With(r.opened, f, content)
            next == [r EXCEPT !.at = @ + 1, !.opened = With(@, Now(r).file, content)]
<1>1. DOMAIN next = Fields /\ next.at = r.at + 1 /\ next.opened = opened
    BY DEF InspectionOK, Fields
<1>2. /\ r.at \in Nat
      /\ f = "trace" <=> r.at = 4
      /\ f = "projection" <=> r.at = 12
      /\ f = "context" <=> r.at = 15 /\ Grounded(r)
    BY NowIs DEF InspectionOK
<1>3. /\ DOMAIN opened = DOMAIN r.opened \cup {f}
      /\ opened[f] = content
      /\ \A g \in DOMAIN r.opened : g # f => opened[g] = r.opened[g]
    BY DEF With
<1>4. /\ f = "projection" => content.frames = r.opened["trace"].frames
      /\ f = "context" => content.facts = r.opened["trace"].sumo.facts
    BY DEF OpenFits, ProjectionFits, ContextFits, Assets
<1>. HIDE DEF f, opened, next
<1>5. f # "trace" => (Grounded(next) <=> Grounded(r))
    BY <1>1, <1>3 DEF Grounded
<1>6. r.at + 1 >= 5 => "trace" \in DOMAIN opened
    BY <1>2, <1>3 DEF InspectionOK
<1>7. r.at + 1 >= 13 => /\ "projection" \in DOMAIN opened
                        /\ opened["projection"].frames = opened["trace"].frames
    <2>1. CASE r.at = 12
        BY <1>2, <1>3, <1>4, <2>1 DEF InspectionOK
    <2>2. CASE r.at >= 13
        BY <1>2, <1>3, <2>2 DEF InspectionOK
    <2>. QED
        BY <1>2, <2>1, <2>2
<1>8. r.at + 1 >= 16 /\ Grounded(next) =>
          /\ "context" \in DOMAIN opened
          /\ opened["context"].facts = opened["trace"].sumo.facts
    <2>1. CASE r.at = 15 /\ Grounded(r)
        BY <1>2, <1>3, <1>4, <2>1 DEF InspectionOK
    <2>2. CASE r.at >= 16 /\ Grounded(r)
        BY <1>2, <1>3, <2>2 DEF InspectionOK
    <2>. QED
        BY <1>2, <1>5, <2>1, <2>2
<1>9. r.at + 1 \in Nat
    BY <1>2
<1>. QED
    BY <1>1, <1>6, <1>7, <1>8, <1>9 DEF InspectionOK, next, f

(* An inspection keeps what it has read when a file is replaced under it.  *)
LEMMA ReplacedIs ==
    ASSUME NEW g, NEW q \in Inspections, DOMAIN inspection[q] = Fields, inspection' = Replaced(g)
    PROVE  /\ DOMAIN inspection'[q] = Fields /\ inspection'[q].at = inspection[q].at
           /\ inspection'[q].hashed = inspection[q].hashed
           /\ inspection'[q].opened = inspection[q].opened
           /\ inspection'[q].replaced =
                  IF g \in DOMAIN inspection[q].hashed \ DOMAIN inspection[q].opened
                  THEN inspection[q].replaced \cup {g} ELSE inspection[q].replaced
<1>. DEFINE r == inspection[q]
<1>1. CASE g \in DOMAIN r.hashed \ DOMAIN r.opened
    <2>1. inspection'[q] = [r EXCEPT !.replaced = @ \cup {g}]
        BY <1>1 DEF Replaced
    <2>. QED
        BY <1>1, <2>1 DEF Fields
<1>2. CASE g \notin DOMAIN r.hashed \ DOMAIN r.opened
    BY <1>2 DEF Replaced
<1>. QED
    BY <1>1, <1>2

LEMMA ReplacedOK ==
    ASSUME InspectionsOK, NEW g, inspection' = Replaced(g)
    PROVE  InspectionsOK'
<1>1. ASSUME NEW q \in Inspections
      PROVE  InspectionOK(inspection'[q])
    <2>1. InspectionOK(inspection[q]) /\ DOMAIN inspection[q] = Fields
        BY DEF InspectionsOK, InspectionOK
    <2>2. /\ DOMAIN inspection'[q] = Fields /\ inspection'[q].at = inspection[q].at
          /\ inspection'[q].opened = inspection[q].opened
        BY <2>1, ReplacedIs
    <2>. QED
        BY <2>1, <2>2 DEF InspectionOK, Grounded
<1>2. inspection' = [q \in Inspections |-> inspection'[q]]
    BY DEF Replaced
<1>. QED
    BY <1>1, <1>2 DEF InspectionsOK

LEMMA InspectOK ==
    ASSUME InspectionsOK, NEW q \in Inspections, InspectionStep(q)
    PROVE  InspectionsOK'
<1>1. InspectionOK(inspection[q])
    BY DEF InspectionsOK
<1>2. ASSUME NEW state, InspectionOK(state), Inspect(q, state) PROVE InspectionsOK'
    <2>1. inspection' = [o \in Inspections |-> IF o = q THEN state ELSE inspection[o]]
        BY <1>2 DEF Inspect, InspectionsOK
    <2>2. \A o \in Inspections : InspectionOK(inspection'[o])
        BY <1>2, <2>1 DEF InspectionsOK
    <2>. QED
        BY <2>1, <2>2 DEF InspectionsOK
<1>3. CASE StartInspection(q)
    BY <1>2, <1>3, WaitingOK DEF StartInspection
<1>4. CASE TakeStep(q)
    <2>. DEFINE r == inspection[q]
                f == Now(r).file
    <2>1. Working(r) /\ Fits(r)
        BY <1>4 DEF TakeStep
    <2>2. Now(r).op \in {"hash", "open"}
        BY <1>1, <2>1, NowIs DEF InspectionOK, Accesses
    <2>3. CASE Now(r).op = "hash"
        <3>1. Inspect(q, [r EXCEPT !.at = @ + 1, !.hashed = With(@, f, disk[f])])
            BY <1>4, <2>3 DEF TakeStep
        <3>2. [r EXCEPT !.at = @ + 1, !.hashed = With(@, f, disk[f])]
                  = [r EXCEPT !.at = @ + 1, !.hashed = With(r.hashed, f, disk[f])]
            OBVIOUS
        <3>3. InspectionOK([r EXCEPT !.at = @ + 1, !.hashed = With(r.hashed, f, disk[f])])
            BY <1>1, <2>1, <2>3, HashStepOK
        <3>. QED
            BY <1>2, <3>1, <3>2, <3>3
    <2>4. CASE Now(r).op = "open"
        <3>1. Inspect(q, [r EXCEPT !.at = @ + 1, !.opened = With(@, f, disk[f])])
            BY <1>4, <2>4 DEF TakeStep
        <3>2. OpenFits(r, f, disk[f])
            BY <2>1, <2>4 DEF Fits
        <3>3. InspectionOK([r EXCEPT !.at = @ + 1, !.opened = With(@, f, disk[f])])
            BY <1>1, <2>1, <2>4, <3>2, OpenStepOK
        <3>. QED
            BY <1>2, <3>1, <3>3
    <2>. QED
        BY <2>2, <2>3, <2>4
<1>5. CASE InspectionRefused(q)
    BY <1>2, <1>5, WaitingOK DEF InspectionRefused
<1>6. CASE Return(q)
    BY <1>2, <1>6, WaitingOK DEF Return
<1>. QED
    BY <1>3, <1>4, <1>5, <1>6 DEF InspectionStep

(***************************************************************************)
(* Every step is an inspection's, a change of a file that inspections      *)
(* under way see, or one they do not see.                                  *)
(***************************************************************************)
LEMMA PublisherUnseen ==
    ASSUME NEW p \in Publishers, PublisherStep(p)
    PROVE  (\E g : inspection' = Replaced(g)) \/ inspection' = inspection
BY DEF PublisherStep, StartPublication, OpenArchive, ArchiveRefused, CheckInputs, InputsRefused,
       BuildTrace, Stage, Recheck, OutputRefused, BackUp, NothingToBackUp, Publish, Cleanup,
       CallFails, BackUpUnrecorded, PublishUnrecorded, Restore, Withdraw, RollbackFails,
       Raise, Kill, Become, Place

LEMMA InspectionsInvariant == Spec => []InspectionsOK
<1>1. Init => InspectionsOK
    BY WaitingOK DEF Init, InspectionsOK
<1>2. InspectionsOK /\ [Next]_vars => InspectionsOK'
    <2>. SUFFICES ASSUME InspectionsOK, [Next]_vars PROVE InspectionsOK'
        OBVIOUS
    <2>1. ASSUME inspection' = inspection PROVE InspectionsOK'
        BY <2>1 DEF InspectionsOK
    <2>2. ASSUME NEW p \in Publishers, PublisherStep(p) PROVE InspectionsOK'
        BY <2>1, <2>2, PublisherUnseen, ReplacedOK
    <2>3. ASSUME NEW q \in Inspections, InspectionStep(q) PROVE InspectionsOK'
        BY <2>3, InspectOK
    <2>4. ASSUME NEW f \in Files, NEW r \in Releases, Install(f, r) PROVE InspectionsOK'
        BY <2>4, ReplacedOK DEF Install
    <2>5. ASSUME NEW a \in Archives, ReplaceArchive(a) PROVE InspectionsOK'
        BY <2>1, <2>5 DEF ReplaceArchive
    <2>6. CASE UNCHANGED vars
        BY <2>1, <2>6 DEF vars
    <2>. QED
        BY <2>2, <2>3, <2>4, <2>5, <2>6 DEF Next
<1>. QED
    BY <1>1, <1>2, PTL DEF Spec

(* A bundle has the frames and the SUMO facts its trace names, whatever    *)
(* was replaced while it was inspected.                                    *)
THEOREM FramesAreExact == Spec => []ExactFrames
<1>1. InspectionsOK => ExactFrames
    <2>. SUFFICES ASSUME InspectionsOK, NEW q \in Inspections, Complete(inspection[q])
                  PROVE  LET r == inspection[q]
                         IN  /\ r.opened["projection"].frames = r.opened["trace"].frames
                             /\ Grounded(r) => r.opened["context"].facts = r.opened["trace"].sumo.facts
        BY DEF ExactFrames
    <2>1. InspectionOK(inspection[q])
        BY DEF InspectionsOK
    <2>2. inspection[q].at >= 16
        BY ScriptIs DEF Complete, ScriptLength
    <2>. QED
        BY <2>1, <2>2 DEF InspectionOK
<1>. QED
    BY <1>1, InspectionsInvariant, PTL

(***************************************************************************)
(* Publications.                                                           *)
(***************************************************************************)
ClaimFields ==
    {"pc", "at", "payload", "backup", "published", "before", "disturbed", "spoiled", "stray"}

Place1(f) == IF f = "projection" THEN 1 ELSE 2

(* The backup of a publication has what was there.                         *)
Saved(j, f) ==
    IF j.before[f] = Absent THEN f \notin DOMAIN j.backup
    ELSE f \in DOMAIN j.backup /\ j.backup[f] = j.before[f]

(* What was there exists somewhere.                                        *)
Kept(j, d, f) ==
    j.before[f] # Absent =>
        \/ j.before[f] = d[f]
        \/ f \in DOMAIN j.backup /\ j.before[f] = j.backup[f]
        \/ f \in DOMAIN j.stray /\ j.before[f] = j.stray[f]

(* What is still to be rolled back can be.                                 *)
Recoverable(j, d, f) ==
    /\ f \in DOMAIN j.backup => j.backup[f] = j.before[f]
    /\ f \notin DOMAIN j.backup /\ f \in j.published => j.before[f] = Absent
    /\ ~j.spoiled /\ f \notin DOMAIN j.backup /\ f \notin j.published => d[f] = j.before[f]

OutputOK(j, d, f) ==
    /\ j.pc = "backup" =>
           /\ f \notin j.published
           /\ IF Place1(f) < j.at THEN Saved(j, f) /\ d[f] = Absent
              ELSE f \notin DOMAIN j.backup /\ d[f] = j.before[f]
    /\ j.pc = "publish" =>
           /\ Saved(j, f)
           /\ IF Place1(f) < j.at THEN f \in j.published /\ d[f] = j.payload[f]
              ELSE f \notin j.published /\ d[f] = Absent
    /\ j.pc = "cleanup" => d[f] = j.payload[f]
    /\ j.pc = "rollback" =>
           /\ Kept(j, d, f)
           /\ IF Place1(f) <= j.at THEN Recoverable(j, d, f)
              ELSE ~j.spoiled => d[f] = j.before[f]
    /\ j.pc = "failed" => Kept(j, d, f) /\ (~j.spoiled => d[f] = j.before[f])

JobOK(j, d) ==
    /\ "pc" \in DOMAIN j
    /\ j.pc \in Claiming =>
           /\ DOMAIN j = ClaimFields /\ j.at \in {1, 2}
           /\ ~j.disturbed => \A f \in Outputs : OutputOK(j, d, f)

PublishersOK ==
    /\ DOMAIN disk = Files
    /\ job = [p \in Publishers |-> job[p]]
    /\ \A p \in Publishers : JobOK(job[p], disk)

LEMMA OrderIs ==
    /\ Len(Order) = 2 /\ Order[1] = "projection" /\ Order[2] = "trace"
    /\ Outputs = {"projection", "trace"} /\ Outputs \subseteq Files
BY DEF Order, Outputs, Files

LEMMA SubjectIs ==
    ASSUME NEW p \in Publishers, job[p].at \in {1, 2}
    PROVE  /\ Subject(p) \in Outputs /\ Place1(Subject(p)) = job[p].at
           /\ \A f \in Outputs : f # Subject(p) => Place1(f) # job[p].at
BY OrderIs DEF Subject, Place1

LEMMA BecomeKeeps ==
    ASSUME PublishersOK, NEW p \in Publishers, NEW state, Become(p, state), JobOK(state, disk)
    PROVE  PublishersOK'
<1>1. job' = [o \in Publishers |-> IF o = p THEN state ELSE job[o]] /\ disk' = disk
    BY DEF Become, PublishersOK
<1>. QED
    BY <1>1 DEF PublishersOK

(* Others who have looked at their outputs take note of a change.          *)
LEMMA DisturbedOK ==
    ASSUME NEW p \in Publishers, NEW f \in Outputs, JobOK(job[p], disk), NEW d
    PROVE  JobOK(Disturbed(p, f), d)
<1>1. CASE job[p].pc \in Claiming
    <2>1. Disturbed(p, f) = [job[p] EXCEPT !.disturbed = TRUE]
        BY <1>1 DEF Disturbed
    <2>. QED
        BY <1>1, <2>1 DEF JobOK, ClaimFields
<1>2. CASE job[p].pc \notin Claiming
    BY <1>2 DEF Disturbed, JobOK
<1>. QED
    BY <1>1, <1>2

LEMMA PlaceKeeps ==
    ASSUME PublishersOK, NEW p \in Publishers, NEW f \in Outputs, NEW content, NEW state,
           Place(p, f, content, state), JobOK(state, [disk EXCEPT ![f] = content])
    PROVE  PublishersOK'
<1>1. /\ disk' = [disk EXCEPT ![f] = content]
      /\ job' = [o \in Publishers |-> IF o = p THEN state ELSE Disturbed(o, f)]
    BY DEF Place
<1>2. DOMAIN disk' = Files
    BY <1>1 DEF PublishersOK
<1>3. ASSUME NEW o \in Publishers PROVE JobOK(job'[o], disk')
    <2>1. CASE o = p
        BY <1>1, <2>1
    <2>2. CASE o # p
        <3>1. job'[o] = Disturbed(o, f)
            BY <1>1, <2>2
        <3>. QED
            BY <3>1, DisturbedOK DEF PublishersOK
    <2>. QED
        BY <2>1, <2>2
<1>4. job' = [o \in Publishers |-> job'[o]]
    BY <1>1
<1>. QED
    BY <1>2, <1>3, <1>4 DEF PublishersOK

LEMMA ClaimingIs == Claiming = {"backup", "publish", "cleanup", "rollback", "failed"}
BY DEF Claiming

(* Before the outputs are looked at for the last time nothing is claimed.  *)
LEMMA UnclaimedOK ==
    ASSUME NEW d, NEW state, "pc" \in DOMAIN state, state.pc \notin Claiming
    PROVE  JobOK(state, d)
BY DEF JobOK

LEMMA EarlyStepKeeps ==
    ASSUME PublishersOK, NEW p \in Publishers,
           \/ OpenArchive(p) \/ ArchiveRefused(p) \/ CheckInputs(p) \/ InputsRefused(p)
           \/ BuildTrace(p) \/ Stage(p) \/ OutputRefused(p)
           \/ Cleanup(p) \/ Raise(p) \/ Kill(p)
    PROVE  PublishersOK'
<1>1. "pc" \in DOMAIN job[p]
    BY DEF PublishersOK, JobOK
<1>2. "pc" \in DOMAIN IdleJob /\ IdleJob.pc \notin Claiming
    BY ClaimingIs DEF IdleJob
<1>3. ASSUME Become(p, IdleJob) PROVE PublishersOK'
    BY <1>2, <1>3, UnclaimedOK, BecomeKeeps
<1>4. CASE OpenArchive(p)
    <2>. DEFINE state == [pc |-> "check", force |-> job[p].force, projection |-> ProjectionOf(archive, Pinned)]
    <2>1. "pc" \in DOMAIN state /\ state.pc \notin Claiming
        BY ClaimingIs
    <2>2. Become(p, state)
        BY <1>4 DEF OpenArchive
    <2>. HIDE DEF state
    <2>. QED
        BY <2>1, <2>2, UnclaimedOK, BecomeKeeps
<1>5. CASE CheckInputs(p)
    <2>. DEFINE state == [job[p] EXCEPT !.pc = "hash"]
    <2>1. "pc" \in DOMAIN state /\ state.pc \notin Claiming
        BY <1>1, ClaimingIs
    <2>2. Become(p, state)
        BY <1>5 DEF CheckInputs
    <2>. HIDE DEF state
    <2>. QED
        BY <2>1, <2>2, UnclaimedOK, BecomeKeeps
<1>6. CASE BuildTrace(p)
    <2>. DEFINE trace == TraceOf(job[p].projection, disk["manifest"], disk["attribution"])
                state == [pc |-> "stage", force |-> job[p].force,
                          payload |-> [projection |-> job[p].projection, trace |-> trace]]
    <2>1. "pc" \in DOMAIN state /\ state.pc \notin Claiming
        BY ClaimingIs
    <2>2. Become(p, state)
        BY <1>6 DEF BuildTrace
    <2>. HIDE DEF state
    <2>. QED
        BY <2>1, <2>2, UnclaimedOK, BecomeKeeps
<1>7. CASE Stage(p)
    <2>. DEFINE state == [job[p] EXCEPT !.pc = "recheck"]
    <2>1. "pc" \in DOMAIN state /\ state.pc \notin Claiming
        BY <1>1, ClaimingIs
    <2>2. Become(p, state)
        BY <1>7 DEF Stage
    <2>. HIDE DEF state
    <2>. QED
        BY <2>1, <2>2, UnclaimedOK, BecomeKeeps
<1>. QED
    BY <1>3, <1>4, <1>5, <1>6, <1>7
       DEF ArchiveRefused, InputsRefused, OutputRefused, Cleanup, Raise, Kill

(* Without --force there is nothing to back up.                            *)
LEMMA RecheckKeeps ==
    ASSUME PublishersOK, NEW p \in Publishers, Recheck(p)
    PROVE  PublishersOK'
<1>. DEFINE state == [pc |-> IF job[p].force THEN "backup" ELSE "publish", at |-> 1,
                      payload |-> job[p].payload, backup |-> Nothing, published |-> {},
                      before |-> [f \in Outputs |-> disk[f]],
                      disturbed |-> FALSE, spoiled |-> FALSE, stray |-> Nothing]
<1>1. /\ DOMAIN state = ClaimFields /\ state.at = 1
      /\ state.pc = IF job[p].force THEN "backup" ELSE "publish"
      /\ state.backup = Nothing /\ state.published = {}
      /\ \A f \in Outputs : state.before[f] = disk[f]
    BY DEF ClaimFields
<1>2. DOMAIN Nothing = {}
    BY DEF Nothing
<1>3. job[p].force \/ \A f \in Outputs : disk[f] = Absent
    BY DEF Recheck, Writable
<1>4. Become(p, state)
    BY DEF Recheck
<1>5. \A f \in Outputs : Place1(f) \in {1, 2}
    BY DEF Place1
<1>. HIDE DEF state
<1>6. ASSUME NEW f \in Outputs PROVE OutputOK(state, disk, f)
    <2>1. CASE job[p].force
        BY <1>1, <1>2, <1>5, <2>1 DEF OutputOK
    <2>2. CASE ~job[p].force
        BY <1>1, <1>2, <1>3, <1>5, <2>2 DEF OutputOK, Saved
    <2>. QED
        BY <2>1, <2>2
<1>7. JobOK(state, disk)
    BY <1>1, <1>6 DEF JobOK, ClaimFields
<1>. QED
    BY <1>4, <1>7, BecomeKeeps

(***************************************************************************)
(* From one output to the next.                                            *)
(***************************************************************************)
SameClaim(n, j) ==
    /\ DOMAIN n = ClaimFields
    /\ n.payload = j.payload /\ n.before = j.before /\ n.disturbed = j.disturbed

LEMMA AdvanceIs ==
    ASSUME NEW j, DOMAIN j = ClaimFields, j.at \in {1, 2}, NEW pc, NEW n, n = Advance(j, pc)
    PROVE  /\ SameClaim(n, j) /\ n.backup = j.backup /\ n.published = j.published
           /\ n.spoiled = j.spoiled /\ n.stray = j.stray
           /\ n.at = IF j.at = 2 THEN 1 ELSE 2
           /\ n.pc = IF j.at = 2 THEN pc ELSE j.pc
<1>1. CASE j.at = 2
    <2>1. n = [j EXCEPT !.pc = pc, !.at = 1]
        BY <1>1, OrderIs DEF Advance
    <2>. QED
        BY <1>1, <2>1 DEF SameClaim, ClaimFields
<1>2. CASE j.at = 1
    <2>1. n = [j EXCEPT !.at = @ + 1]
        BY <1>2, OrderIs DEF Advance
    <2>. QED
        BY <1>2, <2>1 DEF SameClaim, ClaimFields
<1>. QED
    BY <1>1, <1>2

LEMMA RetreatIs ==
    ASSUME NEW j, DOMAIN j = ClaimFields, j.at \in {1, 2}, NEW n, n = Retreat(j)
    PROVE  /\ SameClaim(n, j) /\ n.backup = j.backup /\ n.published = j.published
           /\ n.spoiled = j.spoiled /\ n.stray = j.stray
           /\ n.at = 1
           /\ n.pc = IF j.at = 1 THEN "failed" ELSE j.pc
<1>1. CASE j.at = 1
    <2>1. n = [j EXCEPT !.pc = "failed"]
        BY <1>1 DEF Retreat
    <2>. QED
        BY <1>1, <2>1 DEF SameClaim, ClaimFields
<1>2. CASE j.at = 2
    <2>1. n = [j EXCEPT !.at = @ - 1]
        BY <1>2 DEF Retreat
    <2>. QED
        BY <1>2, <2>1 DEF SameClaim, ClaimFields
<1>. QED
    BY <1>1, <1>2

LEMMA RollingBackIs ==
    ASSUME NEW j, DOMAIN j = ClaimFields, NEW n, n = RollingBack(j)
    PROVE  /\ SameClaim(n, j) /\ n.backup = j.backup /\ n.published = j.published
           /\ n.spoiled = j.spoiled /\ n.stray = j.stray
           /\ n.at = 2 /\ n.pc = "rollback"
BY OrderIs DEF RollingBack, SameClaim, ClaimFields

LEMMA ClaimedIs ==
    ASSUME PublishersOK, NEW p \in Publishers, job[p].pc \in Claiming
    PROVE  /\ DOMAIN job[p] = ClaimFields /\ job[p].at \in {1, 2}
           /\ ~job[p].disturbed => \A f \in Outputs : OutputOK(job[p], disk, f)
           /\ Subject(p) \in Outputs /\ Place1(Subject(p)) = job[p].at
           /\ \A f \in Outputs : f # Subject(p) => Place1(f) # job[p].at
           /\ \A f \in Outputs : Place1(f) \in {1, 2}
<1>1. /\ DOMAIN job[p] = ClaimFields /\ job[p].at \in {1, 2}
      /\ ~job[p].disturbed => \A f \in Outputs : OutputOK(job[p], disk, f)
    BY DEF PublishersOK, JobOK
<1>. QED
    BY <1>1, SubjectIs DEF Place1

LEMMA PlacedIs ==
    ASSUME PublishersOK, NEW f \in Outputs, NEW content
    PROVE  \A g \in Outputs : [disk EXCEPT ![f] = content][g] = IF g = f THEN content ELSE disk[g]
BY OrderIs DEF PublishersOK

(***************************************************************************)
(* The outputs go forward.                                                 *)
(***************************************************************************)
LEMMA BackUpKeeps ==
    ASSUME PublishersOK, NEW p \in Publishers, BackUp(p)
    PROVE  PublishersOK'
<1>. DEFINE j == job[p]
            f == Subject(p)
            b == [j EXCEPT !.backup = With(@, f, disk[f])]
            n == Advance(b, "publish")
            d == [disk EXCEPT ![f] = Absent]
<1>1. j.pc = "backup" /\ disk[f] # Absent /\ Place(p, f, Absent, n)
    BY DEF BackUp, At
<1>2. /\ DOMAIN j = ClaimFields /\ j.at \in {1, 2} /\ f \in Outputs
      /\ ~j.disturbed => \A g \in Outputs : OutputOK(j, disk, g)
      /\ Place1(f) = j.at
      /\ \A g \in Outputs : (g # f => Place1(g) # j.at) /\ Place1(g) \in {1, 2}
    BY <1>1, ClaimedIs, ClaimingIs
<1>3. /\ DOMAIN b = ClaimFields /\ b.at = j.at /\ b.pc = "backup" /\ b.published = j.published
      /\ b.before = j.before /\ b.disturbed = j.disturbed
      /\ b.backup = With(j.backup, f, disk[f])
    BY <1>1, <1>2 DEF ClaimFields
<1>4. /\ DOMAIN b.backup = DOMAIN j.backup \cup {f} /\ b.backup[f] = disk[f]
      /\ \A g \in DOMAIN j.backup : g # f => b.backup[g] = j.backup[g]
    BY <1>3 DEF With
<1>5. \A g \in Outputs : d[g] = IF g = f THEN Absent ELSE disk[g]
    BY <1>2, PlacedIs
<1>. HIDE DEF b, d, j, f
<1>6. /\ SameClaim(n, b) /\ n.backup = b.backup /\ n.published = b.published
      /\ n.at = (IF b.at = 2 THEN 1 ELSE 2) /\ n.pc = IF b.at = 2 THEN "publish" ELSE b.pc
    BY <1>2, <1>3, AdvanceIs
<1>. HIDE DEF n
<1>7. ASSUME ~n.disturbed, NEW g \in Outputs PROVE OutputOK(n, d, g)
    <2>1. OutputOK(j, disk, g) /\ OutputOK(j, disk, f)
        BY <1>2, <1>3, <1>6, <1>7 DEF SameClaim
    <2>. QED
        BY <1>1, <1>2, <1>3, <1>4, <1>5, <1>6, <2>1 DEF OutputOK, Saved, SameClaim
<1>8. JobOK(n, d)
    BY <1>6, <1>7 DEF JobOK, SameClaim, ClaimFields
<1>. QED
    BY <1>1, <1>2, <1>8, PlaceKeeps DEF d

LEMMA NothingToBackUpKeeps ==
    ASSUME PublishersOK, NEW p \in Publishers, NothingToBackUp(p)
    PROVE  PublishersOK'
<1>. DEFINE j == job[p]
            f == Subject(p)
            n == Advance(j, "publish")
<1>1. j.pc = "backup" /\ disk[f] = Absent /\ Become(p, n)
    BY DEF NothingToBackUp, At
<1>2. /\ DOMAIN j = ClaimFields /\ j.at \in {1, 2} /\ f \in Outputs
      /\ ~j.disturbed => \A g \in Outputs : OutputOK(j, disk, g)
      /\ Place1(f) = j.at
      /\ \A g \in Outputs : (g # f => Place1(g) # j.at) /\ Place1(g) \in {1, 2}
    BY <1>1, ClaimedIs, ClaimingIs
<1>. HIDE DEF j, f
<1>3. /\ SameClaim(n, j) /\ n.backup = j.backup /\ n.published = j.published
      /\ n.at = (IF j.at = 2 THEN 1 ELSE 2) /\ n.pc = IF j.at = 2 THEN "publish" ELSE j.pc
    BY <1>2, AdvanceIs
<1>. HIDE DEF n
<1>4. ASSUME ~n.disturbed, NEW g \in Outputs PROVE OutputOK(n, disk, g)
    <2>1. OutputOK(j, disk, g) /\ OutputOK(j, disk, f)
        BY <1>2, <1>3, <1>4 DEF SameClaim
    <2>. QED
        BY <1>1, <1>2, <1>3, <2>1 DEF OutputOK, Saved, SameClaim
<1>5. JobOK(n, disk)
    BY <1>3, <1>4 DEF JobOK, SameClaim, ClaimFields
<1>. QED
    BY <1>1, <1>5, BecomeKeeps

LEMMA PublishKeeps ==
    ASSUME PublishersOK, NEW p \in Publishers, Publish(p)
    PROVE  PublishersOK'
<1>. DEFINE j == job[p]
            f == Subject(p)
            b == [j EXCEPT !.published = @ \cup {f}]
            n == Advance(b, "cleanup")
            d == [disk EXCEPT ![f] = j.payload[f]]
<1>1. j.pc = "publish" /\ Place(p, f, j.payload[f], n)
    BY DEF Publish, At
<1>2. /\ DOMAIN j = ClaimFields /\ j.at \in {1, 2} /\ f \in Outputs
      /\ ~j.disturbed => \A g \in Outputs : OutputOK(j, disk, g)
      /\ Place1(f) = j.at
      /\ \A g \in Outputs : (g # f => Place1(g) # j.at) /\ Place1(g) \in {1, 2}
    BY <1>1, ClaimedIs, ClaimingIs
<1>3. /\ DOMAIN b = ClaimFields /\ b.at = j.at /\ b.pc = "publish" /\ b.backup = j.backup
      /\ b.before = j.before /\ b.disturbed = j.disturbed /\ b.payload = j.payload
      /\ b.published = j.published \cup {f}
    BY <1>1, <1>2 DEF ClaimFields
<1>4. \A g \in Outputs : d[g] = IF g = f THEN j.payload[f] ELSE disk[g]
    BY <1>2, PlacedIs
<1>. HIDE DEF b, d, j, f
<1>5. /\ SameClaim(n, b) /\ n.backup = b.backup /\ n.published = b.published
      /\ n.at = (IF b.at = 2 THEN 1 ELSE 2) /\ n.pc = IF b.at = 2 THEN "cleanup" ELSE b.pc
    BY <1>2, <1>3, AdvanceIs
<1>. HIDE DEF n
<1>6. ASSUME ~n.disturbed, NEW g \in Outputs PROVE OutputOK(n, d, g)
    <2>1. OutputOK(j, disk, g) /\ OutputOK(j, disk, f)
        BY <1>2, <1>3, <1>5, <1>6 DEF SameClaim
    <2>. QED
        BY <1>1, <1>2, <1>3, <1>4, <1>5, <2>1 DEF OutputOK, Saved, SameClaim
<1>7. JobOK(n, d)
    BY <1>5, <1>6 DEF JobOK, SameClaim, ClaimFields
<1>. QED
    BY <1>1, <1>2, <1>7, PlaceKeeps DEF d

(***************************************************************************)
(* And back.                                                               *)
(***************************************************************************)
LEMMA CallFailsKeeps ==
    ASSUME PublishersOK, NEW p \in Publishers, CallFails(p)
    PROVE  PublishersOK'
<1>. DEFINE j == job[p]
            n == RollingBack(j)
<1>1. j.pc \in {"backup", "publish"} /\ Become(p, n)
    BY DEF CallFails, At
<1>2. /\ DOMAIN j = ClaimFields
      /\ ~j.disturbed => \A g \in Outputs : OutputOK(j, disk, g)
      /\ \A g \in Outputs : Place1(g) \in {1, 2}
    BY <1>1, ClaimedIs, ClaimingIs
<1>. HIDE DEF j
<1>3. /\ SameClaim(n, j) /\ n.backup = j.backup /\ n.published = j.published
      /\ n.spoiled = j.spoiled /\ n.stray = j.stray /\ n.at = 2 /\ n.pc = "rollback"
    BY <1>2, RollingBackIs
<1>. HIDE DEF n
<1>4. ASSUME ~n.disturbed, NEW g \in Outputs PROVE OutputOK(n, disk, g)
    <2>1. OutputOK(j, disk, g)
        BY <1>2, <1>3, <1>4 DEF SameClaim
    <2>. QED
        BY <1>1, <1>2, <1>3, <2>1 DEF OutputOK, Saved, SameClaim, Kept, Recoverable
<1>5. JobOK(n, disk)
    BY <1>3, <1>4 DEF JobOK, SameClaim, ClaimFields
<1>. QED
    BY <1>1, <1>5, BecomeKeeps

LEMMA BackUpUnrecordedKeeps ==
    ASSUME PublishersOK, NEW p \in Publishers, BackUpUnrecorded(p)
    PROVE  PublishersOK'
<1>. DEFINE j == job[p]
            f == Subject(p)
            b == [j EXCEPT !.spoiled = TRUE, !.stray = With(@, f, disk[f])]
            n == RollingBack(b)
            d == [disk EXCEPT ![f] = Absent]
<1>1. j.pc = "backup" /\ Place(p, f, Absent, n)
    BY DEF BackUpUnrecorded, At
<1>2. /\ DOMAIN j = ClaimFields /\ j.at \in {1, 2} /\ f \in Outputs
      /\ ~j.disturbed => \A g \in Outputs : OutputOK(j, disk, g)
      /\ Place1(f) = j.at
      /\ \A g \in Outputs : (g # f => Place1(g) # j.at) /\ Place1(g) \in {1, 2}
    BY <1>1, ClaimedIs, ClaimingIs
<1>3. /\ DOMAIN b = ClaimFields /\ b.published = j.published /\ b.backup = j.backup
      /\ b.before = j.before /\ b.disturbed = j.disturbed /\ b.spoiled
      /\ b.stray = With(j.stray, f, disk[f])
    BY <1>1, <1>2 DEF ClaimFields
<1>4. f \in DOMAIN b.stray /\ b.stray[f] = disk[f]
    BY <1>3 DEF With
<1>5. \A g \in Outputs : d[g] = IF g = f THEN Absent ELSE disk[g]
    BY <1>2, PlacedIs
<1>. HIDE DEF b, d, j, f
<1>6. /\ SameClaim(n, b) /\ n.backup = b.backup /\ n.published = b.published
      /\ n.spoiled = b.spoiled /\ n.stray = b.stray /\ n.at = 2 /\ n.pc = "rollback"
    BY <1>3, RollingBackIs
<1>. HIDE DEF n
<1>7. ASSUME ~n.disturbed, NEW g \in Outputs PROVE OutputOK(n, d, g)
    <2>1. OutputOK(j, disk, g) /\ OutputOK(j, disk, f)
        BY <1>2, <1>3, <1>6, <1>7 DEF SameClaim
    <2>. QED
        BY <1>1, <1>2, <1>3, <1>4, <1>5, <1>6, <2>1 DEF OutputOK, Saved, SameClaim, Kept, Recoverable
<1>8. JobOK(n, d)
    BY <1>6, <1>7 DEF JobOK, SameClaim, ClaimFields
<1>. QED
    BY <1>1, <1>2, <1>8, PlaceKeeps DEF d

LEMMA PublishUnrecordedKeeps ==
    ASSUME PublishersOK, NEW p \in Publishers, PublishUnrecorded(p)
    PROVE  PublishersOK'
<1>. DEFINE j == job[p]
            f == Subject(p)
            b == [j EXCEPT !.spoiled = TRUE]
            n == RollingBack(b)
            d == [disk EXCEPT ![f] = j.payload[f]]
<1>1. j.pc = "publish" /\ Place(p, f, j.payload[f], n)
    BY DEF PublishUnrecorded, At
<1>2. /\ DOMAIN j = ClaimFields /\ j.at \in {1, 2} /\ f \in Outputs
      /\ ~j.disturbed => \A g \in Outputs : OutputOK(j, disk, g)
      /\ \A g \in Outputs : Place1(g) \in {1, 2}
      /\ Place1(f) = j.at
    BY <1>1, ClaimedIs, ClaimingIs
<1>3. /\ DOMAIN b = ClaimFields /\ b.published = j.published /\ b.backup = j.backup
      /\ b.before = j.before /\ b.disturbed = j.disturbed /\ b.spoiled
    BY <1>1, <1>2 DEF ClaimFields
<1>4. \A g \in Outputs : d[g] = IF g = f THEN j.payload[f] ELSE disk[g]
    BY <1>2, PlacedIs
<1>. HIDE DEF b, d, j, f
<1>5. /\ SameClaim(n, b) /\ n.backup = b.backup /\ n.published = b.published
      /\ n.spoiled = b.spoiled /\ n.at = 2 /\ n.pc = "rollback"
    BY <1>3, RollingBackIs
<1>. HIDE DEF n
<1>6. ASSUME ~n.disturbed, NEW g \in Outputs PROVE OutputOK(n, d, g)
    <2>1. OutputOK(j, disk, g) /\ OutputOK(j, disk, f)
        BY <1>2, <1>3, <1>5, <1>6 DEF SameClaim
    <2>. QED
        BY <1>1, <1>2, <1>3, <1>4, <1>5, <2>1 DEF OutputOK, Saved, SameClaim, Kept, Recoverable
<1>7. JobOK(n, d)
    BY <1>5, <1>6 DEF JobOK, SameClaim, ClaimFields
<1>. QED
    BY <1>1, <1>2, <1>7, PlaceKeeps DEF d

LEMMA RestoreKeeps ==
    ASSUME PublishersOK, NEW p \in Publishers, Restore(p)
    PROVE  PublishersOK'
<1>. DEFINE j == job[p]
            f == Subject(p)
            b == [j EXCEPT !.backup = Without(@, f)]
            n == Retreat(b)
            d == [disk EXCEPT ![f] = j.backup[f]]
<1>1. j.pc = "rollback" /\ f \in DOMAIN j.backup /\ Place(p, f, j.backup[f], n)
    BY DEF Restore, At
<1>2. /\ DOMAIN j = ClaimFields /\ j.at \in {1, 2} /\ f \in Outputs
      /\ ~j.disturbed => \A g \in Outputs : OutputOK(j, disk, g)
      /\ Place1(f) = j.at
      /\ \A g \in Outputs : (g # f => Place1(g) # j.at) /\ Place1(g) \in {1, 2}
    BY <1>1, ClaimedIs, ClaimingIs
<1>3. /\ DOMAIN b = ClaimFields /\ b.at = j.at /\ b.pc = "rollback" /\ b.published = j.published
      /\ b.before = j.before /\ b.disturbed = j.disturbed /\ b.spoiled = j.spoiled
      /\ b.stray = j.stray /\ b.backup = Without(j.backup, f)
    BY <1>1, <1>2 DEF ClaimFields
<1>4. \A g : g # f => /\ g \in DOMAIN b.backup <=> g \in DOMAIN j.backup
                      /\ g \in DOMAIN j.backup => b.backup[g] = j.backup[g]
    BY <1>3 DEF Without
<1>5. \A g \in Outputs : d[g] = IF g = f THEN j.backup[f] ELSE disk[g]
    BY <1>2, PlacedIs
<1>. HIDE DEF b, d, j, f
<1>6. /\ SameClaim(n, b) /\ n.backup = b.backup /\ n.published = b.published
      /\ n.spoiled = b.spoiled /\ n.stray = b.stray /\ n.at = 1
      /\ n.pc = IF b.at = 1 THEN "failed" ELSE b.pc
    BY <1>2, <1>3, RetreatIs
<1>. HIDE DEF n
<1>7. ASSUME ~n.disturbed, NEW g \in Outputs PROVE OutputOK(n, d, g)
    <2>1. OutputOK(j, disk, g) /\ OutputOK(j, disk, f)
        BY <1>2, <1>3, <1>6, <1>7 DEF SameClaim
    <2>2. CASE g = f
        <3>1. d[f] = j.before[f]
            BY <1>1, <1>2, <1>5, <2>1 DEF OutputOK, Recoverable
        <3>2. Place1(f) = 2 => n.pc = "rollback"
            BY <1>2, <1>3, <1>6
        <3>. QED
            BY <1>1, <1>2, <1>3, <1>6, <2>2, <3>1, <3>2 DEF OutputOK, SameClaim, Kept
    <2>3. CASE g # f
        BY <1>1, <1>2, <1>3, <1>4, <1>5, <1>6, <2>1, <2>3 DEF OutputOK, SameClaim, Kept, Recoverable
    <2>. QED
        BY <2>2, <2>3
<1>8. JobOK(n, d)
    BY <1>6, <1>7 DEF JobOK, SameClaim, ClaimFields
<1>. QED
    BY <1>1, <1>2, <1>8, PlaceKeeps DEF d

LEMMA WithdrawKeeps ==
    ASSUME PublishersOK, NEW p \in Publishers, Withdraw(p)
    PROVE  PublishersOK'
<1>. DEFINE j == job[p]
            f == Subject(p)
            n == Retreat(j)
            d == [disk EXCEPT ![f] = Absent]
<1>1. /\ j.pc = "rollback" /\ f \notin DOMAIN j.backup
      /\ f \in j.published => Place(p, f, Absent, n)
      /\ f \notin j.published => Become(p, n)
    BY DEF Withdraw, At
<1>2. /\ DOMAIN j = ClaimFields /\ j.at \in {1, 2} /\ f \in Outputs
      /\ ~j.disturbed => \A g \in Outputs : OutputOK(j, disk, g)
      /\ Place1(f) = j.at
      /\ \A g \in Outputs : (g # f => Place1(g) # j.at) /\ Place1(g) \in {1, 2}
    BY <1>1, ClaimedIs, ClaimingIs
<1>3. \A g \in Outputs : d[g] = IF g = f THEN Absent ELSE disk[g]
    BY <1>2, PlacedIs
<1>. HIDE DEF d, j, f
<1>4. /\ SameClaim(n, j) /\ n.backup = j.backup /\ n.published = j.published
      /\ n.spoiled = j.spoiled /\ n.stray = j.stray /\ n.at = 1
      /\ n.pc = IF j.at = 1 THEN "failed" ELSE j.pc
    BY <1>2, RetreatIs
<1>. HIDE DEF n
<1>5. ASSUME f \in j.published, ~n.disturbed, NEW g \in Outputs PROVE OutputOK(n, d, g)
    <2>1. OutputOK(j, disk, g) /\ OutputOK(j, disk, f)
        BY <1>2, <1>4, <1>5 DEF SameClaim
    <2>. QED
        BY <1>1, <1>2, <1>3, <1>4, <1>5, <2>1 DEF OutputOK, SameClaim, Kept, Recoverable
<1>6. ASSUME f \notin j.published, ~n.disturbed, NEW g \in Outputs PROVE OutputOK(n, disk, g)
    <2>1. OutputOK(j, disk, g) /\ OutputOK(j, disk, f)
        BY <1>2, <1>4, <1>6 DEF SameClaim
    <2>. QED
        BY <1>1, <1>2, <1>4, <1>6, <2>1 DEF OutputOK, SameClaim, Kept, Recoverable
<1>7. CASE f \in j.published
    <2>1. JobOK(n, d)
        BY <1>4, <1>5, <1>7 DEF JobOK, SameClaim, ClaimFields
    <2>. QED
        BY <1>1, <1>2, <1>7, <2>1, PlaceKeeps DEF d
<1>8. CASE f \notin j.published
    <2>1. JobOK(n, disk)
        BY <1>4, <1>6, <1>8 DEF JobOK, SameClaim, ClaimFields
    <2>. QED
        BY <1>1, <1>8, <2>1, BecomeKeeps
<1>. QED
    BY <1>7, <1>8

LEMMA RollbackFailsKeeps ==
    ASSUME PublishersOK, NEW p \in Publishers, RollbackFails(p)
    PROVE  PublishersOK'
<1>. DEFINE j == job[p]
            b == [j EXCEPT !.spoiled = TRUE]
            n == Retreat(b)
<1>1. j.pc = "rollback" /\ Become(p, n)
    BY DEF RollbackFails, At
<1>2. /\ DOMAIN j = ClaimFields /\ j.at \in {1, 2}
      /\ ~j.disturbed => \A g \in Outputs : OutputOK(j, disk, g)
      /\ \A g \in Outputs : Place1(g) \in {1, 2}
    BY <1>1, ClaimedIs, ClaimingIs
<1>3. /\ DOMAIN b = ClaimFields /\ b.at = j.at /\ b.pc = "rollback" /\ b.published = j.published
      /\ b.before = j.before /\ b.disturbed = j.disturbed /\ b.spoiled = TRUE
      /\ b.stray = j.stray /\ b.backup = j.backup
    BY <1>1, <1>2 DEF ClaimFields
<1>. HIDE DEF b, j
<1>4. /\ SameClaim(n, b) /\ n.backup = b.backup /\ n.published = b.published
      /\ n.spoiled = b.spoiled /\ n.stray = b.stray /\ n.at = 1
      /\ n.pc = IF b.at = 1 THEN "failed" ELSE b.pc
    BY <1>2, <1>3, RetreatIs
<1>. HIDE DEF n
<1>5. ASSUME ~n.disturbed, NEW g \in Outputs PROVE OutputOK(n, disk, g)
    <2>1. OutputOK(j, disk, g)
        BY <1>2, <1>3, <1>4, <1>5 DEF SameClaim
    <2>. QED
        BY <1>1, <1>2, <1>3, <1>4, <2>1 DEF OutputOK, SameClaim, Kept, Recoverable
<1>6. JobOK(n, disk)
    BY <1>4, <1>5 DEF JobOK, SameClaim, ClaimFields
<1>. QED
    BY <1>1, <1>6, BecomeKeeps

LEMMA InstallKeeps ==
    ASSUME PublishersOK, NEW f \in Files, NEW r \in Releases, Install(f, r)
    PROVE  PublishersOK'
<1>1. /\ disk' = [disk EXCEPT ![f] = r[f]] /\ job' = [p \in Publishers |-> Disturbed(p, f)]
      /\ DOMAIN disk = Files
    BY DEF Install, PublishersOK
<1>2. ASSUME NEW p \in Publishers PROVE JobOK(job'[p], disk')
    <2>1. JobOK(job[p], disk) /\ job'[p] = Disturbed(p, f)
        BY <1>1 DEF PublishersOK
    <2>2. CASE f \in Outputs
        BY <2>1, <2>2, DisturbedOK
    <2>3. CASE f \notin Outputs
        <3>1. job'[p] = job[p]
            BY <2>1, <2>3 DEF Disturbed
        <3>2. \A g \in Outputs : disk'[g] = disk[g]
            BY <1>1, <2>3, OrderIs
        <3>. QED
            BY <2>1, <3>1, <3>2 DEF JobOK, OutputOK, Kept, Recoverable
    <2>. QED
        BY <2>2, <2>3
<1>3. DOMAIN disk' = Files /\ job' = [p \in Publishers |-> job'[p]]
    BY <1>1
<1>. QED
    BY <1>2, <1>3 DEF PublishersOK

LEMMA StartPublicationKeeps ==
    ASSUME PublishersOK, NEW p \in Publishers, NEW force \in BOOLEAN, StartPublication(p, force)
    PROVE  PublishersOK'
<1>. DEFINE state == [pc |-> "open", force |-> force]
<1>1. "pc" \in DOMAIN state /\ state.pc \notin Claiming
    BY ClaimingIs
<1>2. job' = [job EXCEPT ![p] = state] /\ disk' = disk
    BY DEF StartPublication
<1>. HIDE DEF state
<1>3. JobOK(state, disk)
    BY <1>1, UnclaimedOK
<1>. QED
    BY <1>2, <1>3 DEF PublishersOK

LEMMA PublishersInvariant == Spec => []PublishersOK
<1>1. Init => PublishersOK
    <2>1. "pc" \in DOMAIN IdleJob /\ IdleJob.pc \notin Claiming
        BY ClaimingIs DEF IdleJob
    <2>. QED
        BY <2>1, BundleConstants, UnclaimedOK DEF Init, PublishersOK
<1>2. PublishersOK /\ [Next]_vars => PublishersOK'
    <2>. SUFFICES ASSUME PublishersOK, [Next]_vars PROVE PublishersOK'
        OBVIOUS
    <2>1. ASSUME job' = job, disk' = disk PROVE PublishersOK'
        BY <2>1 DEF PublishersOK
    <2>2. ASSUME NEW p \in Publishers, PublisherStep(p) PROVE PublishersOK'
        BY <2>2, StartPublicationKeeps, EarlyStepKeeps, RecheckKeeps, BackUpKeeps, NothingToBackUpKeeps,
           PublishKeeps, CallFailsKeeps, BackUpUnrecordedKeeps, PublishUnrecordedKeeps,
           RestoreKeeps, WithdrawKeeps, RollbackFailsKeeps DEF PublisherStep
    <2>3. ASSUME NEW q \in Inspections, InspectionStep(q) PROVE PublishersOK'
        BY <2>1, <2>3 DEF InspectionStep, StartInspection, TakeStep, InspectionRefused, Return, Inspect
    <2>4. ASSUME NEW f \in Files, NEW r \in Releases, Install(f, r) PROVE PublishersOK'
        BY <2>4, InstallKeeps
    <2>5. ASSUME NEW a \in Archives, ReplaceArchive(a) PROVE PublishersOK'
        BY <2>1, <2>5 DEF ReplaceArchive
    <2>6. CASE UNCHANGED vars
        BY <2>1, <2>6 DEF vars
    <2>. QED
        BY <2>2, <2>3, <2>4, <2>5, <2>6 DEF Next
<1>. QED
    BY <1>1, <1>2, PTL DEF Spec

(* A publication that fails leaves what was there, and one that succeeds   *)
(* its own set, unless somebody else has changed an output meanwhile or an *)
(* interrupt fell between a rename and its record.                         *)
THEOREM SetIsAtomic == Spec => []SetAtomic
<1>1. PublishersOK => SetAtomic
    BY ClaimingIs DEF PublishersOK, JobOK, OutputOK, SetAtomic, At
<1>. QED
    BY <1>1, PublishersInvariant, PTL

(* What a publication replaces exists at every moment, in place or beside  *)
(* it, so that a killed publication has destroyed nothing.                 *)
THEOREM PriorIsKept == Spec => []PriorKept
<1>1. PublishersOK => PriorKept
    <2>. SUFFICES ASSUME PublishersOK, NEW p \in Publishers, job[p].pc \in Claiming \ {"cleanup"},
                         ~job[p].disturbed, NEW f \in Outputs
                  PROVE  Kept(job[p], disk, f)
        BY DEF PriorKept, Kept
    <2>1. OutputOK(job[p], disk, f)
        BY DEF PublishersOK, JobOK
    <2>. QED
        BY <2>1, ClaimingIs DEF OutputOK, Saved, Kept
<1>. QED
    BY <1>1, PublishersInvariant, PTL

(***************************************************************************)
(* What an inspection has read is of one release; a file it has hashed is  *)
(* still there until it is opened, unless it was replaced.                 *)
(***************************************************************************)
HashedAt ==
    [f \in {"manifest", "trace"} \cup Assets |->
        IF f = "manifest" THEN 1 ELSE IF f = "trace" THEN 3
        ELSE IF f = "predicates" THEN 5 ELSE IF f = "roles" THEN 6
        ELSE IF f = "edges" THEN 7 ELSE IF f = "mappings" THEN 8 ELSE 9]

Parsed == {"predicates", "roles", "edges", "mappings"}

(* The files that are opened, once the script is past the opening.         *)
Hashed(r) ==
    /\ \A f \in {"manifest", "trace"} \cup Assets : r.at > HashedAt[f] => f \in DOMAIN r.hashed
    /\ r.at > 10 => "projection" \in DOMAIN r.hashed
    /\ r.at > 13 /\ Grounded(r) => "context" \in DOMAIN r.hashed
    /\ DOMAIN r.opened \subseteq DOMAIN r.hashed /\ DOMAIN r.hashed \subseteq Files

(* The two manifests are opened before the assets are hashed.              *)
ReleaseRead(r) ==
    /\ r.at >= 3 => "manifest" \in DOMAIN r.opened
    /\ "manifest" \in DOMAIN r.opened => r.opened["manifest"] \in Manifests
    /\ \A f \in Assets : f \in DOMAIN r.hashed =>
           r.at >= 6 /\ r.hashed[f] = r.opened["manifest"].artifacts[f]
    /\ "trace" \in DOMAIN r.opened =>
           r.at >= 5 /\ r.opened["trace"].target = r.hashed["manifest"]

(* Where a file is opened, after all that is hashed of it.                 *)
OpenedAt(r, f) ==
    CASE f = "manifest" -> 2
      [] f = "trace" -> 4
      [] f = "projection" -> 12
      [] f = "context" -> 15
      [] f = "predicates" -> ScriptLength(r) - 3
      [] f = "roles" -> ScriptLength(r) - 2
      [] f = "edges" -> ScriptLength(r) - 1
      [] f = "mappings" -> ScriptLength(r)

Reopened == {"manifest", "trace", "projection", "context"} \cup Parsed

OpenedLater(r) == \A f \in DOMAIN r.opened : f \in Reopened /\ r.at > OpenedAt(r, f)

(* A hashed file that was not replaced is still what it was, or was opened *)
(* as that.                                                                *)
Steady(r, d) ==
    \A f \in DOMAIN r.hashed \ r.replaced :
        r.hashed[f] = IF f \in DOMAIN r.opened THEN r.opened[f] ELSE d[f]

ReadingOK(r, d) ==
    InspectionOK(r) /\ Hashed(r) /\ ReleaseRead(r) /\ OpenedLater(r) /\ Steady(r, d)

ReadingsOK ==
    /\ DOMAIN disk = Files /\ disk["manifest"] \in Manifests \cup {Absent}
    /\ inspection = [q \in Inspections |-> inspection[q]]
    /\ \A q \in Inspections : ReadingOK(inspection[q], disk)

LEMMA FilesAre ==
    /\ Assets = {"predicates", "roles", "edges", "mappings", "canon"}
    /\ Assets \subseteq Files /\ "manifest" \notin Assets /\ "trace" \notin Assets
    /\ "context" \notin Assets /\ "projection" \notin Assets
    /\ \A f \in {"manifest", "trace"} \cup Assets : HashedAt[f] \in {1, 3, 5, 6, 7, 8, 9}
    /\ HashedAt["manifest"] = 1 /\ HashedAt["trace"] = 3
    /\ HashedAt["predicates"] = 5 /\ HashedAt["roles"] = 6 /\ HashedAt["edges"] = 7
    /\ HashedAt["mappings"] = 8 /\ HashedAt["canon"] = 9
BY DEF Assets, Files, HashedAt

LEMMA NothingRead ==
    ASSUME NEW d
    PROVE  ReadingOK(Waiting, d) /\ ReadingOK([Waiting EXCEPT !.at = 1], d)
<1>1. /\ Waiting.at = 0 /\ Waiting.hashed = Nothing /\ Waiting.opened = Nothing
      /\ [Waiting EXCEPT !.at = 1].at = 1 /\ [Waiting EXCEPT !.at = 1].hashed = Nothing
      /\ [Waiting EXCEPT !.at = 1].opened = Nothing
      /\ DOMAIN Nothing = {}
    BY DEF Waiting, Nothing
<1>2. ASSUME NEW r, r.at \in {0, 1}, r.hashed = Nothing, r.opened = Nothing
      PROVE  Hashed(r) /\ ReleaseRead(r) /\ OpenedLater(r) /\ Steady(r, d)
    <2>1. Hashed(r)
        BY <1>1, <1>2, FilesAre DEF Hashed
    <2>2. ReleaseRead(r)
        BY <1>1, <1>2, FilesAre DEF ReleaseRead
    <2>3. OpenedLater(r) /\ Steady(r, d)
        BY <1>1, <1>2 DEF Steady, OpenedLater
    <2>. QED
        BY <2>1, <2>2, <2>3
<1>. DEFINE started == [Waiting EXCEPT !.at = 1]
<1>3. /\ Hashed(Waiting) /\ ReleaseRead(Waiting) /\ OpenedLater(Waiting) /\ Steady(Waiting, d)
      /\ Hashed(started) /\ ReleaseRead(started) /\ OpenedLater(started) /\ Steady(started, d)
    <2>1. /\ Waiting.at \in {0, 1} /\ Waiting.hashed = Nothing /\ Waiting.opened = Nothing
          /\ started.at \in {0, 1} /\ started.hashed = Nothing /\ started.opened = Nothing
        BY <1>1
    <2>. HIDE DEF started
    <2>. QED
        BY <1>2, <2>1
<1>. QED
    BY <1>3, WaitingOK DEF ReadingOK

(* Where the script hashes what it opens later.                            *)
LEMMA HashesAre ==
    ASSUME NEW r, r.at \in Nat, Working(r)
    PROVE  /\ Now(r).op = "hash" \/ Now(r).op = "open"
           /\ \A f \in {"manifest", "trace"} \cup Assets :
                  r.at = HashedAt[f] => Now(r).op = "hash" /\ Now(r).file = f
           /\ r.at = 10 => Now(r).op = "hash" /\ Now(r).file = "projection"
           /\ r.at = 13 /\ Grounded(r) => Now(r).op = "hash" /\ Now(r).file = "context"
           /\ Now(r).op = "hash" /\ Now(r).file = "manifest" => r.at = 1
           /\ Now(r).op = "hash" /\ Now(r).file \in Assets => r.at >= 5 /\ r.at <= 9
           /\ Now(r).op = "open" /\ Now(r).file = "manifest" <=> r.at = 2
           /\ Now(r).op = "open" =>
                  \/ Now(r).file = "manifest"
                  \/ Now(r).file = "trace" /\ r.at = 4
                  \/ Now(r).file = "projection" /\ r.at = 12
                  \/ Now(r).file = "context" /\ r.at = 15 /\ Grounded(r)
                  \/ Now(r).file \in Parsed /\ r.at >= 13
<1>1. r.at \in 1..ScriptLength(r) /\ Now(r) = Script(r)[r.at]
    BY NowIs DEF Now
<1>2. \A op, f : Access(op, f).op = op /\ Access(op, f).file = f
    BY DEF Access
<1>3. /\ HashedNext[1] = "predicates" /\ HashedNext[2] = "roles" /\ HashedNext[3] = "edges"
      /\ HashedNext[4] = "mappings" /\ HashedNext[5] = "canon" /\ HashedNext[6] = "projection"
      /\ HashedNext[7] = "attribution"
    BY DEF HashedNext
<1>4. CASE r.at \in 1..4
    <2>1. r.at = 1 \/ r.at = 2 \/ r.at = 3 \/ r.at = 4
        BY <1>4
    <2>2. Now(r) = Opening[r.at]
        BY <1>1, <1>4, ScriptIs
    <2>. QED
        BY <1>2, <2>1, <2>2, OpeningIs, FilesAre DEF Parsed
<1>5. CASE r.at \in 5..12
    <2>1. Now(r) = Opening[r.at]
        BY <1>1, <1>5, ScriptIs
    <2>2. r.at = 5 \/ r.at = 6 \/ r.at = 7 \/ r.at = 8 \/ r.at = 9 \/ r.at = 10 \/ r.at = 11 \/ r.at = 12
        BY <1>5
    <2>3. r.at # 12 => Now(r) = Access("hash", HashedNext[r.at - 4])
        BY <1>5, <2>1, OpeningIs
    <2>4. r.at # 12 => Now(r).op = "hash" /\ Now(r).file = HashedNext[r.at - 4]
        BY <1>2, <2>3
    <2>5. r.at = 12 => Now(r).op = "open" /\ Now(r).file = "projection"
        BY <1>2, <2>1, OpeningIs
    <2>. QED
        BY <1>3, <2>2, <2>4, <2>5, FilesAre
<1>6. CASE r.at \in 13..ScriptLength(r)
    <2>1. \/ Now(r).op = "open" /\ Now(r).file \in Parsed
          \/ Grounded(r) /\ Now(r) = Access("hash", "context")
          \/ Grounded(r) /\ Now(r) = Access("hash", "notice")
          \/ Grounded(r) /\ r.at = 15 /\ Now(r) = Access("open", "context")
        BY <1>1, <1>6, ScriptIs DEF Parsed
    <2>2. r.at = 13 /\ Grounded(r) => Now(r) = Access("hash", "context")
        BY <1>1, ScriptIs
    <2>3. r.at >= 13
        BY <1>6
    <2>. QED
        BY <1>2, <2>1, <2>2, <2>3, FilesAre DEF Parsed
<1>7. ScriptLength(r) \in {16, 19}
    BY DEF ScriptLength
<1>. QED
    BY <1>1, <1>4, <1>5, <1>6, <1>7

LEMMA OpenedAtIs ==
    ASSUME NEW r
    PROVE  /\ OpenedAt(r, "manifest") = 2 /\ OpenedAt(r, "trace") = 4
           /\ OpenedAt(r, "projection") = 12 /\ OpenedAt(r, "context") = 15
           /\ \A i \in 1..4 : OpenedAt(r, ParsedNext[i]) = ScriptLength(r) - 4 + i
           /\ ScriptLength(r) \in {16, 19} /\ "notice" \notin Reopened
           /\ \A f \in Parsed : \E i \in 1..4 : f = ParsedNext[i]
<1>1. /\ ParsedNext[1] = "predicates" /\ ParsedNext[2] = "roles"
      /\ ParsedNext[3] = "edges" /\ ParsedNext[4] = "mappings"
    BY DEF ParsedNext
<1>2. ScriptLength(r) \in {16, 19} /\ "notice" \notin Reopened
    BY DEF ScriptLength, Reopened, Parsed
<1>3. \A i \in 1..4 : i = 1 \/ i = 2 \/ i = 3 \/ i = 4
    OBVIOUS
<1>4. /\ OpenedAt(r, "manifest") = 2 /\ OpenedAt(r, "trace") = 4
      /\ OpenedAt(r, "projection") = 12 /\ OpenedAt(r, "context") = 15
      /\ OpenedAt(r, "predicates") = ScriptLength(r) - 3 /\ OpenedAt(r, "roles") = ScriptLength(r) - 2
      /\ OpenedAt(r, "edges") = ScriptLength(r) - 1 /\ OpenedAt(r, "mappings") = ScriptLength(r)
    BY DEF OpenedAt
<1>5. \A i \in 1..4 : OpenedAt(r, ParsedNext[i]) = ScriptLength(r) - 4 + i
    BY <1>1, <1>2, <1>3, <1>4
<1>6. \A f \in Parsed : \E i \in 1..4 : f = ParsedNext[i]
    BY <1>1 DEF Parsed
<1>. QED
    BY <1>2, <1>4, <1>5, <1>6

(* A file is hashed before the place where it is opened.                   *)
LEMMA OpensAre ==
    ASSUME NEW r, r.at \in Nat, Working(r)
    PROVE  /\ Now(r).op = "open" =>
                  Now(r).file \in Reopened /\ r.at = OpenedAt(r, Now(r).file)
           /\ Now(r).op = "hash" /\ Now(r).file \in Reopened =>
                  r.at < OpenedAt(r, Now(r).file)
<1>. DEFINE f == Now(r).file
<1>1. r.at \in 1..ScriptLength(r) /\ Now(r) = Script(r)[r.at] /\ ScriptLength(r) \in {16, 19}
    BY NowIs, OpenedAtIs DEF Now
<1>2. \A op, g : Access(op, g).op = op /\ Access(op, g).file = g
    BY DEF Access
<1>3. CASE r.at \in 1..12
    <2>1. Now(r) = Opening[r.at]
        BY <1>1, <1>3, ScriptIs
    <2>2. r.at = 1 => Now(r).op = "hash" /\ f = "manifest"
        BY <1>2, <2>1, OpeningIs
    <2>3. r.at = 2 => Now(r).op = "open" /\ f = "manifest"
        BY <1>2, <2>1, OpeningIs
    <2>4. r.at = 3 => Now(r).op = "hash" /\ f = "trace"
        BY <1>2, <2>1, OpeningIs
    <2>5. r.at = 4 => Now(r).op = "open" /\ f = "trace"
        BY <1>2, <2>1, OpeningIs
    <2>6. r.at = 12 => Now(r).op = "open" /\ f = "projection"
        BY <1>2, <2>1, OpeningIs
    <2>7. r.at \in 5..11 => Now(r).op = "hash" /\ f \in Parsed \cup {"canon", "projection", "attribution"}
        <3>1. r.at \in 5..11 => Now(r) = Access("hash", HashedNext[r.at - 4])
            BY <2>1, OpeningIs
        <3>2. \A i \in 1..7 : HashedNext[i] \in Parsed \cup {"canon", "projection", "attribution"}
            BY DEF HashedNext, Parsed
        <3>. QED
            BY <1>2, <3>1, <3>2
    <2>8. \A g \in Parsed : OpenedAt(r, g) >= 13
        <3>1. \A i \in 1..4 : OpenedAt(r, ParsedNext[i]) >= 13
            BY <1>1, OpenedAtIs
        <3>. QED
            BY <3>1, OpenedAtIs
    <2>9. r.at = 1 \/ r.at = 2 \/ r.at = 3 \/ r.at = 4 \/ r.at \in 5..11 \/ r.at = 12
        BY <1>3
    <2>10. {"manifest", "trace", "projection"} \subseteq Reopened /\ {"canon", "attribution"} \cap Reopened = {}
        BY DEF Reopened, Parsed
    <2>. HIDE DEF f
    <2>11. CASE r.at \in 5..11
        BY <2>7, <2>8, <2>10, <2>11, OpenedAtIs DEF f
    <2>12. CASE r.at \notin 5..11
        BY <2>2, <2>3, <2>4, <2>5, <2>6, <2>9, <2>10, <2>12, OpenedAtIs DEF f
    <2>. QED
        BY <2>11, <2>12
<1>4. CASE r.at \in 13..ScriptLength(r)
    <2>1. \/ /\ Now(r).op = "open" /\ r.at > ScriptLength(r) - 4
             /\ f \in Parsed /\ f = ParsedNext[r.at - (ScriptLength(r) - 4)]
          \/ r.at = 13 /\ Now(r) = Access("hash", "context")
          \/ Now(r) = Access("hash", "notice")
          \/ r.at = 15 /\ Now(r) = Access("open", "context")
        BY <1>1, <1>4, ScriptIs DEF Parsed
    <2>2. CASE /\ Now(r).op = "open" /\ r.at > ScriptLength(r) - 4
               /\ f \in Parsed /\ f = ParsedNext[r.at - (ScriptLength(r) - 4)]
        <3>1. r.at - (ScriptLength(r) - 4) \in 1..4
            BY <1>1, <2>2
        <3>2. OpenedAt(r, f) = r.at
            BY <1>1, <2>2, <3>1, OpenedAtIs
        <3>. QED
            BY <2>2, <3>2 DEF Reopened
    <2>3. CASE \/ r.at = 13 /\ Now(r) = Access("hash", "context")
               \/ Now(r) = Access("hash", "notice")
               \/ r.at = 15 /\ Now(r) = Access("open", "context")
        BY <1>2, <2>3, OpenedAtIs DEF Reopened
    <2>. QED
        BY <2>1, <2>2, <2>3
<1>. QED
    BY <1>1, <1>3, <1>4

(* Of what was opened, the place does not depend on what is opened next.   *)
LEMMA LaterStays ==
    ASSUME NEW r, NEW next, OpenedLater(r), r.at \in Nat, next.at = r.at + 1,
           r.at = 4 \/ (Grounded(next) <=> Grounded(r))
    PROVE  \A g \in DOMAIN r.opened : g \in Reopened /\ next.at > OpenedAt(next, g)
<1>. SUFFICES ASSUME NEW g \in DOMAIN r.opened
              PROVE  g \in Reopened /\ next.at > OpenedAt(next, g)
    OBVIOUS
<1>1. g \in Reopened /\ r.at > OpenedAt(r, g)
    BY DEF OpenedLater
<1>2. CASE g \in Parsed
    <2>1. PICK i \in 1..4 : g = ParsedNext[i]
        BY <1>2, OpenedAtIs
    <2>2. OpenedAt(r, g) = ScriptLength(r) - 4 + i /\ ScriptLength(r) \in {16, 19}
        BY <2>1, OpenedAtIs
    <2>3. r.at # 4
        BY <1>1, <2>1, <2>2
    <2>4. ScriptLength(next) = ScriptLength(r)
        BY <2>3 DEF ScriptLength
    <2>5. OpenedAt(next, g) = ScriptLength(next) - 4 + i
        BY <2>1, OpenedAtIs
    <2>. QED
        BY <1>1, <2>1, <2>2, <2>4, <2>5
<1>3. CASE g \notin Parsed
    <2>1. g \in {"manifest", "trace", "projection", "context"}
        BY <1>1, <1>3 DEF Reopened
    <2>2. OpenedAt(next, g) = OpenedAt(r, g) /\ OpenedAt(r, g) \in Nat
        BY <2>1, OpenedAtIs
    <2>. QED
        BY <1>1, <2>2
<1>. QED
    BY <1>2, <1>3

LEMMA HashReads ==
    ASSUME NEW r, NEW d, ReadingOK(r, d), Working(r), Now(r).op = "hash",
           NEW f, f = Now(r).file, d[f] # Absent, HashFits(r, f, d[f]),
           d["manifest"] \in Manifests \cup {Absent},
           NEW next, next = [r EXCEPT !.at = @ + 1, !.hashed = With(r.hashed, f, d[f])]
    PROVE  ReadingOK(next, d)
<1>. DEFINE hashed == With(r.hashed, f, d[f])
<1>1. InspectionOK(next) /\ InspectionOK(r)
    BY HashStepOK DEF ReadingOK
<1>2. /\ next.at = r.at + 1 /\ next.hashed = hashed /\ next.opened = r.opened
      /\ next.replaced = r.replaced /\ r.at \in Nat
    BY <1>1 DEF InspectionOK, Fields
<1>3. /\ DOMAIN hashed = DOMAIN r.hashed \cup {f} /\ hashed[f] = d[f]
      /\ \A g \in DOMAIN r.hashed : g # f => hashed[g] = r.hashed[g]
    BY DEF With
<1>4. Hashed(r) /\ ReleaseRead(r) /\ OpenedLater(r) /\ Steady(r, d)
    BY DEF ReadingOK
<1>5. /\ \A g \in {"manifest", "trace"} \cup Assets : r.at = HashedAt[g] => f = g
      /\ r.at = 10 => f = "projection"
      /\ r.at = 13 /\ Grounded(r) => f = "context"
      /\ f = "manifest" => r.at = 1
      /\ f \in Assets => r.at >= 5 /\ r.at <= 9
    BY <1>2, HashesAre
<1>. HIDE DEF hashed
<1>6. Grounded(next) <=> Grounded(r)
    BY <1>2 DEF Grounded
<1>7. Hashed(next)
    <2>1. f \in Files
        BY <1>2, NowIs DEF Accesses
    <2>. QED
        BY <1>2, <1>3, <1>4, <1>5, <1>6, <2>1, FilesAre DEF Hashed
<1>8. ReleaseRead(next)
    <2>1. "manifest" \in DOMAIN r.opened => r.opened["manifest"] \in Manifests
        BY <1>4 DEF ReleaseRead
    <2>2. ASSUME NEW g \in Assets, g \in DOMAIN hashed
          PROVE  next.at >= 6 /\ hashed[g] = r.opened["manifest"].artifacts[g]
        <3>1. CASE g = f
            <4>1. d[f] = r.opened["manifest"].artifacts[f]
                BY <3>1, FilesAre DEF HashFits, Assets
            <4>. QED
                BY <1>2, <1>3, <1>5, <3>1, <4>1
        <3>2. CASE g # f
            BY <1>2, <1>3, <1>4, <2>2, <3>2 DEF ReleaseRead
        <3>. QED
            BY <3>1, <3>2
    <2>3. "trace" \in DOMAIN r.opened => next.at >= 5 /\ r.opened["trace"].target = hashed["manifest"]
        <3>1. ASSUME "trace" \in DOMAIN r.opened
              PROVE  /\ r.at >= 5 /\ "manifest" \in DOMAIN r.hashed /\ f # "manifest"
                     /\ r.opened["trace"].target = r.hashed["manifest"]
            BY <1>2, <1>4, <1>5, <3>1, FilesAre DEF ReleaseRead, Hashed
        <3>. QED
            BY <1>2, <1>3, <3>1
    <2>4. next.at >= 3 => "manifest" \in DOMAIN r.opened
        <3>1. CASE r.at = 2
            BY <1>2, <3>1, HashesAre
        <3>2. CASE r.at # 2
            BY <1>2, <1>4, <3>2 DEF ReleaseRead
        <3>. QED
            BY <3>1, <3>2
    <2>. QED
        BY <1>2, <2>1, <2>2, <2>3, <2>4 DEF ReleaseRead
<1>9. f \notin DOMAIN r.opened
    <2>1. f \in Reopened => r.at < OpenedAt(r, f)
        BY <1>2, OpensAre
    <2>2. f \in Reopened => OpenedAt(r, f) \in Int
        BY OpenedAtIs DEF Reopened
    <2>. QED
        BY <1>2, <1>4, <2>1, <2>2 DEF OpenedLater
<1>10. Steady(next, d)
    BY <1>2, <1>3, <1>4, <1>9 DEF Steady
<1>11. OpenedLater(next)
    BY <1>2, <1>4, <1>6, LaterStays DEF OpenedLater
<1>. QED
    BY <1>1, <1>7, <1>8, <1>10, <1>11 DEF ReadingOK

LEMMA OpenReads ==
    ASSUME NEW r, NEW d, ReadingOK(r, d), Working(r), Now(r).op = "open",
           NEW f, f = Now(r).file, d[f] # Absent, OpenFits(r, f, d[f]),
           d["manifest"] \in Manifests \cup {Absent},
           NEW next, next = [r EXCEPT !.at = @ + 1, !.opened = With(r.opened, f, d[f])]
    PROVE  ReadingOK(next, d)
<1>. DEFINE opened == With(r.opened, f, d[f])
<1>1. InspectionOK(r)
    BY DEF ReadingOK
<1>2. InspectionOK(next)
    <2>1. InspectionOK([r EXCEPT !.at = @ + 1, !.opened = With(@, Now(r).file, d[f])])
        BY <1>1, OpenStepOK
    <2>. QED
        BY <2>1
<1>3. /\ next.at = r.at + 1 /\ next.opened = opened /\ next.hashed = r.hashed
      /\ next.replaced = r.replaced /\ r.at \in Nat
    BY <1>1 DEF InspectionOK, Fields
<1>4. /\ DOMAIN opened = DOMAIN r.opened \cup {f} /\ opened[f] = d[f]
      /\ \A g \in DOMAIN r.opened : g # f => opened[g] = r.opened[g]
    BY DEF With
<1>5. Hashed(r) /\ ReleaseRead(r) /\ OpenedLater(r) /\ Steady(r, d)
    BY DEF ReadingOK
<1>6. /\ \A g \in {"manifest", "trace"} \cup Assets : r.at # HashedAt[g]
      /\ r.at # 10 /\ ~(r.at = 13 /\ Grounded(r))
      /\ f = "manifest" <=> r.at = 2
      /\ \/ f = "manifest"
         \/ f = "trace" /\ r.at = 4
         \/ f = "projection" /\ r.at = 12
         \/ f = "context" /\ r.at = 15 /\ Grounded(r)
         \/ f \in Parsed /\ r.at >= 13
    BY <1>3, HashesAre
<1>. HIDE DEF opened
<1>7. f # "trace" => (Grounded(next) <=> Grounded(r))
    BY <1>3, <1>4 DEF Grounded
<1>8. f \in DOMAIN r.hashed
    BY <1>3, <1>5, <1>6, FilesAre DEF Hashed, Parsed
<1>9. Hashed(next)
    <2>1. \A g \in {"manifest", "trace"} \cup Assets : next.at > HashedAt[g] => g \in DOMAIN r.hashed
        BY <1>3, <1>5, <1>6, FilesAre DEF Hashed
    <2>2. next.at > 10 => "projection" \in DOMAIN r.hashed
        BY <1>3, <1>5, <1>6 DEF Hashed
    <2>3. next.at > 13 /\ Grounded(next) => "context" \in DOMAIN r.hashed
        <3>1. next.at > 13 => f # "trace"
            BY <1>3, <1>6, FilesAre DEF Parsed
        <3>. QED
            BY <1>3, <1>5, <1>6, <1>7, <3>1 DEF Hashed
    <2>. QED
        BY <1>3, <1>4, <1>5, <1>8, <2>1, <2>2, <2>3 DEF Hashed
<1>10. ReleaseRead(next)
    <2>1. ASSUME NEW g \in Assets, g \in DOMAIN r.hashed
          PROVE  next.at >= 6 /\ r.hashed[g] = opened["manifest"].artifacts[g]
        <3>1. r.at >= 6 /\ r.hashed[g] = r.opened["manifest"].artifacts[g]
            BY <1>5, <2>1 DEF ReleaseRead
        <3>2. f # "manifest" /\ "manifest" \in DOMAIN r.opened
            BY <1>3, <1>5, <1>6, <3>1 DEF ReleaseRead
        <3>. QED
            BY <1>3, <1>4, <3>1, <3>2
    <2>2. next.at >= 3 => "manifest" \in DOMAIN opened
        BY <1>3, <1>4, <1>5, <1>6 DEF ReleaseRead
    <2>3. ASSUME "trace" \in DOMAIN opened
          PROVE  next.at >= 5 /\ opened["trace"].target = r.hashed["manifest"]
        <3>1. CASE f = "trace"
            <4>1. r.at = 4
                BY <1>6, <3>1 DEF Parsed
            <4>2. d[f].target = r.hashed["manifest"]
                BY <3>1, FilesAre DEF OpenFits, TraceFits
            <4>. QED
                BY <1>3, <1>4, <3>1, <4>1, <4>2
        <3>2. CASE f # "trace"
            BY <1>3, <1>4, <1>5, <2>3, <3>2 DEF ReleaseRead
        <3>. QED
            BY <3>1, <3>2
    <2>4. "manifest" \in DOMAIN opened => opened["manifest"] \in Manifests
        <3>1. CASE f = "manifest"
            BY <1>4, <3>1
        <3>2. CASE f # "manifest"
            BY <1>4, <1>5, <3>2 DEF ReleaseRead
        <3>. QED
            BY <3>1, <3>2
    <2>. QED
        BY <1>3, <2>1, <2>2, <2>3, <2>4 DEF ReleaseRead
<1>11. r.at = OpenedAt(r, f) /\ f \in Reopened /\ f \notin DOMAIN r.opened
    BY <1>3, <1>5, OpensAre DEF OpenedLater
<1>12. Steady(next, d)
    <2>1. ASSUME NEW g \in DOMAIN r.hashed \ r.replaced
          PROVE  r.hashed[g] = IF g \in DOMAIN opened THEN opened[g] ELSE d[g]
        <3>1. r.hashed[g] = IF g \in DOMAIN r.opened THEN r.opened[g] ELSE d[g]
            BY <1>5, <2>1 DEF Steady
        <3>2. CASE g = f
            BY <1>4, <1>11, <3>1, <3>2
        <3>3. CASE g # f
            BY <1>4, <3>1, <3>3
        <3>. QED
            BY <3>2, <3>3
    <2>. QED
        BY <1>3, <2>1 DEF Steady
<1>13. OpenedLater(next)
    <2>1. next.at > OpenedAt(next, f)
        <3>1. CASE f = "trace"
            BY <1>3, <1>11, <3>1, OpenedAtIs
        <3>2. CASE f \in {"manifest", "projection", "context"}
            BY <1>3, <1>11, <3>2, OpenedAtIs
        <3>3. CASE f \in Parsed
            <4>1. ScriptLength(next) = ScriptLength(r)
                BY <1>7, <3>3 DEF ScriptLength, Parsed
            <4>2. PICK i \in 1..4 : f = ParsedNext[i]
                BY <3>3, OpenedAtIs
            <4>. QED
                BY <1>3, <1>11, <4>1, <4>2, OpenedAtIs
        <3>. QED
            BY <1>11, <3>1, <3>2, <3>3 DEF Reopened
    <2>2. \A g \in DOMAIN r.opened : g \in Reopened /\ next.at > OpenedAt(next, g)
        <3>1. r.at = 4 \/ f # "trace"
            BY <1>11, OpenedAtIs
        <3>. QED
            BY <1>3, <1>5, <1>7, <3>1, LaterStays
    <2>. QED
        BY <1>3, <1>4, <1>11, <2>1, <2>2 DEF OpenedLater
<1>. QED
    BY <1>2, <1>9, <1>10, <1>12, <1>13 DEF ReadingOK

(* An inspection keeps what it has when a file is replaced, and notes one  *)
(* that it has yet to open.                                                *)
LEMMA ReplacedReads ==
    ASSUME ReadingsOK, NEW g, inspection' = Replaced(g), NEW q \in Inspections,
           \A f \in Files : f # g => disk'[f] = disk[f]
    PROVE  ReadingOK(inspection'[q], disk')
<1>. DEFINE r == inspection[q]
            next == inspection'[q]
<1>1. ReadingOK(r, disk) /\ InspectionOK(r) /\ DOMAIN r = Fields
    BY DEF ReadingsOK, ReadingOK, InspectionOK
<1>2. /\ DOMAIN next = Fields /\ next.at = r.at /\ next.opened = r.opened
      /\ next.hashed = r.hashed
      /\ next.replaced = IF g \in DOMAIN r.hashed \ DOMAIN r.opened
                         THEN r.replaced \cup {g} ELSE r.replaced
    BY <1>1, ReplacedIs
<1>. HIDE DEF next
<1>3. Grounded(next) <=> Grounded(r)
    BY <1>2 DEF Grounded
<1>4. InspectionOK(next)
    BY <1>1, <1>2, <1>3 DEF InspectionOK
<1>5. Hashed(next) /\ ReleaseRead(next)
    BY <1>1, <1>2, <1>3 DEF ReadingOK, Hashed, ReleaseRead
<1>6. OpenedLater(next)
    BY <1>1, <1>2, <1>3 DEF ReadingOK, OpenedLater, OpenedAt, ScriptLength
<1>7. Steady(next, disk')
    <2>. SUFFICES ASSUME NEW f \in DOMAIN r.hashed \ next.replaced
                  PROVE  r.hashed[f] = IF f \in DOMAIN r.opened THEN r.opened[f] ELSE disk'[f]
        BY <1>2 DEF Steady
    <2>1. f \notin r.replaced /\ (f = g => f \in DOMAIN r.opened)
        BY <1>2
    <2>2. r.hashed[f] = IF f \in DOMAIN r.opened THEN r.opened[f] ELSE disk[f]
        BY <1>1, <2>1 DEF ReadingOK, Steady
    <2>3. f # g => disk'[f] = disk[f]
        BY <1>1 DEF ReadingOK, Hashed
    <2>. QED
        BY <1>1, <2>1, <2>2, <2>3
<1>. QED
    BY <1>4, <1>5, <1>6, <1>7 DEF ReadingOK, next

LEMMA InspectReads ==
    ASSUME ReadingsOK, NEW q \in Inspections, InspectionStep(q)
    PROVE  ReadingsOK'
<1>. DEFINE r == inspection[q]
            f == Now(r).file
<1>1. ReadingOK(r, disk) /\ InspectionOK(r)
    BY DEF ReadingsOK, ReadingOK
<1>2. ASSUME NEW state, ReadingOK(state, disk), Inspect(q, state) PROVE ReadingsOK'
    <2>1. inspection' = [o \in Inspections |-> IF o = q THEN state ELSE inspection[o]] /\ disk' = disk
        BY <1>2 DEF Inspect, ReadingsOK
    <2>2. \A o \in Inspections : ReadingOK(inspection'[o], disk')
        BY <1>2, <2>1 DEF ReadingsOK
    <2>. QED
        BY <2>1, <2>2 DEF ReadingsOK
<1>3. CASE TakeStep(q)
    <2>1. Working(r) /\ Fits(r) /\ disk[f] # Absent
        BY <1>3 DEF TakeStep, Fits
    <2>2. CASE Now(r).op = "hash"
        <3>. DEFINE next == [r EXCEPT !.at = @ + 1, !.hashed = With(r.hashed, f, disk[f])]
        <3>1. Inspect(q, next)
            BY <1>3, <2>2 DEF TakeStep
        <3>2. HashFits(r, f, disk[f])
            BY <2>1, <2>2 DEF Fits
        <3>3. ReadingOK(next, disk)
            BY <1>1, <2>1, <2>2, <3>2, HashReads DEF ReadingsOK
        <3>. QED
            BY <1>2, <3>1, <3>3
    <2>3. CASE Now(r).op # "hash"
        <3>. DEFINE next == [r EXCEPT !.at = @ + 1, !.opened = With(r.opened, f, disk[f])]
        <3>1. Inspect(q, next)
            BY <1>3, <2>3 DEF TakeStep
        <3>2. OpenFits(r, f, disk[f])
            BY <2>1, <2>3 DEF Fits
        <3>3. Now(r).op = "open"
            BY <1>1, <2>1, <2>3, HashesAre DEF InspectionOK
        <3>4. ReadingOK(next, disk)
            BY <1>1, <2>1, <3>2, <3>3, OpenReads DEF ReadingsOK
        <3>. QED
            BY <1>2, <3>1, <3>4
    <2>. QED
        BY <2>2, <2>3
<1>. QED
    BY <1>2, <1>3, NothingRead DEF InspectionStep, StartInspection, InspectionRefused, Return

(* A publisher that changes a file is seen, and changes an output.         *)
LEMMA PublisherSeen ==
    ASSUME PublishersOK, NEW p \in Publishers, PublisherStep(p)
    PROVE  \/ inspection' = inspection /\ disk' = disk
           \/ \E f \in Outputs :
                  inspection' = Replaced(f) /\ \E c : disk' = [disk EXCEPT ![f] = c]
<1>1. ASSUME NEW state, Become(p, state)
      PROVE  inspection' = inspection /\ disk' = disk
    BY <1>1 DEF Become
<1>2. ASSUME NEW c, NEW state, Place(p, Subject(p), c, state), job[p].pc \in Claiming
      PROVE  \E f \in Outputs :
                 inspection' = Replaced(f) /\ \E e : disk' = [disk EXCEPT ![f] = e]
    <2>1. Subject(p) \in Outputs
        BY <1>2, SubjectIs DEF PublishersOK, JobOK
    <2>. QED
        BY <1>2, <2>1 DEF Place
<1>3. CASE \/ \E force \in BOOLEAN : StartPublication(p, force)
           \/ OpenArchive(p) \/ ArchiveRefused(p)
           \/ CheckInputs(p) \/ InputsRefused(p) \/ BuildTrace(p)
           \/ Stage(p) \/ Recheck(p) \/ OutputRefused(p)
    BY <1>1, <1>3 DEF StartPublication, OpenArchive, ArchiveRefused, CheckInputs, InputsRefused,
                      BuildTrace, Stage, Recheck, OutputRefused
<1>4. CASE \/ NothingToBackUp(p) \/ Cleanup(p) \/ CallFails(p) \/ RollbackFails(p)
           \/ Raise(p) \/ Kill(p)
    BY <1>1, <1>4 DEF NothingToBackUp, Cleanup, CallFails, RollbackFails, Raise, Kill
<1>5. CASE BackUp(p) \/ Publish(p) \/ BackUpUnrecorded(p) \/ PublishUnrecorded(p) \/ Restore(p)
    BY <1>2, <1>5, ClaimingIs DEF BackUp, Publish, BackUpUnrecorded, PublishUnrecorded, Restore, At
<1>6. CASE Withdraw(p)
    BY <1>1, <1>2, <1>6, ClaimingIs DEF Withdraw, At
<1>. QED
    BY <1>3, <1>4, <1>5, <1>6 DEF PublisherStep

LEMMA ReadingsInvariant == Spec => []ReadingsOK
<1>1. Init => ReadingsOK
    <2>. SUFFICES ASSUME Init PROVE ReadingsOK
        OBVIOUS
    <2>1. DOMAIN disk = Files /\ disk["manifest"] \in Manifests \cup {Absent}
        BY BundleConstants DEF Init, Manifests, Held, Content, Files, Outputs
    <2>2. inspection = [q \in Inspections |-> Waiting]
        BY DEF Init
    <2>. QED
        BY <2>1, <2>2, NothingRead DEF ReadingsOK
<1>2. ReadingsOK /\ PublishersOK /\ [Next]_vars => ReadingsOK'
    <2>. SUFFICES ASSUME ReadingsOK, PublishersOK, [Next]_vars PROVE ReadingsOK'
        OBVIOUS
    <2>1. ASSUME inspection' = inspection, disk' = disk PROVE ReadingsOK'
        BY <2>1 DEF ReadingsOK
    <2>2. ASSUME NEW f \in Files, NEW c, inspection' = Replaced(f), disk' = [disk EXCEPT ![f] = c],
                 f = "manifest" => c \in Manifests \cup {Absent}
          PROVE  ReadingsOK'
        <3>1. /\ DOMAIN disk' = Files /\ disk'["manifest"] \in Manifests \cup {Absent}
              /\ inspection' = [q \in Inspections |-> inspection'[q]]
            BY <2>2 DEF Replaced, ReadingsOK, Files
        <3>2. \A q \in Inspections : ReadingOK(inspection'[q], disk')
            BY <2>2, ReplacedReads DEF ReadingsOK
        <3>. QED
            BY <3>1, <3>2 DEF ReadingsOK
    <2>3. ASSUME NEW p \in Publishers, PublisherStep(p) PROVE ReadingsOK'
        <3>1. CASE inspection' = inspection /\ disk' = disk
            BY <2>1, <3>1
        <3>2. CASE \E f \in Outputs :
                       inspection' = Replaced(f) /\ \E c : disk' = [disk EXCEPT ![f] = c]
            <4>1. \A f \in Outputs : f \in Files /\ f # "manifest"
                BY DEF Outputs, Files
            <4>. QED
                BY <2>2, <3>2, <4>1
        <3>. QED
            BY <2>3, <3>1, <3>2, PublisherSeen
    <2>4. ASSUME NEW q \in Inspections, InspectionStep(q) PROVE ReadingsOK'
        BY <2>4, InspectReads
    <2>5. ASSUME NEW f \in Files, NEW s \in Releases, Install(f, s) PROVE ReadingsOK'
        <3>1. disk' = [disk EXCEPT ![f] = s[f]] /\ inspection' = Replaced(f)
            BY <2>5 DEF Install
        <3>. QED
            BY <2>2, <2>5, <3>1 DEF Manifests
    <2>6. ASSUME NEW a \in Archives, ReplaceArchive(a) PROVE ReadingsOK'
        BY <2>1, <2>6 DEF ReplaceArchive
    <2>7. CASE UNCHANGED vars
        BY <2>1, <2>7 DEF vars
    <2>. QED
        BY <2>3, <2>4, <2>5, <2>6, <2>7 DEF Next
<1>. QED
    BY <1>1, <1>2, PublishersInvariant, PTL DEF Spec

(* A bundle that is returned has the pack rows of one release, the one of  *)
(* its pack manifest.  Its trace is of that release and what it parsed is  *)
(* what it hashed, but for a file replaced between its own two readings    *)
(* (inspect_linguistic_bundle_at_roots).                                   *)
THEOREM BundleIsOfOneRelease == Spec => []OneRelease
<1>1. ReadingsOK => OneRelease
    <2>. SUFFICES ASSUME ReadingsOK, NEW q \in Inspections, Complete(inspection[q])
                  PROVE  LET r == inspection[q]
                         IN  /\ \E s \in Releases :
                                    /\ r.opened["manifest"] = s["manifest"]
                                    /\ \A f \in Assets : r.hashed[f] = s[f]
                             /\ "manifest" \notin r.replaced =>
                                    r.opened["trace"].target = r.opened["manifest"]
                             /\ \A f \in DOMAIN r.opened \ r.replaced : r.opened[f] = r.hashed[f]
        BY DEF OneRelease
    <2>. DEFINE r == inspection[q]
    <2>1. InspectionOK(r) /\ Hashed(r) /\ ReleaseRead(r) /\ Steady(r, disk)
        BY DEF ReadingsOK, ReadingOK
    <2>2. r.at >= 16
        BY ScriptIs DEF Complete, ScriptLength
    <2>. HIDE DEF r
    <2>3. \A f \in DOMAIN r.opened \ r.replaced : r.opened[f] = r.hashed[f]
        BY <2>1 DEF Steady, Hashed
    <2>4. /\ \A f \in Assets : f \in DOMAIN r.hashed
          /\ "manifest" \in DOMAIN r.opened /\ "trace" \in DOMAIN r.opened
        BY <2>1, <2>2, FilesAre DEF Hashed, ReleaseRead, InspectionOK
    <2>5. /\ r.opened["manifest"] \in Manifests
          /\ r.opened["trace"].target = r.hashed["manifest"]
          /\ \A f \in Assets : r.hashed[f] = r.opened["manifest"].artifacts[f]
        BY <2>1, <2>4 DEF ReleaseRead
    <2>6. PICK s \in Releases : r.opened["manifest"] = s["manifest"]
        BY <2>5 DEF Manifests
    <2>7. \A f \in Assets : r.hashed[f] = s[f]
        BY <2>5, <2>6, BundleConstants
    <2>. QED
        BY <2>3, <2>4, <2>5, <2>6, <2>7 DEF r
<1>. QED
    BY <1>1, ReadingsInvariant, PTL

(***************************************************************************)
(* What the files hold, and what publishers and inspections have of them.  *)
(***************************************************************************)
Places == {"idle", "open", "check", "hash", "stage", "recheck"} \cup Claiming

JobHeld(j) ==
    /\ j.pc \in Places
    /\ j.pc \in {"check", "hash"} =>
           DOMAIN j = {"pc", "force", "projection"} /\ j.projection \in Projections
    /\ j.pc \in {"stage", "recheck"} => DOMAIN j = {"pc", "force", "payload"}
    /\ j.pc \in {"stage", "recheck"} \cup Claiming => \A f \in Outputs : j.payload[f] \in Written[f]
    /\ j.pc \in Claiming => \A f \in Outputs \cap DOMAIN j.backup : j.backup[f] \in Held(f)

ContentsHeld ==
    /\ archive \in Archives /\ events \in 0..MaxEvents
    /\ \A f \in Files : disk[f] \in Held(f)
    /\ \A p \in Publishers : JobHeld(job[p])

LEMMA HeldIs ==
    /\ \A f : Absent \in Held(f)
    /\ \A f \in Outputs : Written[f] \subseteq Held(f)
    /\ \A f \in Files, r \in Releases : r[f] \in Held(f)
    /\ Held("manifest") = Manifests \cup {Absent}
    /\ Held("attribution") = {r["attribution"] : r \in Releases} \cup {Absent}
    /\ {"manifest", "attribution"} \subseteq Files /\ Outputs \subseteq Files
    /\ Outputs = {"projection", "trace"}
    /\ Written["projection"] = Projections /\ Written["trace"] = Traces
<1>1. "manifest" \notin Outputs /\ "attribution" \notin Outputs /\ Outputs = {"projection", "trace"}
    BY DEF Outputs
<1>. QED
    BY <1>1 DEF Held, Content, Manifests, Files, Written

LEMMA BecomeHolds ==
    ASSUME PublishersOK, ContentsHeld, NEW p \in Publishers, NEW state, Become(p, state), JobHeld(state)
    PROVE  ContentsHeld'
<1>1. /\ job' = [o \in Publishers |-> IF o = p THEN state ELSE job[o]]
      /\ disk' = disk /\ archive' = archive /\ events' = events
    BY DEF Become, PublishersOK
<1>2. \A o \in Publishers : JobHeld(job'[o])
    BY <1>1 DEF ContentsHeld
<1>. QED
    BY <1>1, <1>2 DEF ContentsHeld

LEMMA DisturbedHolds ==
    ASSUME PublishersOK, ContentsHeld, NEW p \in Publishers, NEW f
    PROVE  JobHeld(Disturbed(p, f))
<1>1. JobHeld(job[p]) /\ JobOK(job[p], disk)
    BY DEF ContentsHeld, PublishersOK
<1>2. CASE f \in Outputs /\ job[p].pc \in Claiming
    <2>. DEFINE n == [job[p] EXCEPT !.disturbed = TRUE]
    <2>1. n.pc = job[p].pc /\ n.payload = job[p].payload /\ n.backup = job[p].backup
        BY <1>1, <1>2 DEF JobOK, ClaimFields
    <2>2. n.pc \notin {"check", "hash", "stage", "recheck"}
        BY <1>2, <2>1, ClaimingIs
    <2>3. Disturbed(p, f) = n
        BY <1>2 DEF Disturbed
    <2>. HIDE DEF n
    <2>. QED
        BY <1>1, <1>2, <2>1, <2>2, <2>3 DEF JobHeld
<1>3. CASE ~(f \in Outputs /\ job[p].pc \in Claiming)
    BY <1>1, <1>3 DEF Disturbed
<1>. QED
    BY <1>2, <1>3

LEMMA PlaceHolds ==
    ASSUME PublishersOK, ContentsHeld, NEW p \in Publishers, NEW f \in Outputs, NEW content \in Held(f),
           NEW state, Place(p, f, content, state), JobHeld(state)
    PROVE  ContentsHeld'
<1>1. /\ disk' = [disk EXCEPT ![f] = content] /\ archive' = archive /\ events' = events
      /\ job' = [o \in Publishers |-> IF o = p THEN state ELSE Disturbed(o, f)]
      /\ DOMAIN disk = Files
    BY DEF Place, PublishersOK
<1>2. \A g \in Files : disk'[g] \in Held(g)
    BY <1>1 DEF ContentsHeld
<1>3. ASSUME NEW o \in Publishers PROVE JobHeld(job'[o])
    <2>1. CASE o = p
        BY <1>1, <2>1
    <2>2. CASE o # p
        <3>1. job'[o] = Disturbed(o, f)
            BY <1>1, <2>2
        <3>. QED
            BY <3>1, DisturbedHolds
    <2>. QED
        BY <2>1, <2>2
<1>. QED
    BY <1>1, <1>2, <1>3 DEF ContentsHeld

(* A trace is written of a projection that passes, and of a manifest and   *)
(* an attribution that were there.                                         *)
LEMMA EarlyStepHolds ==
    ASSUME PublishersOK, ContentsHeld, NEW p \in Publishers,
           \/ OpenArchive(p) \/ ArchiveRefused(p) \/ CheckInputs(p) \/ InputsRefused(p)
           \/ BuildTrace(p) \/ Stage(p) \/ Recheck(p) \/ OutputRefused(p)
           \/ Cleanup(p) \/ Raise(p) \/ Kill(p)
    PROVE  ContentsHeld'
<1>1. JobHeld(job[p]) /\ archive \in Archives
    BY DEF ContentsHeld
<1>2. ASSUME Become(p, IdleJob) PROVE ContentsHeld'
    <2>1. JobHeld(IdleJob)
        BY ClaimingIs DEF JobHeld, IdleJob, Places
    <2>. QED
        BY <1>2, <2>1, BecomeHolds
<1>3. CASE OpenArchive(p)
    <2>. DEFINE state == [pc |-> "check", force |-> job[p].force, projection |-> ProjectionOf(archive, Pinned)]
    <2>1. ProjectionOf(archive, Pinned) \in Projections
        BY <1>1, <1>3 DEF OpenArchive, Projections
    <2>2. JobHeld(state)
        BY <2>1, ClaimingIs DEF JobHeld, Places
    <2>3. Become(p, state)
        BY <1>3 DEF OpenArchive
    <2>. HIDE DEF state
    <2>. QED
        BY <2>2, <2>3, BecomeHolds
<1>4. CASE CheckInputs(p)
    <2>. DEFINE state == [job[p] EXCEPT !.pc = "hash"]
    <2>1. job[p].pc = "check"
        BY <1>4 DEF CheckInputs, At
    <2>2. JobHeld(state)
        BY <1>1, <2>1, ClaimingIs DEF JobHeld, Places
    <2>3. Become(p, state)
        BY <1>4 DEF CheckInputs
    <2>. HIDE DEF state
    <2>. QED
        BY <2>2, <2>3, BecomeHolds
<1>5. CASE BuildTrace(p)
    <2>. DEFINE projection == job[p].projection
                trace == TraceOf(projection, disk["manifest"], disk["attribution"])
                state == [pc |-> "stage", force |-> job[p].force,
                          payload |-> [projection |-> projection, trace |-> trace]]
    <2>1. projection \in Projections
        BY <1>1, <1>5 DEF BuildTrace, At, JobHeld
    <2>2. disk["manifest"] \in Manifests /\ disk["attribution"] \in {r["attribution"] : r \in Releases}
        BY <1>5, HeldIs DEF BuildTrace, InputsFit, ContentsHeld
    <2>3. Become(p, state)
        BY <1>5 DEF BuildTrace
    <2>. HIDE DEF projection
    <2>4. trace \in Traces
        BY <2>1, <2>2 DEF Traces
    <2>5. state.pc = "stage" /\ DOMAIN state = {"pc", "force", "payload"}
          /\ \A f \in Outputs : state.payload[f] \in Written[f]
        BY <2>1, <2>4, HeldIs
    <2>. HIDE DEF state
    <2>6. JobHeld(state)
        BY <2>5, ClaimingIs DEF JobHeld, Places
    <2>. QED
        BY <2>3, <2>6, BecomeHolds
<1>6. CASE Stage(p)
    <2>. DEFINE state == [job[p] EXCEPT !.pc = "recheck"]
    <2>1. job[p].pc = "stage"
        BY <1>6 DEF Stage, At
    <2>2. JobHeld(state)
        BY <1>1, <2>1, ClaimingIs DEF JobHeld, Places
    <2>3. Become(p, state)
        BY <1>6 DEF Stage
    <2>. HIDE DEF state
    <2>. QED
        BY <2>2, <2>3, BecomeHolds
<1>7. CASE Recheck(p)
    <2>. DEFINE state == [pc |-> IF job[p].force THEN "backup" ELSE "publish", at |-> 1,
                          payload |-> job[p].payload, backup |-> Nothing, published |-> {},
                          before |-> [f \in Outputs |-> disk[f]],
                          disturbed |-> FALSE, spoiled |-> FALSE, stray |-> Nothing]
    <2>1. job[p].pc = "recheck" /\ Become(p, state)
        BY <1>7 DEF Recheck, At
    <2>2. state.pc \in {"backup", "publish"} /\ state.payload = job[p].payload /\ DOMAIN state.backup = {}
        BY DEF Nothing
    <2>. HIDE DEF state
    <2>3. JobHeld(state)
        BY <1>1, <2>1, <2>2, ClaimingIs DEF JobHeld, Places
    <2>. QED
        BY <2>1, <2>3, BecomeHolds
<1>. QED
    BY <1>2, <1>3, <1>4, <1>5, <1>6, <1>7
       DEF ArchiveRefused, InputsRefused, OutputRefused, Cleanup, Raise, Kill

(* What is put at an output is what was compiled or what was there.        *)
LEMMA ClaimedStepHolds ==
    ASSUME PublishersOK, ContentsHeld, NEW p \in Publishers,
           \/ BackUp(p) \/ NothingToBackUp(p) \/ Publish(p)
           \/ CallFails(p) \/ BackUpUnrecorded(p) \/ PublishUnrecorded(p)
           \/ Restore(p) \/ Withdraw(p) \/ RollbackFails(p)
    PROVE  ContentsHeld'
<1>. DEFINE j == job[p]
            f == Subject(p)
<1>1. j.pc \in {"backup", "publish", "rollback"} /\ j.pc \in Claiming
    BY ClaimingIs DEF BackUp, NothingToBackUp, Publish, CallFails, BackUpUnrecorded, PublishUnrecorded,
       Restore, Withdraw, RollbackFails, At
<1>2. DOMAIN j = ClaimFields /\ j.at \in {1, 2} /\ f \in Outputs
    BY <1>1, ClaimedIs
<1>3. /\ \A g \in Outputs : j.payload[g] \in Written[g]
      /\ \A g \in Outputs \cap DOMAIN j.backup : j.backup[g] \in Held(g)
    BY <1>1 DEF ContentsHeld, JobHeld
<1>4. disk[f] \in Held(f) /\ Absent \in Held(f) /\ j.payload[f] \in Held(f)
    BY <1>2, <1>3, HeldIs DEF ContentsHeld
<1>5. ASSUME NEW n, n.pc \in Claiming, n.payload = j.payload,
             \A g \in Outputs \cap DOMAIN n.backup : n.backup[g] \in Held(g)
      PROVE  JobHeld(n)
    BY <1>3, <1>5, ClaimingIs DEF JobHeld, Places
(* The changes that leave payload and backup as they are.                  *)
<1>6. ASSUME NEW b, DOMAIN b = ClaimFields, b.at = j.at, b.pc = j.pc, b.payload = j.payload,
             \A g \in Outputs \cap DOMAIN b.backup : b.backup[g] \in Held(g)
      PROVE  /\ JobHeld(Advance(b, "publish")) /\ JobHeld(Advance(b, "cleanup"))
             /\ JobHeld(Retreat(b)) /\ JobHeld(RollingBack(b))
    <2>1. b.at \in {1, 2} /\ b.pc \in Claiming
        BY <1>1, <1>2, <1>6
    <2>2. \A pc : LET n == Advance(b, pc) IN
              n.payload = b.payload /\ n.backup = b.backup /\ n.pc \in {pc, b.pc}
        BY <1>6, <2>1, AdvanceIs DEF SameClaim
    <2>3. LET n == Retreat(b) IN
              n.payload = b.payload /\ n.backup = b.backup /\ n.pc \in {"failed", b.pc}
        BY <1>6, <2>1, RetreatIs DEF SameClaim
    <2>4. LET n == RollingBack(b) IN
              n.payload = b.payload /\ n.backup = b.backup /\ n.pc = "rollback"
        BY <1>6, RollingBackIs DEF SameClaim
    <2>. QED
        BY <1>5, <1>6, <2>1, <2>2, <2>3, <2>4, ClaimingIs
<1>7. /\ JobHeld(Advance(j, "publish")) /\ JobHeld(Retreat(j)) /\ JobHeld(RollingBack(j))
    BY <1>2, <1>3, <1>6
<1>8. CASE BackUp(p)
    <2>. DEFINE b == [j EXCEPT !.backup = With(@, f, disk[f])]
    <2>1. DOMAIN b = ClaimFields /\ b.at = j.at /\ b.pc = j.pc /\ b.payload = j.payload
          /\ b.backup = With(j.backup, f, disk[f])
        BY <1>2 DEF ClaimFields
    <2>2. \A g \in Outputs \cap DOMAIN b.backup : b.backup[g] \in Held(g)
        BY <1>3, <1>4, <2>1 DEF With
    <2>. HIDE DEF b
    <2>3. JobHeld(Advance(b, "publish"))
        BY <1>6, <2>1, <2>2
    <2>4. Place(p, f, Absent, Advance(b, "publish"))
        BY <1>8 DEF BackUp, b
    <2>. QED
        BY <1>2, <1>4, <2>3, <2>4, PlaceHolds
<1>9. CASE NothingToBackUp(p)
    BY <1>7, <1>9, BecomeHolds DEF NothingToBackUp
<1>10. CASE Publish(p)
    <2>. DEFINE b == [j EXCEPT !.published = @ \cup {f}]
    <2>1. DOMAIN b = ClaimFields /\ b.at = j.at /\ b.pc = j.pc /\ b.payload = j.payload /\ b.backup = j.backup
        BY <1>2 DEF ClaimFields
    <2>. HIDE DEF b
    <2>2. JobHeld(Advance(b, "cleanup"))
        BY <1>3, <1>6, <2>1
    <2>3. Place(p, f, j.payload[f], Advance(b, "cleanup"))
        BY <1>10 DEF Publish, b
    <2>. QED
        BY <1>2, <1>4, <2>2, <2>3, PlaceHolds
<1>11. CASE CallFails(p)
    BY <1>7, <1>11, BecomeHolds DEF CallFails
<1>12. CASE BackUpUnrecorded(p)
    <2>. DEFINE b == [j EXCEPT !.spoiled = TRUE, !.stray = With(@, f, disk[f])]
    <2>1. DOMAIN b = ClaimFields /\ b.at = j.at /\ b.pc = j.pc /\ b.payload = j.payload /\ b.backup = j.backup
        BY <1>2 DEF ClaimFields
    <2>. HIDE DEF b
    <2>2. JobHeld(RollingBack(b))
        BY <1>3, <1>6, <2>1
    <2>3. Place(p, f, Absent, RollingBack(b))
        BY <1>12 DEF BackUpUnrecorded, b
    <2>. QED
        BY <1>2, <1>4, <2>2, <2>3, PlaceHolds
<1>13. CASE PublishUnrecorded(p) \/ RollbackFails(p)
    <2>. DEFINE b == [j EXCEPT !.spoiled = TRUE]
    <2>1. DOMAIN b = ClaimFields /\ b.at = j.at /\ b.pc = j.pc /\ b.payload = j.payload /\ b.backup = j.backup
        BY <1>2 DEF ClaimFields
    <2>. HIDE DEF b
    <2>2. JobHeld(RollingBack(b)) /\ JobHeld(Retreat(b))
        BY <1>3, <1>6, <2>1
    <2>3. Place(p, f, j.payload[f], RollingBack(b)) \/ Become(p, Retreat(b))
        BY <1>13 DEF PublishUnrecorded, RollbackFails, b
    <2>. QED
        BY <1>2, <1>4, <2>2, <2>3, PlaceHolds, BecomeHolds
<1>14. CASE Restore(p)
    <2>. DEFINE b == [j EXCEPT !.backup = Without(@, f)]
    <2>1. DOMAIN b = ClaimFields /\ b.at = j.at /\ b.pc = j.pc /\ b.payload = j.payload
          /\ b.backup = Without(j.backup, f)
        BY <1>2 DEF ClaimFields
    <2>2. \A g \in Outputs \cap DOMAIN b.backup : b.backup[g] \in Held(g)
        BY <1>3, <2>1 DEF Without
    <2>. HIDE DEF b
    <2>3. JobHeld(Retreat(b))
        BY <1>6, <2>1, <2>2
    <2>4. Place(p, f, j.backup[f], Retreat(b)) /\ j.backup[f] \in Held(f)
        BY <1>2, <1>3, <1>14 DEF Restore, b
    <2>. QED
        BY <1>2, <2>3, <2>4, PlaceHolds
<1>15. CASE Withdraw(p)
    <2>1. Place(p, f, Absent, Retreat(j)) \/ Become(p, Retreat(j))
        BY <1>15 DEF Withdraw
    <2>. QED
        BY <1>2, <1>4, <1>7, <2>1, PlaceHolds, BecomeHolds
<1>. QED
    BY <1>8, <1>9, <1>10, <1>11, <1>12, <1>13, <1>14, <1>15

LEMMA ContentsInvariant == Spec => []ContentsHeld
<1>1. Init => ContentsHeld
    <2>1. JobHeld(IdleJob)
        BY ClaimingIs DEF JobHeld, IdleJob, Places
    <2>. QED
        BY <2>1, BundleConstants DEF Init, ContentsHeld
<1>2. ContentsHeld /\ PublishersOK /\ [Next]_vars => ContentsHeld'
    <2>. SUFFICES ASSUME ContentsHeld, PublishersOK, [Next]_vars PROVE ContentsHeld'
        OBVIOUS
    <2>1. events \in 0..MaxEvents /\ MaxEvents \in Nat
        BY BundleConstants DEF ContentsHeld
    <2>2. ASSUME NEW p \in Publishers, NEW force \in BOOLEAN, StartPublication(p, force) PROVE ContentsHeld'
        <3>. DEFINE state == [pc |-> "open", force |-> force]
        <3>1. JobHeld(state)
            BY ClaimingIs DEF JobHeld, Places
        <3>. HIDE DEF state
        <3>2. /\ job' = [o \in Publishers |-> IF o = p THEN state ELSE job[o]]
              /\ disk' = disk /\ archive' = archive /\ events' \in 0..MaxEvents
            BY <2>1, <2>2 DEF StartPublication, PublishersOK, state
        <3>3. \A o \in Publishers : JobHeld(job'[o])
            BY <3>1, <3>2 DEF ContentsHeld
        <3>. QED
            BY <3>2, <3>3 DEF ContentsHeld
    <2>3. ASSUME NEW p \in Publishers, PublisherStep(p) PROVE ContentsHeld'
        BY <2>2, <2>3, EarlyStepHolds, ClaimedStepHolds DEF PublisherStep
    <2>4. ASSUME NEW q \in Inspections, InspectionStep(q) PROVE ContentsHeld'
        BY <2>4 DEF InspectionStep, StartInspection, TakeStep, InspectionRefused, Return, Inspect,
           ContentsHeld
    <2>5. ASSUME NEW f \in Files, NEW r \in Releases, Install(f, r) PROVE ContentsHeld'
        <3>1. /\ disk' = [disk EXCEPT ![f] = r[f]] /\ archive' = archive /\ events' \in 0..MaxEvents
              /\ job' = [p \in Publishers |-> Disturbed(p, f)] /\ DOMAIN disk = Files
            BY <2>1, <2>5 DEF Install, PublishersOK
        <3>2. \A g \in Files : disk'[g] \in Held(g)
            BY <3>1, HeldIs DEF ContentsHeld
        <3>3. \A p \in Publishers : JobHeld(job'[p])
            BY <3>1, DisturbedHolds
        <3>. QED
            BY <3>1, <3>2, <3>3 DEF ContentsHeld
    <2>6. ASSUME NEW a \in Archives, ReplaceArchive(a) PROVE ContentsHeld'
        BY <2>1, <2>6 DEF ReplaceArchive, ContentsHeld
    <2>7. CASE UNCHANGED vars
        BY <2>7 DEF vars, ContentsHeld
    <2>. QED
        BY <2>3, <2>4, <2>5, <2>6, <2>7 DEF Next
<1>. QED
    BY <1>1, <1>2, PublishersInvariant, PTL DEF Spec

(* An inspection is somewhere in its script, and has read files.           *)
ReadHeld(r) ==
    /\ r.at \in 0..(ScriptLength(r) + 1)
    /\ DOMAIN r.hashed \cup DOMAIN r.opened \subseteq Files

ReadsHeld == \A q \in Inspections : ReadHeld(inspection[q])

LEMMA WaitingHeld == ReadHeld(Waiting) /\ ReadHeld([Waiting EXCEPT !.at = 1])
BY DEF ReadHeld, Waiting, Nothing, ScriptLength

(* The script is lengthened only where the trace is opened, near its       *)
(* beginning.                                                              *)
LEMMA StepHeld ==
    ASSUME NEW r, InspectionOK(r), ReadHeld(r), Working(r), NEW hashed, NEW opened, NEW content,
           \/ Now(r).op = "hash" /\ hashed = With(r.hashed, Now(r).file, content) /\ opened = r.opened
           \/ Now(r).op = "open" /\ hashed = r.hashed /\ opened = With(r.opened, Now(r).file, content)
    PROVE  ReadHeld([r EXCEPT !.at = @ + 1, !.hashed = hashed, !.opened = opened])
<1>. DEFINE next == [r EXCEPT !.at = @ + 1, !.hashed = hashed, !.opened = opened]
            f == Now(r).file
<1>1. next.at = r.at + 1 /\ next.hashed = hashed /\ next.opened = opened
    BY DEF InspectionOK, Fields
<1>2. /\ r.at \in 1..ScriptLength(r) /\ f \in Files
      /\ Now(r).op = "open" /\ f = "trace" <=> r.at = 4
    BY NowIs DEF InspectionOK, Accesses
<1>3. DOMAIN hashed \cup DOMAIN opened \subseteq DOMAIN r.hashed \cup DOMAIN r.opened \cup {f}
    BY DEF With
<1>4. r.at # 4 => (Grounded(next) <=> Grounded(r))
    <2>1. CASE opened = r.opened
        BY <1>1, <2>1 DEF Grounded
    <2>2. CASE Now(r).op = "open" /\ opened = With(r.opened, f, content) /\ f # "trace"
        <3>1. /\ "trace" \in DOMAIN opened <=> "trace" \in DOMAIN r.opened
              /\ "trace" \in DOMAIN r.opened => opened["trace"] = r.opened["trace"]
            BY <2>2 DEF With
        <3>. QED
            BY <1>1, <3>1 DEF Grounded
    <2>. QED
        BY <1>2, <2>1, <2>2
<1>5. ScriptLength(r) \in {16, 19} /\ ScriptLength(next) \in {16, 19}
    BY DEF ScriptLength
<1>6. r.at # 4 => ScriptLength(next) = ScriptLength(r)
    BY <1>4 DEF ScriptLength
<1>. HIDE DEF next, f
<1>7. next.at \in 0..(ScriptLength(next) + 1)
    BY <1>1, <1>2, <1>5, <1>6
<1>8. DOMAIN next.hashed \cup DOMAIN next.opened \subseteq Files
    BY <1>1, <1>2, <1>3 DEF ReadHeld
<1>. QED
    BY <1>7, <1>8 DEF ReadHeld, next

LEMMA ReplacedHeld ==
    ASSUME InspectionsOK, ReadsHeld, NEW g, inspection' = Replaced(g)
    PROVE  ReadsHeld'
<1>. SUFFICES ASSUME NEW q \in Inspections PROVE ReadHeld(inspection'[q])
    BY DEF ReadsHeld
<1>1. InspectionOK(inspection[q]) /\ ReadHeld(inspection[q])
    BY DEF InspectionsOK, ReadsHeld
<1>2. /\ inspection'[q].at = inspection[q].at /\ inspection'[q].hashed = inspection[q].hashed
      /\ inspection'[q].opened = inspection[q].opened
    BY <1>1, ReplacedIs DEF InspectionOK
<1>. QED
    BY <1>1, <1>2 DEF ReadHeld, ScriptLength, Grounded

LEMMA InspectHeld ==
    ASSUME InspectionsOK, ReadsHeld, NEW q \in Inspections, InspectionStep(q)
    PROVE  ReadsHeld'
<1>1. InspectionOK(inspection[q]) /\ ReadHeld(inspection[q])
    BY DEF InspectionsOK, ReadsHeld
<1>2. ASSUME NEW state, ReadHeld(state), Inspect(q, state) PROVE ReadsHeld'
    <2>1. inspection' = [o \in Inspections |-> IF o = q THEN state ELSE inspection[o]]
        BY <1>2 DEF Inspect, InspectionsOK
    <2>. QED
        BY <1>2, <2>1 DEF ReadsHeld
<1>3. CASE StartInspection(q)
    BY <1>2, <1>3, WaitingHeld DEF StartInspection
<1>4. CASE TakeStep(q)
    <2>. DEFINE r == inspection[q]
                f == Now(r).file
    <2>1. Working(r)
        BY <1>4 DEF TakeStep
    <2>2. CASE Now(r).op = "hash"
        <3>. DEFINE hashed == With(r.hashed, f, disk[f])
                    next == [r EXCEPT !.at = @ + 1, !.hashed = hashed, !.opened = r.opened]
        <3>1. Inspect(q, [r EXCEPT !.at = @ + 1, !.hashed = With(@, f, disk[f])])
            BY <1>4, <2>2 DEF TakeStep
        <3>2. [r EXCEPT !.at = @ + 1, !.hashed = With(@, f, disk[f])] = next
            BY <1>1 DEF InspectionOK, Fields
        <3>3. ReadHeld(next)
            BY <1>1, <2>1, <2>2, StepHeld
        <3>. QED
            BY <1>2, <3>1, <3>2, <3>3
    <2>3. CASE Now(r).op # "hash"
        <3>. DEFINE opened == With(r.opened, f, disk[f])
                    next == [r EXCEPT !.at = @ + 1, !.hashed = r.hashed, !.opened = opened]
        <3>1. Inspect(q, [r EXCEPT !.at = @ + 1, !.opened = With(@, f, disk[f])])
            BY <1>4, <2>3 DEF TakeStep
        <3>2. [r EXCEPT !.at = @ + 1, !.opened = With(@, f, disk[f])] = next
            BY <1>1 DEF InspectionOK, Fields
        <3>3. Now(r).op = "open"
            BY <1>1, <2>1, <2>3, NowIs DEF InspectionOK, Accesses
        <3>4. ReadHeld(next)
            BY <1>1, <2>1, <3>3, StepHeld
        <3>. QED
            BY <1>2, <3>1, <3>2, <3>4
    <2>. QED
        BY <2>2, <2>3
<1>5. CASE InspectionRefused(q)
    BY <1>2, <1>5, WaitingHeld DEF InspectionRefused
<1>6. CASE Return(q)
    BY <1>2, <1>6, WaitingHeld DEF Return
<1>. QED
    BY <1>3, <1>4, <1>5, <1>6 DEF InspectionStep

LEMMA ReadsInvariant == Spec => []ReadsHeld
<1>1. Init => ReadsHeld
    BY WaitingHeld DEF Init, ReadsHeld
<1>2. InspectionsOK /\ ReadsHeld /\ [Next]_vars => ReadsHeld'
    <2>. SUFFICES ASSUME InspectionsOK, ReadsHeld, [Next]_vars PROVE ReadsHeld'
        OBVIOUS
    <2>1. ASSUME inspection' = inspection PROVE ReadsHeld'
        BY <2>1 DEF ReadsHeld
    <2>2. ASSUME NEW p \in Publishers, PublisherStep(p) PROVE ReadsHeld'
        BY <2>1, <2>2, PublisherUnseen, ReplacedHeld
    <2>3. ASSUME NEW q \in Inspections, InspectionStep(q) PROVE ReadsHeld'
        BY <2>3, InspectHeld
    <2>4. ASSUME NEW f \in Files, NEW r \in Releases, Install(f, r) PROVE ReadsHeld'
        BY <2>4, ReplacedHeld DEF Install
    <2>5. ASSUME NEW a \in Archives, ReplaceArchive(a) PROVE ReadsHeld'
        BY <2>1, <2>5 DEF ReplaceArchive
    <2>6. CASE UNCHANGED vars
        BY <2>1, <2>6 DEF vars
    <2>. QED
        BY <2>2, <2>3, <2>4, <2>5, <2>6 DEF Next
<1>. QED
    BY <1>1, <1>2, InspectionsInvariant, PTL DEF Spec

(* Whatever is installed, published, killed and rolled back in any order,  *)
(* every file holds what a release has there or what a publisher compiled  *)
(* of an archive that passes, and every inspection is in its script.       *)
THEOREM FilesAreOfReleases == Spec => []TypeOK
<1>1. ContentsHeld /\ ReadsHeld => TypeOK
    <2>. SUFFICES ASSUME ContentsHeld, ReadsHeld PROVE TypeOK
        OBVIOUS
    <2>1. ASSUME NEW q \in Inspections
          PROVE  LET r == inspection[q]
                 IN  /\ r.at \in 0..(Len(Script(r)) + 1)
                     /\ \A f \in DOMAIN r.hashed \cup DOMAIN r.opened : f \in Files
        BY ScriptIs DEF ReadsHeld, ReadHeld
    <2>. QED
        BY <2>1 DEF TypeOK, ContentsHeld, JobHeld, Places
<1>. QED
    BY <1>1, ContentsInvariant, ReadsInvariant, PTL
=============================================================================
