--------------------------- MODULE SumoSourceProofs ---------------------------
(***************************************************************************)
(* What the searches of SumoSource find, for any number of classes and     *)
(* whatever the modules say of them.                                       *)
(***************************************************************************)
EXTENDS SumoSource, FiniteSetTheorems, SequenceTheorems, WellFoundedInduction, TLAPS

LEMMA LeastNatural ==
    ASSUME NEW S \in SUBSET Nat, S # {}
    PROVE  \E n \in S : \A m \in S : n <= m
<1>. DEFINE R == {pair \in Nat \X Nat : pair[1] < pair[2]}
<1>1. IsWellFoundedOn(R, Nat)
    BY NatLessThanWellFounded DEF OpToRel
<1>2. \A m, n \in Nat : <<m, n>> \in R <=> m < n
    OBVIOUS
<1>. HIDE DEF R
<1>3. PICK n \in S : \A m \in S : <<m, n>> \notin R
    BY <1>1, WFMin
<1>4. \A m \in S : ~(m < n)
    BY <1>2, <1>3
<1>. QED
    BY <1>4

(***************************************************************************)
(* The search by levels.                                                   *)
(***************************************************************************)
Bound == Cardinality(Terms)

LEMMA BoundIsNatural == Bound \in Nat
BY SourceConstants, FS_CardinalityType DEF Bound

(* Paths of n classes that repeat none and end at the target if they come  *)
(* to it.                                                                  *)
Simple(s, n) == \A i, j \in 1..n : s[i] = s[j] => i = j
Linked(s, n, edges) == \A i \in 1..(n - 1) : <<s[i], s[i + 1]>> \in edges
Nodes(edges, start) == {start} \cup {e[2] : e \in edges}

Paths(n, edges, start, target) ==
    {s \in [1..n -> Nodes(edges, start)] :
        /\ s[1] = start /\ Simple(s, n) /\ Linked(s, n, edges)
        /\ \A i \in 1..(n - 1) : s[i] # target}

(* The edges a projection states are pairs. *)
Pairs(edges) == \A e \in edges : e = <<e[1], e[2]>>

LEMMA FirstPaths ==
    ASSUME NEW edges, NEW start, NEW target
    PROVE  Paths(1, edges, start, target) = {<<start>>}
<1>1. <<start>> \in [1..1 -> Nodes(edges, start)]
    BY DEF Nodes
<1>2. <<start>> \in Paths(1, edges, start, target)
    BY <1>1 DEF Paths, Simple, Linked
<1>3. ASSUME NEW s \in Paths(1, edges, start, target) PROVE s = <<start>>
    <2>1. s \in [1..1 -> Nodes(edges, start)] /\ s[1] = start
        BY DEF Paths
    <2>. QED
        BY <2>1
<1>. QED
    BY <1>2, <1>3

LEMMA LongerPaths ==
    ASSUME NEW edges, Pairs(edges), NEW start, NEW target, NEW n \in Nat \ {0}
    PROVE  Extended(Paths(n, edges, start, target), n, edges, target)
             = Paths(n + 1, edges, start, target)
<1>. DEFINE P == Paths(n, edges, start, target)
            Q == Paths(n + 1, edges, start, target)
            E == Extended(P, n, edges, target)
<1>1. ASSUME NEW s \in P, s[n] # target, NEW e \in edges, e[1] = s[n], \A i \in 1..n : e[2] # s[i]
      PROVE  Append(s, e[2]) \in Q
    <2>. DEFINE t == Append(s, e[2])
    <2>1. s \in [1..n -> Nodes(edges, start)] /\ s[1] = start /\ Simple(s, n) /\ Linked(s, n, edges)
          /\ \A i \in 1..(n - 1) : s[i] # target
        BY DEF Paths
    <2>2. e[2] \in Nodes(edges, start) /\ e = <<s[n], e[2]>>
        BY <1>1 DEF Nodes, Pairs
    <2>3. s \in Seq(Nodes(edges, start)) /\ Len(s) = n
        BY <2>1
    <2>4. /\ t \in [1..(n + 1) -> Nodes(edges, start)]
          /\ \A i \in 1..n : t[i] = s[i]
          /\ t[n + 1] = e[2]
        <3>1. /\ t \in Seq(Nodes(edges, start)) /\ Len(t) = n + 1
              /\ \A i \in 1..n : t[i] = s[i]
              /\ t[n + 1] = e[2]
            BY <2>2, <2>3, AppendProperties
        <3>. HIDE DEF t
        <3>. QED
            BY <3>1, LenProperties
    <2>. HIDE DEF t
    <2>5. t[1] = start /\ \A i \in 1..n : t[i] # target
        BY <1>1, <2>1, <2>4
    <2>6. Simple(t, n + 1)
        BY <1>1, <2>1, <2>4 DEF Simple
    <2>7. Linked(t, n + 1, edges)
        <3>1. ASSUME NEW i \in 1..n PROVE <<t[i], t[i + 1]>> \in edges
            <4>1. CASE i = n
                BY <2>2, <2>4, <4>1
            <4>2. CASE i # n
                BY <2>1, <2>4, <4>2 DEF Linked
            <4>. QED
                BY <4>1, <4>2
        <3>. QED
            BY <3>1 DEF Linked
    <2>8. t \in Q
        BY <2>4, <2>5, <2>6, <2>7 DEF Paths
    <2>. QED
        BY <2>8 DEF t
<1>2. ASSUME NEW t \in E PROVE t \in Q
    <2>1. PICK s \in P : s[n] # target
              /\ t \in {Append(s, e[2]) : e \in {x \in edges : x[1] = s[n] /\ \A i \in 1..n : x[2] # s[i]}}
        BY DEF Extended
    <2>2. PICK e \in edges : e[1] = s[n] /\ (\A i \in 1..n : e[2] # s[i]) /\ t = Append(s, e[2])
        BY <2>1
    <2>. QED
        BY <1>1, <2>1, <2>2
<1>3. ASSUME NEW t \in Q PROVE t \in E
    <2>. DEFINE s == [i \in 1..n |-> t[i]]
                e == <<t[n], t[n + 1]>>
    <2>1. t \in [1..(n + 1) -> Nodes(edges, start)] /\ t[1] = start /\ Simple(t, n + 1)
          /\ Linked(t, n + 1, edges) /\ \A i \in 1..n : t[i] # target
        BY DEF Paths
    <2>2. s \in [1..n -> Nodes(edges, start)] /\ s[1] = start /\ s[n] # target
        BY <2>1
    <2>3. Simple(s, n)
        BY <2>1 DEF Simple
    <2>4. Linked(s, n, edges)
        BY <2>1 DEF Linked
    <2>5. s \in P
        BY <2>1, <2>2, <2>3, <2>4 DEF Paths
    <2>6. e \in edges /\ e[1] = s[n]
        BY <2>1 DEF Linked
    <2>7. \A i \in 1..n : e[2] # s[i]
        BY <2>1 DEF Simple
    <2>8. Append(s, e[2]) = t
        <3>1. s \in Seq(Nodes(edges, start)) /\ Len(s) = n
            BY <2>2
        <3>. QED
            BY <2>1, <3>1
    <2>. HIDE DEF s, e
    <2>. QED
        BY <2>2, <2>5, <2>6, <2>7, <2>8 DEF Extended
<1>. QED
    BY <1>2, <1>3

(* A function that the recursion of the search describes.                  *)
Search(g, edges, start, target) ==
    g = [n \in 1..Bound |->
            IF n = 1 THEN {<<start>>} ELSE Extended(g[n - 1], n - 1, edges, target)]

LEMMA SearchHolds ==
    ASSUME NEW edges, Pairs(edges), NEW start, NEW target
    PROVE  Search([n \in 1..Bound |-> Paths(n, edges, start, target)], edges, start, target)
<1>. DEFINE f == [n \in 1..Bound |-> Paths(n, edges, start, target)]
            step(n) == IF n = 1 THEN {<<start>>} ELSE Extended(f[n - 1], n - 1, edges, target)
<1>1. ASSUME NEW n \in 1..Bound PROVE Paths(n, edges, start, target) = step(n)
    <2>1. CASE n = 1
        BY <2>1, FirstPaths
    <2>2. CASE n # 1
        <3>1. n - 1 \in 1..Bound /\ n - 1 \in Nat \ {0} /\ (n - 1) + 1 = n
            BY <2>2, BoundIsNatural
        <3>2. Extended(f[n - 1], n - 1, edges, target) = Paths(n, edges, start, target)
            BY <3>1, LongerPaths
        <3>. QED
            BY <2>2, <3>2
    <2>. QED
        BY <2>1, <2>2
<1>2. f = [n \in 1..Bound |-> step(n)]
    BY <1>1
<1>. QED
    BY <1>2 DEF Search

LEMMA SearchIsUnique ==
    ASSUME NEW edges, Pairs(edges), NEW start, NEW target, NEW g, Search(g, edges, start, target)
    PROVE  \A n \in 1..Bound : g[n] = Paths(n, edges, start, target)
<1>. DEFINE D == {n \in 1..Bound : g[n] # Paths(n, edges, start, target)}
<1>1. SUFFICES ASSUME D # {} PROVE FALSE
    OBVIOUS
<1>2. D \in SUBSET Nat
    BY BoundIsNatural
<1>3. PICK n \in D : \A m \in D : n <= m
    BY <1>1, <1>2, LeastNatural
<1>4. n \in 1..Bound /\ g[n] # Paths(n, edges, start, target)
    OBVIOUS
<1>5. g[n] = IF n = 1 THEN {<<start>>} ELSE Extended(g[n - 1], n - 1, edges, target)
    BY <1>4 DEF Search
<1>6. CASE n = 1
    BY <1>4, <1>5, <1>6, FirstPaths
<1>7. CASE n # 1
    <2>1. n - 1 \in 1..Bound /\ n - 1 \in Nat \ {0} /\ (n - 1) + 1 = n /\ ~(n <= n - 1)
        BY <1>4, <1>7, BoundIsNatural
    <2>2. g[n - 1] = Paths(n - 1, edges, start, target)
        BY <1>3, <2>1
    <2>3. Extended(Paths(n - 1, edges, start, target), n - 1, edges, target) = Paths(n, edges, start, target)
        BY <2>1, LongerPaths
    <2>. QED
        BY <1>4, <1>5, <1>7, <2>2, <2>3
<1>. QED
    BY <1>6, <1>7

LEMMA EdgesArePairs == \A read : Pairs(Subclasses(read))
BY DEF Pairs, Subclasses

(* The search finds every path of the bounded lengths and nothing else.    *)
LEMMA PathsFound ==
    ASSUME NEW read, NEW start, NEW target
    PROVE  PathsFrom(read, start, target)
             = UNION {Paths(n, Subclasses(read), start, target) : n \in 1..Bound}
<1>. DEFINE edges == Subclasses(read)
            g == CHOOSE h : Search(h, edges, start, target)
<1>1. Search([n \in 1..Bound |-> Paths(n, edges, start, target)], edges, start, target)
    BY EdgesArePairs, SearchHolds
<1>2. Search(g, edges, start, target)
    BY <1>1, Zenon
<1>3. PathsFrom(read, start, target) = UNION {g[n] : n \in 1..Bound}
    BY Zenon DEF PathsFrom, Search, Bound
<1>. HIDE DEF g, edges
<1>4. \A n \in 1..Bound : g[n] = Paths(n, edges, start, target)
    BY <1>2, EdgesArePairs, SearchIsUnique DEF edges
<1>. QED
    BY <1>3, <1>4 DEF edges

(***************************************************************************)
(* Paths that reach their target.                                          *)
(***************************************************************************)
Route(s, n, edges, start, target) ==
    /\ n \in 1..Bound /\ s = [i \in 1..n |-> s[i]]
    /\ s[1] = start /\ s[n] = target
    /\ Simple(s, n) /\ Linked(s, n, edges)

LEMMA LengthOf ==
    ASSUME NEW n \in Nat, NEW s, s = [i \in 1..n |-> s[i]]
    PROVE  Len(s) = n
<1>1. s \in [1..n -> {s[i] : i \in 1..n}]
    <2>. DEFINE S == {s[i] : i \in 1..n}
    <2>1. \A i \in 1..n : s[i] \in S
        OBVIOUS
    <2>. HIDE DEF S
    <2>. QED
        BY <2>1
<1>. QED
    BY <1>1, LenProperties

LEMMA RoutesFound ==
    ASSUME NEW read, NEW start, NEW target, NEW s, NEW n, Route(s, n, Subclasses(read), start, target)
    PROVE  s \in Reaching(read, start, target) /\ Len(s) = n
<1>. DEFINE edges == Subclasses(read)
<1>1. n \in Nat \ {0} /\ n \in 1..Bound
    BY BoundIsNatural DEF Route
<1>2. Len(s) = n
    BY <1>1, LengthOf DEF Route
<1>3. ASSUME NEW i \in 1..n PROVE s[i] \in Nodes(edges, start)
    <2>1. CASE i = 1
        BY <2>1 DEF Route, Nodes
    <2>2. CASE i # 1
        <3>1. i - 1 \in 1..(n - 1) /\ (i - 1) + 1 = i
            BY <1>1, <2>2
        <3>2. <<s[i - 1], s[i]>> \in edges
            BY <3>1 DEF Route, Linked
        <3>. QED
            BY <3>2 DEF Nodes
    <2>. QED
        BY <2>1, <2>2
<1>4. s \in [1..n -> Nodes(edges, start)]
    BY <1>3 DEF Route
<1>5. \A i \in 1..(n - 1) : s[i] # target
    BY <1>1 DEF Route, Simple
<1>6. s \in Paths(n, edges, start, target)
    BY <1>4, <1>5 DEF Route, Paths
<1>7. s \in PathsFrom(read, start, target)
    BY <1>1, <1>6, PathsFound
<1>. QED
    BY <1>2, <1>7 DEF Reaching, Route

LEMMA ReachingRoutes ==
    ASSUME NEW read, NEW start, NEW target, NEW s \in Reaching(read, start, target)
    PROVE  Route(s, Len(s), Subclasses(read), start, target)
<1>1. s \in PathsFrom(read, start, target) /\ s[Len(s)] = target
    BY DEF Reaching
<1>2. PICK n \in 1..Bound : s \in Paths(n, Subclasses(read), start, target)
    BY <1>1, PathsFound
<1>3. s \in [1..n -> Nodes(Subclasses(read), start)]
    BY <1>2 DEF Paths
<1>4. s = [i \in 1..n |-> s[i]] /\ Len(s) = n
    BY <1>3, BoundIsNatural, LengthOf
<1>. QED
    BY <1>1, <1>2, <1>4 DEF Paths, Route

(* The shortest paths of a projection, if only one, is the only shortest   *)
(* in whatever part of it states that path.                                *)
LEMMA UniqueInPart ==
    ASSUME NEW part, NEW read, Subclasses(part) \subseteq Subclasses(read),
           NEW start, NEW target, NEW s, ShortestPaths(read, start, target) = {s},
           Linked(s, Len(s), Subclasses(part))
    PROVE  ShortestPaths(part, start, target) = {s}
<1>1. s \in Reaching(read, start, target)
      /\ \A t \in Reaching(read, start, target) : Len(s) <= Len(t)
    BY DEF ShortestPaths
<1>2. Route(s, Len(s), Subclasses(part), start, target)
    BY <1>1, ReachingRoutes DEF Route
<1>3. s \in Reaching(part, start, target)
    BY <1>2, RoutesFound
<1>4. ASSUME NEW t \in Reaching(part, start, target)
      PROVE  t \in Reaching(read, start, target) /\ Len(t) \in Nat
    <2>1. Route(t, Len(t), Subclasses(part), start, target)
        BY ReachingRoutes
    <2>2. Route(t, Len(t), Subclasses(read), start, target)
        BY <2>1 DEF Route, Linked
    <2>. QED
        BY <2>1, <2>2, RoutesFound, BoundIsNatural DEF Route
<1>5. \A t \in Reaching(read, start, target) : Len(t) \in Nat
    BY ReachingRoutes, BoundIsNatural DEF Route
<1>6. s \in ShortestPaths(part, start, target)
    BY <1>1, <1>3, <1>4 DEF ShortestPaths
<1>7. ASSUME NEW t \in ShortestPaths(part, start, target) PROVE t = s
    <2>1. t \in Reaching(read, start, target) /\ Len(t) <= Len(s) /\ Len(t) \in Nat /\ Len(s) \in Nat
        BY <1>3, <1>4 DEF ShortestPaths
    <2>2. \A u \in Reaching(read, start, target) : Len(t) <= Len(u)
        BY <1>1, <1>5, <2>1
    <2>3. t \in ShortestPaths(read, start, target)
        BY <2>1, <2>2 DEF ShortestPaths
    <2>. QED
        BY <2>3
<1>. QED
    BY <1>6, <1>7

(* And what follows its first class is the only shortest path from the     *)
(* second in whatever part states it, though the part says nothing of the  *)
(* first: a way back to the first class would be no shortcut.              *)
LEMMA TailUniqueInPart ==
    ASSUME NEW part, NEW read, Subclasses(part) \subseteq Subclasses(read),
           NEW start, NEW target, NEW s, ShortestPaths(read, start, target) = {s}, Len(s) >= 2,
           Linked(Tail(s), Len(s) - 1, Subclasses(part))
    PROVE  ShortestPaths(part, s[2], target) = {Tail(s)}
<1>. DEFINE n == Len(s)
            edges == Subclasses(read)
            rest == [i \in 1..(n - 1) |-> s[i + 1]]
<1>1. s \in Reaching(read, start, target)
      /\ \A t \in Reaching(read, start, target) : n <= Len(t)
    BY DEF ShortestPaths
<1>2. Route(s, n, edges, start, target)
    BY <1>1, ReachingRoutes
<1>3. n \in 2..Bound /\ n \in Nat /\ Bound \in Nat
    BY <1>2, BoundIsNatural DEF Route
<1>4. Tail(s) = rest
    <2>. DEFINE S == {s[i] : i \in 1..n}
    <2>1. s \in Seq(S) /\ s # <<>>
        <3>1. \A i \in 1..n : s[i] \in S
            OBVIOUS
        <3>. HIDE DEF S
        <3>2. s \in [1..n -> S]
            BY <1>2, <3>1 DEF Route
        <3>. QED
            BY <1>3, <3>2, LenProperties
    <2>. HIDE DEF S
    <2>2. /\ Tail(s) \in Seq(S) /\ Len(Tail(s)) = n - 1
          /\ \A i \in 1..(n - 1) : Tail(s)[i] = s[i + 1]
        BY <2>1, HeadTailProperties
    <2>. QED
        BY <2>2, LenProperties
<1>5. Route(rest, n - 1, Subclasses(part), s[2], target)
    <2>1. n - 1 \in 1..Bound /\ rest = [i \in 1..(n - 1) |-> rest[i]]
        BY <1>3
    <2>2. rest[1] = s[2] /\ rest[n - 1] = target
        BY <1>2, <1>3 DEF Route
    <2>3. Simple(rest, n - 1)
        BY <1>2, <1>3 DEF Route, Simple
    <2>. QED
        BY <1>4, <2>1, <2>2, <2>3 DEF Route
<1>. HIDE DEF rest
<1>6. rest \in Reaching(part, s[2], target) /\ Len(rest) = n - 1
    BY <1>5, RoutesFound
<1>7. ASSUME NEW t \in Reaching(part, s[2], target), Len(t) <= n - 1
      PROVE  t = rest
    <2>. DEFINE m == Len(t)
                longer == [i \in 1..(m + 1) |-> IF i = 1 THEN start ELSE t[i - 1]]
    <2>1. Route(t, m, Subclasses(part), s[2], target)
        BY ReachingRoutes
    <2>2. m \in 1..Bound /\ m \in Nat /\ m + 1 \in 1..Bound /\ Linked(t, m, edges)
        BY <1>3, <1>7, <2>1 DEF Route, Linked
    <2>3. ASSUME NEW k \in 1..m, t[k] = start PROVE FALSE
        <3>. DEFINE cut == [i \in 1..(m - k + 1) |-> t[i + k - 1]]
        <3>1. m - k + 1 \in 1..Bound /\ cut = [i \in 1..(m - k + 1) |-> cut[i]]
            BY <1>3, <2>2
        <3>2. cut[1] = start /\ cut[m - k + 1] = target
            BY <2>1, <2>2, <2>3 DEF Route
        <3>3. Simple(cut, m - k + 1)
            BY <2>1, <2>2 DEF Route, Simple
        <3>4. Linked(cut, m - k + 1, edges)
            <4>1. ASSUME NEW i \in 1..((m - k + 1) - 1) PROVE <<cut[i], cut[i + 1]>> \in edges
                <5>1. /\ i + k - 1 \in 1..(m - 1) /\ i \in 1..(m - k + 1) /\ i + 1 \in 1..(m - k + 1)
                      /\ (i + 1) + k - 1 = (i + k - 1) + 1
                    BY <2>2
                <5>2. <<t[i + k - 1], t[(i + k - 1) + 1]>> \in edges
                    BY <2>2, <5>1 DEF Linked
                <5>. QED
                    BY <5>1, <5>2
            <4>. QED
                BY <4>1 DEF Linked
        <3>. HIDE DEF cut
        <3>5. cut \in Reaching(read, start, target) /\ Len(cut) = m - k + 1
            BY <3>1, <3>2, <3>3, <3>4, RoutesFound DEF Route
        <3>. QED
            BY <1>1, <1>3, <1>7, <2>2, <3>5
    <2>4. Route(longer, m + 1, edges, start, target)
        <3>1. longer = [i \in 1..(m + 1) |-> longer[i]] /\ longer[1] = start /\ longer[m + 1] = target
            BY <2>1, <2>2 DEF Route
        <3>2. Simple(longer, m + 1)
            <4>1. ASSUME NEW i \in 1..(m + 1), NEW j \in 1..(m + 1), longer[i] = longer[j] PROVE i = j
                <5>1. CASE i = 1 /\ j # 1
                    <6>1. j - 1 \in 1..m /\ t[j - 1] = start
                        BY <2>2, <4>1, <5>1
                    <6>. QED
                        BY <2>3, <6>1
                <5>2. CASE j = 1 /\ i # 1
                    <6>1. i - 1 \in 1..m /\ t[i - 1] = start
                        BY <2>2, <4>1, <5>2
                    <6>. QED
                        BY <2>3, <6>1
                <5>3. CASE i # 1 /\ j # 1
                    <6>1. i - 1 \in 1..m /\ j - 1 \in 1..m /\ t[i - 1] = t[j - 1]
                        BY <2>2, <4>1, <5>3
                    <6>2. i - 1 = j - 1
                        BY <2>1, <6>1 DEF Route, Simple
                    <6>. QED
                        BY <2>2, <6>2
                <5>. QED
                    BY <5>1, <5>2, <5>3
            <4>. QED
                BY <4>1 DEF Simple
        <3>3. Linked(longer, m + 1, edges)
            <4>1. ASSUME NEW i \in 1..m PROVE <<longer[i], longer[i + 1]>> \in edges
                <5>1. CASE i = 1
                    <6>1. longer[i] = s[1] /\ longer[i + 1] = s[2]
                        BY <1>2, <2>1, <2>2, <5>1 DEF Route
                    <6>2. <<s[1], s[2]>> \in edges
                        <7>1. 1 \in 1..(n - 1) /\ 1 + 1 = 2
                            BY <1>3
                        <7>2. <<s[1], s[1 + 1]>> \in edges
                            BY <1>2, <7>1 DEF Route, Linked
                        <7>. QED
                            BY <7>1, <7>2
                    <6>. QED
                        BY <6>1, <6>2
                <5>2. CASE i # 1
                    <6>1. /\ i - 1 \in 1..(m - 1) /\ (i - 1) + 1 = i
                          /\ longer[i] = t[i - 1] /\ longer[i + 1] = t[i]
                        BY <2>2, <5>2
                    <6>2. <<t[i - 1], t[(i - 1) + 1]>> \in edges
                        BY <2>2, <6>1 DEF Linked
                    <6>. QED
                        BY <6>1, <6>2
                <5>. QED
                    BY <5>1, <5>2
            <4>2. (m + 1) - 1 = m
                BY <2>2
            <4>. QED
                BY <4>1, <4>2 DEF Linked
        <3>. HIDE DEF longer
        <3>. QED
            BY <2>2, <3>1, <3>2, <3>3 DEF Route
    <2>5. longer \in Reaching(read, start, target) /\ Len(longer) = m + 1
        BY <2>4, RoutesFound
    <2>6. \A u \in Reaching(read, start, target) : Len(longer) <= Len(u)
        <3>1. \A u \in Reaching(read, start, target) : Len(u) \in Nat
            BY ReachingRoutes, BoundIsNatural DEF Route
        <3>. QED
            BY <1>1, <1>3, <1>7, <2>2, <2>5, <3>1
    <2>7. longer = s
        <3>1. longer \in ShortestPaths(read, start, target)
            BY <2>5, <2>6 DEF ShortestPaths
        <3>. QED
            BY <3>1
    <2>8. m + 1 = n
        BY <2>5, <2>7
    <2>9. \A i \in 1..m : t[i] = s[i + 1]
        BY <2>2, <2>7
    <2>. QED
        BY <1>3, <2>1, <2>2, <2>8, <2>9 DEF Route, rest
<1>8. \A t \in Reaching(part, s[2], target) : Len(t) \in Nat
    BY ReachingRoutes, BoundIsNatural DEF Route
<1>9. \A t \in Reaching(part, s[2], target) : Len(rest) <= Len(t)
    BY <1>3, <1>6, <1>7, <1>8
<1>10. rest \in ShortestPaths(part, s[2], target)
    BY <1>6, <1>9 DEF ShortestPaths
<1>11. ASSUME NEW t \in ShortestPaths(part, s[2], target) PROVE t = rest
    BY <1>6, <1>7 DEF ShortestPaths
<1>. QED
    BY <1>4, <1>10, <1>11

(***************************************************************************)
(* Descent and what the subclass axioms mean.                              *)
(***************************************************************************)
(* Whoever belongs to a class belongs to every class it descends from.     *)
LEMMA DescentIsSound ==
    ASSUME NEW read, NEW class, NEW super, DescendsFrom(read, class, super),
           NEW S, Respects(S, read), class \in S
    PROVE  super \in S
<1>1. PICK s \in Reaching(read, class, super) : TRUE
    BY DEF DescendsFrom
<1>. DEFINE n == Len(s)
            D == {i \in 1..n : s[i] \notin S}
<1>2. Route(s, n, Subclasses(read), class, super) /\ n \in Nat
    BY ReachingRoutes, BoundIsNatural DEF Route
<1>3. CASE D = {}
    BY <1>2, <1>3, BoundIsNatural DEF Route
<1>4. CASE D # {}
    <2>1. PICK i \in D : \A j \in D : i <= j
        <3>1. D \in SUBSET Nat
            BY <1>2
        <3>. QED
            BY <1>4, <3>1, LeastNatural
    <2>2. i \in 1..n /\ s[i] \notin S /\ i # 1
        BY <1>2 DEF Route
    <2>3. i - 1 \in 1..(n - 1) /\ (i - 1) + 1 = i /\ i - 1 \in 1..n /\ ~(i <= i - 1)
        BY <1>2, <2>2
    <2>4. s[i - 1] \in S
        BY <2>1, <2>3
    <2>5. <<s[i - 1], s[i]>> \in Subclasses(read)
        BY <1>2, <2>3 DEF Route, Linked
    <2>6. PICK f \in Said(read, "subclass") : f.of = s[i - 1] /\ f.to = s[i]
        BY <2>5 DEF Subclasses
    <2>. QED
        BY <2>2, <2>4, <2>6 DEF Respects
<1>. QED
    BY <1>3, <1>4

(* What descends from a class is closed under the axioms: no descent is    *)
(* longer than there are terms.                                            *)
LEMMA DescentIsComplete ==
    ASSUME NEW read, Subclasses(read) \subseteq Terms \X Terms, NEW class \in Terms
    PROVE  LET above == {super \in Terms : DescendsFrom(read, class, super)}
           IN  class \in above /\ Respects(above, read)
<1>. DEFINE above == {super \in Terms : DescendsFrom(read, class, super)}
            edges == Subclasses(read)
<1>1. Bound \in Nat /\ IsFiniteSet(Terms)
    BY BoundIsNatural, SourceConstants
<1>2. ASSUME NEW n \in Nat \ {0}, NEW s \in [1..n -> Terms], Simple(s, n)
      PROVE  n <= Bound
    <2>1. s \in Injection(1..n, Terms)
        BY <1>2 DEF Injection, IsInjective, Simple
    <2>2. Cardinality(1..n) = n
        BY FS_Interval
    <2>. QED
        BY <1>1, <2>1, <2>2, FS_Injection DEF Bound
<1>3. class \in above
    <2>. DEFINE s == [i \in 1..1 |-> class]
    <2>1. s \in [1..1 -> Terms] /\ Simple(s, 1) /\ Linked(s, 1, edges)
        BY DEF Simple, Linked
    <2>. HIDE DEF s
    <2>2. 1 <= Bound
        <3>1. 1 \in Nat \ {0}
            OBVIOUS
        <3>. QED
            BY <1>2, <2>1, <3>1
    <2>3. Route(s, 1, edges, class, class)
        BY <1>1, <2>1, <2>2 DEF Route, s
    <2>. QED
        BY <2>3, RoutesFound DEF DescendsFrom
<1>4. ASSUME NEW f \in Said(read, "subclass"), f.of \in above PROVE f.to \in above
    <2>1. <<f.of, f.to>> \in edges /\ f.to \in Terms
        <3>1. <<f.of, f.to>> \in edges
            BY DEF Subclasses
        <3>. HIDE DEF edges
        <3>2. <<f.of, f.to>> \in Terms \X Terms
            BY <3>1 DEF edges
        <3>. QED
            BY <3>1, <3>2
    <2>2. PICK s \in Reaching(read, class, f.of) : TRUE
        BY <1>4 DEF DescendsFrom
    <2>. DEFINE n == Len(s)
    <2>3. Route(s, n, edges, class, f.of) /\ n \in Nat \ {0} /\ n \in 1..Bound
        BY <1>1, ReachingRoutes DEF Route
    <2>4. ASSUME NEW k \in 1..n, s[k] = f.to PROVE DescendsFrom(read, class, f.to)
        <3>. DEFINE cut == [i \in 1..k |-> s[i]]
        <3>1. Route(cut, k, edges, class, f.to)
            BY <1>1, <2>3, <2>4 DEF Route, Simple, Linked
        <3>. QED
            BY <3>1, RoutesFound DEF DescendsFrom
    <2>5. ASSUME \A k \in 1..n : s[k] # f.to PROVE DescendsFrom(read, class, f.to)
        <3>. DEFINE t == [i \in 1..(n + 1) |-> IF i = n + 1 THEN f.to ELSE s[i]]
        <3>1. ASSUME NEW i \in 1..n PROVE s[i] \in Terms
            <4>1. CASE i = 1
                BY <2>3, <4>1 DEF Route
            <4>2. CASE i # 1
                <5>1. i - 1 \in 1..(n - 1) /\ (i - 1) + 1 = i
                    BY <2>3, <4>2
                <5>2. <<s[i - 1], s[i]>> \in edges
                    BY <2>3, <5>1 DEF Route, Linked
                <5>. QED
                    BY <5>2
            <4>. QED
                BY <4>1, <4>2
        <3>2. t \in [1..(n + 1) -> Terms]
            BY <2>1, <2>3, <3>1
        <3>3. Simple(t, n + 1)
            BY <2>3, <2>5 DEF Route, Simple
        <3>4. Linked(t, n + 1, edges)
            <4>1. ASSUME NEW i \in 1..n PROVE <<t[i], t[i + 1]>> \in edges
                <5>1. CASE i = n
                    <6>1. t[i] = f.of /\ t[i + 1] = f.to
                        <7>1. i \in 1..(n + 1) /\ i # n + 1 /\ i + 1 \in 1..(n + 1) /\ i + 1 = n + 1
                            BY <2>3, <5>1
                        <7>2. t[i] = s[i] /\ t[i + 1] = f.to
                            BY <7>1
                        <7>. QED
                            BY <2>3, <5>1, <7>2 DEF Route
                    <6>. QED
                        BY <2>1, <6>1
                <5>2. CASE i # n
                    BY <2>3, <5>2 DEF Route, Linked
                <5>. QED
                    BY <5>1, <5>2
            <4>2. (n + 1) - 1 = n
                BY <2>3
            <4>. QED
                BY <4>1, <4>2 DEF Linked
        <3>5. t[1] = class /\ t[n + 1] = f.to /\ t = [i \in 1..(n + 1) |-> t[i]]
            BY <2>3 DEF Route
        <3>. HIDE DEF t
        <3>6. n + 1 <= Bound
            BY <1>2, <2>3, <3>2, <3>3
        <3>7. Route(t, n + 1, edges, class, f.to)
            BY <1>1, <2>3, <3>3, <3>4, <3>5, <3>6 DEF Route
        <3>. QED
            BY <3>7, RoutesFound DEF DescendsFrom
    <2>. QED
        BY <2>1, <2>4, <2>5
<1>. QED
    BY <1>3, <1>4 DEF Respects
=============================================================================
