-------------------------- MODULE StubifyTreeProofs --------------------------
(***************************************************************************)
(* What a run of Stubify leaves of a tree: the names of the libraries, the *)
(* stubs that take their place and the links between them, for any tidy    *)
(* tree, any options, any faults and any number of runs.                   *)
(***************************************************************************)
EXTENDS StubifyProofs

-----------------------------------------------------------------------------
(* Paths *)

\* The .tbd twin of a path, and the file that a path stands for.
LEMMA TbdFacts ==
  ASSUME NEW p \in Paths
  PROVE  /\ Real(Tbd(p)) = Tbd(Real(p)) /\ Real(Real(p)) = Real(p)
         /\ IsTbd(Real(p)) <=> IsTbd(p)
         /\ IsTbd(Tbd(p)) /\ Stem(Tbd(p)) = Stem(p) /\ Tbd(p) = StubOf(Stem(p))
         /\ IsTbd(p) => Tbd(p) = p
         /\ Private(Tbd(p)) <=> Private(p)
         /\ Tbd(p)[1] = p[1]
<1>1. /\ p = <<p[1], p[2], p[3]>> /\ p[1] \in Dirs
      /\ Alias \in [Dirs -> Dirs] /\ \A d \in Dirs : Alias[Alias[d]] = Alias[d]
  BY TreeAssumption
<1>2. Real(p) = <<Alias[p[1]], p[2], p[3]>>
  BY <1>1 DEF Real
<1>3. Tbd(p) = <<p[1], p[2], "tbd">>
  BY DEF Tbd, StubOf, Stem
<1>4. Real(Tbd(p)) = <<Alias[p[1]], p[2], "tbd">>
  BY <1>3 DEF Real
<1>5. Tbd(Real(p)) = <<Alias[p[1]], p[2], "tbd">>
  BY <1>2 DEF Tbd, StubOf, Stem
<1>6. Real(Real(p)) = <<Alias[Alias[p[1]]], p[2], p[3]>>
  BY <1>2 DEF Real
<1>7. Alias[Alias[p[1]]] = Alias[p[1]]
  BY <1>1
<1>8. Stem(Tbd(p)) = Stem(p)
  BY <1>3 DEF Stem
<1>9. IsTbd(p) => Tbd(p) = p
  BY <1>1, <1>3 DEF IsTbd
<1>10. (IsTbd(Real(p)) <=> IsTbd(p)) /\ IsTbd(Tbd(p)) /\ Tbd(p)[1] = p[1]
  BY <1>2, <1>3 DEF IsTbd
<1>11. Private(Tbd(p)) <=> Private(p)
  BY <1>3 DEF Private
<1> QED BY <1>2, <1>4, <1>5, <1>6, <1>7, <1>8, <1>9, <1>10, <1>11 DEF Tbd

\* Twins are told apart by their stems.
LEMMA SameTwin ==
  ASSUME NEW p \in Paths, NEW q \in Paths
  PROVE  Tbd(p) = Tbd(q) <=> Stem(p) = Stem(q)
BY TbdFacts

\* A stem, and the stub that goes with it.
LEMMA StemFacts ==
  ASSUME NEW s \in Stems
  PROVE  StubOf(s) \in Paths /\ Stem(StubOf(s)) = s /\ IsTbd(StubOf(s))
<1>1. PICK p \in Paths : s = Stem(p)
  BY DEF Stems
<1> QED BY <1>1, TbdFacts, PathFacts

-----------------------------------------------------------------------------
(* Following links in two trees *)

\* The chain that Target and Hops are about.
LEMMA TheChain ==
  ASSUME NEW d \in [Paths -> Nodes], NEW p \in Paths
  PROVE  \E f : /\ f[0] = p /\ \A k \in 0 .. MaxLinks : f[k] \in Paths
                /\ \A k \in 1 .. MaxLinks : f[k] = Hop(d, f[k - 1])
                /\ Target(d, p) = Real(f[MaxLinks])
                /\ Hops(d, p) = {Real(f[k]) : k \in 0 .. MaxLinks}
<1> DEFINE hop == CHOOSE f : f = [k \in 0 .. MaxLinks |-> IF k = 0 THEN p ELSE Hop(d, f[k - 1])]
<1>1. MaxLinks \in Nat
  BY TreeAssumption
<1>2. Chain(d, p, MaxLinks, hop)
  <2>1. \E f : f = [k \in 0 .. MaxLinks |-> IF k = 0 THEN p ELSE Hop(d, f[k - 1])]
    <3>1. PICK f : Chain(d, p, MaxLinks, f)
      BY <1>1, ChainExists
    <3>2. f = [k \in 0 .. MaxLinks |-> IF k = 0 THEN p ELSE Hop(d, f[k - 1])]
      BY <3>1 DEF Chain
    <3> QED BY <3>2
  <2> QED BY <2>1 DEF Chain
<1>3. Target(d, p) = Real(hop[MaxLinks])
  BY DEF Target
<1>4. Hops(d, p) = {Real(hop[k]) : k \in 0 .. MaxLinks}
  BY DEF Hops
<1> HIDE DEF hop
<1>5. \A k \in 0 .. MaxLinks : hop[k] \in Paths
  BY <1>1, <1>2, ChainStays
<1>6. hop[0] = p /\ \A k \in 1 .. MaxLinks : hop[k] = Hop(d, hop[k - 1])
  BY <1>1, <1>2 DEF Chain
<1> QED BY <1>3, <1>4, <1>5, <1>6

\* The file that is meant stays the same after a hop, or is where the link points.
LEMMA RealHop ==
  ASSUME NEW d \in [Paths -> Nodes], NEW p \in Paths
  PROVE  /\ d[Real(p)].is = "link" => Hop(d, p) = d[Real(p)].to /\ d[Real(p)].to \in Paths
         /\ d[Real(p)].is # "link" => Real(Hop(d, p)) = Real(p)
<1>1. Real(p) \in Paths /\ d[Real(p)] \in Nodes
  BY PathFacts
<1> QED BY <1>1, NodeFacts, TbdFacts DEF Hop

\* The files on the way, the last one included, are files of the tree.
LEMMA HopsFacts ==
  ASSUME NEW d \in [Paths -> Nodes], NEW p \in Paths
  PROVE  /\ Hops(d, p) \subseteq Paths /\ Real(p) \in Hops(d, p)
         /\ Target(d, p) \in Hops(d, p)
         /\ \A x \in Hops(d, p) : Real(x) = x
<1>1. MaxLinks \in Nat
  BY TreeAssumption
<1>2. PICK f : /\ f[0] = p /\ \A k \in 0 .. MaxLinks : f[k] \in Paths
               /\ Target(d, p) = Real(f[MaxLinks])
               /\ Hops(d, p) = {Real(f[k]) : k \in 0 .. MaxLinks}
  BY TheChain
<1>3. \A k \in 0 .. MaxLinks : Real(f[k]) \in Paths /\ Real(Real(f[k])) = Real(f[k])
  BY <1>2, PathFacts, TbdFacts
<1>4. 0 \in 0 .. MaxLinks /\ MaxLinks \in 0 .. MaxLinks
  BY <1>1
<1> QED BY <1>2, <1>3, <1>4

\* From a file that is not a link, the way goes nowhere else.
LEMMA ChainEnds ==
  ASSUME NEW d \in [Paths -> Nodes], NEW f,
         \A k \in 0 .. MaxLinks : f[k] \in Paths,
         \A k \in 1 .. MaxLinks : f[k] = Hop(d, f[k - 1]),
         NEW i \in 0 .. MaxLinks, d[Real(f[i])].is # "link"
  PROVE  \A k \in i .. MaxLinks : Real(f[k]) = Real(f[i])
<1>1. MaxLinks \in Nat
  BY TreeAssumption
<1> DEFINE Bad == {k \in i .. MaxLinks : Real(f[k]) # Real(f[i])}
<1>2. ASSUME Bad # {} PROVE FALSE
  <2>1. PICK k \in Bad : \A m \in Bad : k <= m
    <3> HIDE DEF Bad
    <3>1. Bad \in SUBSET Nat
      BY <1>1 DEF Bad
    <3> QED BY <1>2, <3>1, Least
  <2>2. k # i /\ k \in 1 .. MaxLinks /\ k - 1 \in i .. MaxLinks /\ k - 1 \notin Bad
    BY <1>1, <2>1
  <2>3. Real(f[k - 1]) = Real(f[i]) /\ k - 1 \in 0 .. MaxLinks
    BY <1>1, <2>2
  <2>4. f[k] = Hop(d, f[k - 1]) /\ f[k - 1] \in Paths
    BY <2>2, <2>3
  <2>5. Real(f[k]) = Real(f[k - 1])
    BY <2>3, <2>4, RealHop
  <2> QED BY <2>1, <2>3, <2>5
<1> QED BY <1>2

\* A file on the way that is not a link is where the way ends.
LEMMA LastHop ==
  ASSUME NEW d \in [Paths -> Nodes], NEW p \in Paths, NEW x \in Hops(d, p), d[x].is # "link"
  PROVE  Target(d, p) = x
<1>1. MaxLinks \in Nat
  BY TreeAssumption
<1>2. PICK f : /\ f[0] = p /\ \A k \in 0 .. MaxLinks : f[k] \in Paths
               /\ \A k \in 1 .. MaxLinks : f[k] = Hop(d, f[k - 1])
               /\ Target(d, p) = Real(f[MaxLinks])
               /\ Hops(d, p) = {Real(f[k]) : k \in 0 .. MaxLinks}
  BY TheChain
<1>3. PICK i \in 0 .. MaxLinks : x = Real(f[i])
  BY <1>2
<1>4. MaxLinks \in i .. MaxLinks
  BY <1>1
<1>5. \A k \in i .. MaxLinks : Real(f[k]) = Real(f[i])
  BY <1>2, <1>3, ChainEnds
<1> QED BY <1>2, <1>3, <1>4, <1>5

\* A file that is not a link leads to itself.
LEMMA NotALink ==
  ASSUME NEW d \in [Paths -> Nodes], NEW p \in Paths, Real(p) = p, d[p].is # "link"
  PROVE  Target(d, p) = p /\ Contents(d, p) = d[p] /\ Hops(d, p) = {p}
<1>1. MaxLinks \in Nat
  BY TreeAssumption
<1>2. PICK f : /\ f[0] = p /\ \A k \in 0 .. MaxLinks : f[k] \in Paths
               /\ \A k \in 1 .. MaxLinks : f[k] = Hop(d, f[k - 1])
               /\ Target(d, p) = Real(f[MaxLinks])
               /\ Hops(d, p) = {Real(f[k]) : k \in 0 .. MaxLinks}
  BY TheChain
<1>3. 0 \in 0 .. MaxLinks /\ MaxLinks \in 0 .. MaxLinks
  BY <1>1
<1>4. \A k \in 0 .. MaxLinks : Real(f[k]) = p
  <2>1. d[Real(f[0])].is # "link"
    BY <1>2
  <2>2. \A k \in 0 .. MaxLinks : Real(f[k]) = Real(f[0])
    BY <1>2, <1>3, <2>1, ChainEnds
  <2> QED BY <1>2, <2>2
<1>5. Target(d, p) = p /\ Hops(d, p) = {p}
  BY <1>2, <1>3, <1>4
<1> QED BY <1>5 DEF Contents, Loops

\* Two trees that agree on the links of the way agree on the way.
LEMMA SameLinks ==
  ASSUME NEW d \in [Paths -> Nodes], NEW e \in [Paths -> Nodes], NEW p \in Paths,
         \A x \in Hops(d, p) : d[x].is = "link" \/ e[x].is = "link" => e[x] = d[x]
  PROVE  Target(e, p) = Target(d, p) /\ Hops(e, p) = Hops(d, p)
<1>1. MaxLinks \in Nat
  BY TreeAssumption
<1>2. PICK f : /\ f[0] = p /\ \A k \in 0 .. MaxLinks : f[k] \in Paths
               /\ \A k \in 1 .. MaxLinks : f[k] = Hop(d, f[k - 1])
               /\ Target(d, p) = Real(f[MaxLinks])
               /\ Hops(d, p) = {Real(f[k]) : k \in 0 .. MaxLinks}
  BY TheChain
<1>3. PICK g : /\ g[0] = p /\ \A k \in 0 .. MaxLinks : g[k] \in Paths
               /\ \A k \in 1 .. MaxLinks : g[k] = Hop(e, g[k - 1])
               /\ Target(e, p) = Real(g[MaxLinks])
               /\ Hops(e, p) = {Real(g[k]) : k \in 0 .. MaxLinks}
  BY TheChain
<1> DEFINE Bad == {k \in 0 .. MaxLinks : g[k] # f[k]}
<1>4. ASSUME Bad # {} PROVE FALSE
  <2>1. PICK k \in Bad : \A m \in Bad : k <= m
    <3> HIDE DEF Bad
    <3>1. Bad \in SUBSET Nat
      BY <1>1 DEF Bad
    <3> QED BY <1>4, <3>1, Least
  <2>2. k \in 1 .. MaxLinks /\ k - 1 \in 0 .. MaxLinks /\ k - 1 \notin Bad
    BY <1>1, <1>2, <1>3, <2>1
  <2>3. g[k - 1] = f[k - 1] /\ Real(f[k - 1]) \in Hops(d, p)
    BY <1>2, <2>2
  <2>4. \/ e[Real(f[k - 1])] = d[Real(f[k - 1])]
        \/ d[Real(f[k - 1])].is # "link" /\ e[Real(f[k - 1])].is # "link"
    BY <2>3
  <2>5. Hop(e, g[k - 1]) = Hop(d, f[k - 1])
    BY <2>3, <2>4 DEF Hop
  <2> QED BY <1>2, <1>3, <2>1, <2>2, <2>5
<1>5. \A k \in 0 .. MaxLinks : g[k] = f[k]
  BY <1>4
<1> QED BY <1>1, <1>2, <1>3, <1>5

\* Two trees that agree on the files of the way agree on where it leads.
LEMMA SameWay ==
  ASSUME NEW d \in [Paths -> Nodes], NEW e \in [Paths -> Nodes], NEW p \in Paths,
         \A x \in Hops(d, p) : e[x] = d[x]
  PROVE  Target(e, p) = Target(d, p) /\ Hops(e, p) = Hops(d, p) /\ Contents(e, p) = Contents(d, p)
<1>1. Target(e, p) = Target(d, p) /\ Hops(e, p) = Hops(d, p)
  BY SameLinks
<1>2. Target(d, p) \in Hops(d, p)
  BY HopsFacts
<1> QED BY <1>1, <1>2 DEF Contents, Loops

\* Where a file on the way is missing, the path leads to nothing.
LEMMA WayLost ==
  ASSUME NEW d \in [Paths -> Nodes], NEW e \in [Paths -> Nodes], NEW p \in Paths,
         \A x \in Hops(d, p) : e[x] \in {d[x], Absent},
         NEW y \in Hops(d, p), e[y] # d[y]
  PROVE  Contents(e, p) = Absent /\ Target(e, p) \in Hops(d, p) /\ e[Target(e, p)] = Absent
<1>1. MaxLinks \in Nat
  BY TreeAssumption
<1>2. PICK f : /\ f[0] = p /\ \A k \in 0 .. MaxLinks : f[k] \in Paths
               /\ \A k \in 1 .. MaxLinks : f[k] = Hop(d, f[k - 1])
               /\ Target(d, p) = Real(f[MaxLinks])
               /\ Hops(d, p) = {Real(f[k]) : k \in 0 .. MaxLinks}
  BY TheChain
<1>3. PICK g : /\ g[0] = p /\ \A k \in 0 .. MaxLinks : g[k] \in Paths
               /\ \A k \in 1 .. MaxLinks : g[k] = Hop(e, g[k - 1])
               /\ Target(e, p) = Real(g[MaxLinks])
               /\ Hops(e, p) = {Real(g[k]) : k \in 0 .. MaxLinks}
  BY TheChain
<1> DEFINE Lost == {k \in 0 .. MaxLinks : e[Real(f[k])] # d[Real(f[k])]}
<1>4. PICK i \in Lost : \A m \in Lost : i <= m
  <2>1. Lost # {}
    BY <1>2
  <2> HIDE DEF Lost
  <2>2. Lost \in SUBSET Nat
    BY <1>1 DEF Lost
  <2> QED BY <2>1, <2>2, Least
<1> DEFINE Bad == {k \in 0 .. i : g[k] # f[k]}
<1>5. ASSUME Bad # {} PROVE FALSE
  <2>1. PICK k \in Bad : \A m \in Bad : k <= m
    <3>0. i \in Nat
      BY <1>1, <1>4
    <3> HIDE DEF Bad
    <3>1. Bad \in SUBSET Nat
      BY <3>0 DEF Bad
    <3> QED BY <1>5, <3>1, Least
  <2>2. k \in 1 .. MaxLinks /\ k - 1 \in 0 .. i /\ k - 1 \in 0 .. MaxLinks
        /\ k - 1 \notin Bad /\ ~(i <= k - 1)
    BY <1>1, <1>2, <1>3, <1>4, <2>1
  <2>3. g[k - 1] = f[k - 1] /\ k - 1 \notin Lost
    BY <1>4, <2>2
  <2>4. e[Real(f[k - 1])] = d[Real(f[k - 1])]
    BY <2>2, <2>3
  <2>5. Hop(e, g[k - 1]) = Hop(d, f[k - 1])
    BY <2>3, <2>4 DEF Hop
  <2> QED BY <1>2, <1>3, <2>1, <2>2, <2>5
<1>6. g[i] = f[i] /\ i \in 0 .. MaxLinks
  BY <1>1, <1>4, <1>5
<1>7. e[Real(g[i])] = Absent /\ Real(g[i]) \in Hops(d, p)
  BY <1>2, <1>4, <1>6
<1>8. e[Real(g[i])].is # "link"
  BY <1>7 DEF Absent
<1>9. \A k \in i .. MaxLinks : Real(g[k]) = Real(g[i])
  BY <1>3, <1>6, <1>8, ChainEnds
<1>10. Target(e, p) = Real(g[i])
  BY <1>1, <1>3, <1>6, <1>9
<1> QED BY <1>7, <1>10 DEF Contents

\* The twins of the files on the way make the way of the twin.
LEMMA TwinWay ==
  ASSUME NEW d \in [Paths -> Nodes], NEW e \in [Paths -> Nodes], NEW p \in Paths,
         \A x \in Hops(d, p) : IF d[x].is = "link" THEN e[Tbd(x)] = Link(Tbd(d[x].to))
                               ELSE e[Tbd(x)].is # "link"
  PROVE  Target(e, Tbd(p)) = Tbd(Target(d, p))
<1>1. MaxLinks \in Nat /\ Tbd(p) \in Paths
  BY TreeAssumption, PathFacts
<1>2. PICK f : /\ f[0] = p /\ \A k \in 0 .. MaxLinks : f[k] \in Paths
               /\ \A k \in 1 .. MaxLinks : f[k] = Hop(d, f[k - 1])
               /\ Target(d, p) = Real(f[MaxLinks])
               /\ Hops(d, p) = {Real(f[k]) : k \in 0 .. MaxLinks}
  BY TheChain
<1>3. PICK g : /\ g[0] = Tbd(p) /\ \A k \in 0 .. MaxLinks : g[k] \in Paths
               /\ \A k \in 1 .. MaxLinks : g[k] = Hop(e, g[k - 1])
               /\ Target(e, Tbd(p)) = Real(g[MaxLinks])
  BY <1>1, TheChain
<1> DEFINE Bad == {k \in 0 .. MaxLinks : Real(g[k]) # Tbd(Real(f[k]))}
<1>4. ASSUME Bad # {} PROVE FALSE
  <2>1. PICK k \in Bad : \A m \in Bad : k <= m
    <3> HIDE DEF Bad
    <3>1. Bad \in SUBSET Nat
      BY <1>1 DEF Bad
    <3> QED BY <1>4, <3>1, Least
  <2>2. k # 0
    BY <1>2, <1>3, <2>1, TbdFacts
  <2>3. k \in 1 .. MaxLinks /\ k - 1 \in 0 .. MaxLinks /\ k - 1 \notin Bad
    BY <1>1, <2>1, <2>2
  <2>4. PICK x, y : x = f[k - 1] /\ y = g[k - 1]
    OBVIOUS
  <2>5. /\ x \in Paths /\ y \in Paths /\ Real(x) \in Hops(d, p) /\ Real(x) \in Paths
        /\ Real(y) = Tbd(Real(x)) /\ f[k] = Hop(d, x) /\ g[k] = Hop(e, y)
    BY <1>2, <1>3, <2>3, <2>4, PathFacts
  <2>6. CASE d[Real(x)].is = "link"
    <3>1. f[k] = d[Real(x)].to /\ d[Real(x)].to \in Paths
      BY <2>5, <2>6, RealHop
    <3>2. e[Real(y)] = Link(Tbd(d[Real(x)].to))
      BY <2>5, <2>6
    <3>3. e[Real(y)].is = "link" /\ e[Real(y)].to = Tbd(f[k])
      BY <3>1, <3>2 DEF Link
    <3>4. g[k] = Tbd(f[k])
      BY <2>5, <3>3, RealHop
    <3>5. Real(g[k]) = Tbd(Real(f[k]))
      BY <3>1, <3>4, TbdFacts
    <3> QED BY <2>1, <3>5
  <2>7. CASE d[Real(x)].is # "link"
    <3>1. e[Real(y)].is # "link"
      BY <2>5, <2>7
    <3>2. Real(f[k]) = Real(x)
      BY <2>5, <2>7, RealHop
    <3>3. Real(g[k]) = Real(y)
      BY <2>5, <3>1, RealHop
    <3> QED BY <2>1, <2>5, <3>2, <3>3
  <2> QED BY <2>6, <2>7
<1>5. \A k \in 0 .. MaxLinks : Real(g[k]) = Tbd(Real(f[k]))
  BY <1>4
<1> QED BY <1>1, <1>2, <1>3, <1>5

\* Links that keep to the stubs, or to the libraries, never leave them.
LinksKeepTo(d) == \A p \in Paths : d[p].is = "link" => (IsTbd(d[p].to) <=> IsTbd(p))

LEMMA SameKind ==
  ASSUME NEW d \in [Paths -> Nodes], LinksKeepTo(d), NEW p \in Paths, NEW x \in Hops(d, p)
  PROVE  IsTbd(x) <=> IsTbd(p)
<1>1. MaxLinks \in Nat
  BY TreeAssumption
<1>2. PICK f : /\ f[0] = p /\ \A k \in 0 .. MaxLinks : f[k] \in Paths
               /\ \A k \in 1 .. MaxLinks : f[k] = Hop(d, f[k - 1])
               /\ Target(d, p) = Real(f[MaxLinks])
               /\ Hops(d, p) = {Real(f[k]) : k \in 0 .. MaxLinks}
  BY TheChain
<1> DEFINE Bad == {k \in 0 .. MaxLinks : ~(IsTbd(f[k]) <=> IsTbd(p))}
<1>3. ASSUME Bad # {} PROVE FALSE
  <2>1. PICK k \in Bad : \A m \in Bad : k <= m
    <3> HIDE DEF Bad
    <3>1. Bad \in SUBSET Nat
      BY <1>1 DEF Bad
    <3> QED BY <1>3, <3>1, Least
  <2>2. k \in 1 .. MaxLinks /\ k - 1 \in 0 .. MaxLinks /\ k - 1 \notin Bad
    BY <1>1, <1>2, <2>1
  <2>3. /\ f[k - 1] \in Paths /\ f[k] = Hop(d, f[k - 1]) /\ f[k] \in Paths
        /\ (IsTbd(f[k - 1]) <=> IsTbd(p))
    BY <1>1, <1>2, <2>1, <2>2
  <2>4. Real(f[k - 1]) \in Paths /\ (IsTbd(Real(f[k - 1])) <=> IsTbd(p))
    BY <2>3, PathFacts, TbdFacts
  <2>5. CASE d[Real(f[k - 1])].is = "link"
    BY <2>1, <2>3, <2>4, <2>5, RealHop DEF LinksKeepTo
  <2>6. CASE d[Real(f[k - 1])].is # "link"
    BY <2>1, <2>3, <2>4, <2>6, RealHop, TbdFacts
  <2> QED BY <2>5, <2>6
<1>4. PICK k \in 0 .. MaxLinks : x = Real(f[k])
  BY <1>2
<1>5. IsTbd(f[k]) <=> IsTbd(p)
  BY <1>3
<1> QED BY <1>2, <1>4, <1>5, TbdFacts

\* Two ways that pass the same file go on alike.
LEMMA SameTail ==
  ASSUME NEW d \in [Paths -> Nodes], NEW f, NEW g,
         \A k \in 0 .. MaxLinks : f[k] \in Paths /\ g[k] \in Paths,
         \A k \in 1 .. MaxLinks : f[k] = Hop(d, f[k - 1]),
         \A k \in 1 .. MaxLinks : g[k] = Hop(d, g[k - 1]),
         NEW i \in 0 .. MaxLinks, NEW n \in 0 .. MaxLinks, i + n = MaxLinks, Real(g[0]) = Real(f[i])
  PROVE  \A k \in 0 .. n : Real(g[k]) = Real(f[i + k])
<1>1. MaxLinks \in Nat
  BY TreeAssumption
<1> DEFINE Bad == {k \in 0 .. n : Real(g[k]) # Real(f[i + k])}
<1>2. ASSUME Bad # {} PROVE FALSE
  <2>1. PICK k \in Bad : \A m \in Bad : k <= m
    <3> HIDE DEF Bad
    <3>1. Bad \in SUBSET Nat
      BY <1>1 DEF Bad
    <3> QED BY <1>2, <3>1, Least
  <2>2. Real(g[0]) = Real(f[i + 0])
    BY <1>1
  <2>3. /\ k \in 1 .. MaxLinks /\ k - 1 \in 0 .. MaxLinks /\ k - 1 \in 0 .. n /\ k - 1 \notin Bad
        /\ i + k \in 1 .. MaxLinks /\ (i + k) - 1 \in 0 .. MaxLinks
        /\ i + (k - 1) = (i + k) - 1
    BY <1>1, <2>1, <2>2
  <2>4. PICK a, b : a = g[k - 1] /\ b = f[(i + k) - 1]
    OBVIOUS
  <2>5. /\ a \in Paths /\ b \in Paths /\ Real(a) = Real(b)
        /\ g[k] = Hop(d, a) /\ f[i + k] = Hop(d, b)
    BY <2>3, <2>4
  <2>6. Real(g[k]) = Real(f[i + k])
    <3>1. CASE d[Real(a)].is = "link"
      BY <2>5, <3>1, RealHop
    <3>2. CASE d[Real(a)].is # "link"
      BY <2>5, <3>2, RealHop
    <3> QED BY <3>1, <3>2
  <2> QED BY <2>1, <2>6
<1> QED BY <1>2

\* A file on the way leads where the whole way leads, over files of the way.
LEMMA WayFrom ==
  ASSUME NEW d \in [Paths -> Nodes], NEW p \in Paths, ~Loops(d, p), NEW x \in Hops(d, p)
  PROVE  Target(d, x) = Target(d, p) /\ Hops(d, x) \subseteq Hops(d, p)
<1>1. MaxLinks \in Nat /\ x \in Paths /\ Real(x) = x
  BY TreeAssumption, HopsFacts
<1>2. PICK f : /\ f[0] = p /\ \A k \in 0 .. MaxLinks : f[k] \in Paths
               /\ \A k \in 1 .. MaxLinks : f[k] = Hop(d, f[k - 1])
               /\ Target(d, p) = Real(f[MaxLinks])
               /\ Hops(d, p) = {Real(f[k]) : k \in 0 .. MaxLinks}
  BY TheChain
<1>3. PICK g : /\ g[0] = x /\ \A k \in 0 .. MaxLinks : g[k] \in Paths
               /\ \A k \in 1 .. MaxLinks : g[k] = Hop(d, g[k - 1])
               /\ Target(d, x) = Real(g[MaxLinks])
               /\ Hops(d, x) = {Real(g[k]) : k \in 0 .. MaxLinks}
  BY <1>1, TheChain
<1>4. PICK i \in 0 .. MaxLinks : x = Real(f[i])
  BY <1>2
<1>5. PICK n \in 0 .. MaxLinks : i + n = MaxLinks
  <2>1. MaxLinks - i \in 0 .. MaxLinks /\ i + (MaxLinks - i) = MaxLinks
    BY <1>1
  <2> QED BY <2>1
<1>6. Real(g[0]) = Real(f[i])
  BY <1>1, <1>3, <1>4
<1>7. \A k \in 0 .. n : Real(g[k]) = Real(f[i + k])
  BY <1>2, <1>3, <1>5, <1>6, SameTail
<1>8. Real(g[n]) = Target(d, p) /\ n \in 0 .. MaxLinks
  BY <1>2, <1>5, <1>7
<1>9. d[Real(g[n])].is # "link"
  BY <1>8 DEF Loops
<1>10. \A k \in n .. MaxLinks : Real(g[k]) = Real(g[n])
  BY <1>3, <1>8, <1>9, ChainEnds
<1>11. Target(d, x) = Target(d, p)
  BY <1>1, <1>3, <1>8, <1>10
<1>12. ASSUME NEW k \in 0 .. MaxLinks PROVE Real(g[k]) \in Hops(d, p)
  <2>1. CASE k \in 0 .. n
    <3>1. i + k \in 0 .. MaxLinks
      BY <1>1, <1>5, <2>1
    <3> QED BY <1>2, <1>7, <2>1, <3>1
  <2>2. CASE k \in n .. MaxLinks
    <3>1. Real(g[k]) = Target(d, p)
      BY <1>8, <1>10, <2>2
    <3> QED BY <3>1, HopsFacts
  <2> QED BY <1>1, <1>5, <2>1, <2>2
<1> QED BY <1>3, <1>11, <1>12

-----------------------------------------------------------------------------
(* The tree of a tidy input: what may have become of each file *)

FirstLinks == {q \in Paths : first[q].is = "link" /\ ~IsTbd(q)}
Libraries == {p \in Paths : first[p].is = "dylib"}
SparedLibs == {p \in Libraries : opts.deletePrivate => ~Private(p)}

FirstOK ==
  /\ first \in [Paths -> Nodes] /\ TidyTree(first)
  /\ \A p \in Paths : first[p] # Absent => Real(p) = p

\* The inputs are only ever deleted; no stub takes the place of a link, no link the
\* place of the stub of a library, and no stub is of another library.
OriginalsOK == \A p \in Paths : ~IsTbd(p) => disk[p] \in {first[p], Absent}
StubFilesOK ==
  /\ \A p \in Paths : IsTbd(p) => /\ disk[p].is # "dylib"
                                  /\ disk[p].is = "link" => IsTbd(disk[p].to)
                                  /\ disk[p] # Absent => Real(p) = p
  /\ \A p \in Libraries : /\ disk[Tbd(p)].is # "link"
                          /\ disk[Tbd(p)].is \in Textual => disk[Tbd(p)].lib = first[p].lib
  /\ \A q \in FirstLinks : disk[Tbd(q)].is \notin Textual
TreeOK == FirstOK /\ OriginalsOK /\ StubFilesOK

\* What a tidy tree says of the inputs.
LEMMA FirstFacts ==
  ASSUME FirstOK
  PROVE  /\ LinksKeepTo(first)
         /\ \A p \in Libraries : /\ ~IsTbd(p) /\ Real(p) = p
                                 /\ first[p] = Dylib(first[p].lib) /\ first[p].lib \in Libs
         /\ \A q \in FirstLinks : /\ Real(q) = q /\ first[q].to \in Paths
                                  /\ first[q] = Link(first[q].to)
         /\ \A p, q \in Libraries \cup FirstLinks : Stem(p) = Stem(q) => p = q
         /\ Libraries \cap FirstLinks = {}
         /\ \A p \in Paths : first[p].is \in Textual => IsTbd(p)
<1>1. /\ first \in [Paths -> Nodes] /\ TidyTree(first)
      /\ \A p \in Paths : first[p] # Absent => Real(p) = p
  BY DEF FirstOK
<1>2. LinksKeepTo(first)
  BY <1>1 DEF TidyTree, LinksKeepTo
<1>3. \A n \in Nodes : /\ n.is = "dylib" => n = Dylib(n.lib) /\ n.lib \in Libs /\ n # Absent
                       /\ n.is = "link" => n = Link(n.to) /\ n # Absent
  BY DEF Nodes, Absent, Damaged, Other, Dylib, Text, Part, Link
<1>4. \A p \in Libraries : /\ ~IsTbd(p) /\ Real(p) = p
                           /\ first[p] = Dylib(first[p].lib) /\ first[p].lib \in Libs
  BY <1>1, <1>3 DEF TidyTree, Libraries
<1>5. \A q \in FirstLinks : /\ Real(q) = q /\ first[q].to \in Paths
                            /\ first[q] = Link(first[q].to)
  BY <1>1, <1>3, NodeFacts DEF FirstLinks
<1>6. \A p, q \in Libraries \cup FirstLinks : Stem(p) = Stem(q) => p = q
  BY <1>1, <1>4 DEF TidyTree, Libraries, FirstLinks
<1>7. \A p \in Paths : first[p].is \in Textual => IsTbd(p)
  BY <1>1 DEF TidyTree, Textual
<1> QED BY <1>2, <1>4, <1>5, <1>6, <1>7 DEF Libraries, FirstLinks

\* What it says of the files later on.
LEMMA TreeFacts ==
  ASSUME disk \in [Paths -> Nodes], TreeOK
  PROVE  /\ LinksKeepTo(disk)
         /\ \A p \in Paths : disk[p] # Absent => Real(p) = p
         /\ \A p \in Paths : ~IsTbd(p) => /\ disk[p] \in {first[p], Absent}
                                          /\ disk[p].is \notin Textual
                                          /\ disk[p] # Absent => disk[p] = first[p]
<1>1. FirstOK /\ OriginalsOK /\ StubFilesOK
  BY DEF TreeOK
<1>2. \A p \in Paths : ~IsTbd(p) => disk[p] = first[p] \/ disk[p] = Absent
  BY <1>1 DEF OriginalsOK
<1>3. LinksKeepTo(first) /\ \A p \in Paths : first[p].is \in Textual => IsTbd(p)
  BY <1>1, FirstFacts
<1>4. Absent.is \notin Textual /\ Absent.is # "link"
  BY DEF Absent, Textual
<1>5. LinksKeepTo(disk)
  BY <1>1, <1>2, <1>3, <1>4 DEF LinksKeepTo, StubFilesOK
<1>6. \A p \in Paths : disk[p] # Absent => Real(p) = p
  BY <1>1, <1>2 DEF FirstOK, StubFilesOK
<1>7. \A p \in Paths : ~IsTbd(p) => disk[p].is \notin Textual
  BY <1>2, <1>3, <1>4
<1> QED BY <1>2, <1>5, <1>6, <1>7

\* The files that a name went through at first are all there.
Intact(p) == \A x \in Hops(first, p) : disk[x] = first[x]

\* An input that leads to something leads where it led at first.
LEMMA LeadsAsFirst ==
  ASSUME disk \in [Paths -> Nodes], TreeOK, NEW p \in Paths, ~IsTbd(p)
  PROVE  /\ Intact(p) => /\ Target(disk, p) = Target(first, p)
                         /\ Contents(disk, p) = Contents(first, p)
         /\ Contents(disk, p) # Absent => Intact(p)
<1>1. first \in [Paths -> Nodes] /\ LinksKeepTo(first)
  BY FirstFacts DEF TreeOK, FirstOK
<1>2. \A x \in Hops(first, p) : disk[x] \in {first[x], Absent}
  BY <1>1, SameKind, HopsFacts, TreeFacts
<1>3. Contents(disk, p) # Absent => Intact(p)
  BY <1>1, <1>2, WayLost DEF Intact
<1>4. ASSUME Intact(p)
      PROVE  Target(disk, p) = Target(first, p) /\ Contents(disk, p) = Contents(first, p)
  BY <1>1, <1>4, SameWay DEF Intact
<1> QED BY <1>3, <1>4

-----------------------------------------------------------------------------
(* The maps of a run *)

\* A stem that a stub belongs to, and the libraries at first with the stem.
Home(s) == /\ \A q \in FirstLinks : Stem(q) # s
           /\ disk[StubOf(s)].is # "link" /\ Real(StubOf(s)) = StubOf(s)
OfLibrary(s, l) == \A p \in Libraries : Stem(p) = s => first[p].lib = l

Recorded(y) ==
  IF IsTbd(y.src) THEN IsTbd(y.target)
  ELSE /\ y.src \in FirstLinks /\ y.to = first[y.src].to /\ y.target = Target(first, y.src)
       /\ opts.deletePrivate => ~Private(y.src)

RecordsOK ==
  /\ \A y \in symlinks : Recorded(y)
  /\ \A s \in Stems : dylibs[s] # Absent => Home(s) /\ OfLibrary(s, dylibs[s].lib)
  /\ opts.file = None => \A s \in Stems : originalNames[s] # None =>
                           originalNames[s] \in SparedLibs /\ Stem(originalNames[s]) = s
  /\ \A d \in toDelete : IF d[2] THEN ~IsTbd(d[1]) ELSE Private(d[1]) /\ opts.deletePrivate

Converting == {"inline", "write", "relink", "link"}

\* The library being converted, and the links that are relinked after it.
CurrentOK ==
  /\ pc \in {"inline", "write"} => Home(current) /\ OfLibrary(current, stack[1].lib)
  /\ opts.file = None /\ pc \in Converting =>
       current \in Stems /\ dylibs[current] # Absent /\ current \notin left
  /\ IF opts.file = None THEN pc \notin {"read", "deleteInput"}
     ELSE pc \notin {"scan", "next", "relink", "link", "delete"}
  /\ pc \notin {"relink", "link"} \cup Ended => links = {}
  /\ pc \in {"relink", "link"} => \A y \in links : y.target = originalNames[current]
  /\ pc = "link" => link.target = originalNames[current]

\* Until the deletions begin, the links that the scan recorded are as they were.
PresentOK ==
  opts.file = None /\ pc \in {"scan", "next"} \cup Converting =>
    \A y \in symlinks : ~IsTbd(y.src) => Intact(y.src)

Layout == TreeOK /\ RecordsOK /\ CurrentOK /\ PresentOK

\* A change of one file that keeps the tree in order.
Orderly(p, n) ==
  /\ ~IsTbd(p) => n = Absent
  /\ n.is # "dylib"
  /\ n.is = "link" => IsTbd(n.to) /\ \E q \in FirstLinks : p = Tbd(q)
  /\ n # Absent => Real(p) = p
  /\ n.is \in Textual => /\ \A q \in FirstLinks : p # Tbd(q)
                         /\ \A q \in Libraries : p = Tbd(q) => n.lib = first[q].lib

LEMMA OrderlyChange ==
  ASSUME disk \in [Paths -> Nodes], TreeOK, NEW p \in Paths, NEW n \in Nodes, Orderly(p, n),
         disk' = [disk EXCEPT ![p] = n], UNCHANGED first
  PROVE  TreeOK' /\ \A s \in Stems : Home(s) => Home(s)'
<1>1. FirstOK /\ OriginalsOK /\ StubFilesOK
  BY DEF TreeOK
<1>2. \A q \in Paths : disk'[q] = IF q = p THEN n ELSE disk[q]
  OBVIOUS
<1>3. FirstOK' /\ Libraries' = Libraries /\ FirstLinks' = FirstLinks
  BY <1>1 DEF FirstOK, Libraries, FirstLinks
<1>4. OriginalsOK'
  BY <1>1, <1>2 DEF OriginalsOK, Orderly
<1>5. \A q \in Libraries, r \in FirstLinks : Tbd(q) # Tbd(r)
  BY <1>1, FirstFacts, SameTwin DEF Libraries, FirstLinks
<1>6. \A q \in Libraries \cup FirstLinks : q \in Paths /\ Tbd(q) \in Paths
  BY PathFacts DEF Libraries, FirstLinks
<1>7. \A q \in Paths : IsTbd(q) => /\ disk'[q].is # "dylib"
                                   /\ disk'[q].is = "link" => IsTbd(disk'[q].to)
                                   /\ disk'[q] # Absent => Real(q) = q
  BY <1>1, <1>2 DEF StubFilesOK, Orderly
<1>8. ASSUME NEW q \in Libraries
      PROVE  /\ disk'[Tbd(q)].is # "link"
             /\ disk'[Tbd(q)].is \in Textual => disk'[Tbd(q)].lib = first[q].lib
  <2>1. CASE Tbd(q) = p
    BY <1>2, <1>5, <1>6, <2>1 DEF Orderly
  <2>2. CASE Tbd(q) # p
    BY <1>1, <1>2, <1>6, <2>2 DEF StubFilesOK
  <2> QED BY <2>1, <2>2
<1>9. ASSUME NEW q \in FirstLinks PROVE disk'[Tbd(q)].is \notin Textual
  BY <1>1, <1>2, <1>6 DEF StubFilesOK, Orderly
<1>10. StubFilesOK'
  BY <1>3, <1>7, <1>8, <1>9 DEF StubFilesOK
<1>11. ASSUME NEW s \in Stems, Home(s) PROVE Home(s)'
  <2>1. StubOf(s) \in Paths /\ Stem(StubOf(s)) = s
    BY StemFacts
  <2>2. \A q \in FirstLinks : StubOf(s) # Tbd(q)
    BY <1>6, <1>11, <2>1, TbdFacts DEF Home
  <2>3. disk'[StubOf(s)].is # "link"
    BY <1>2, <1>11, <2>1, <2>2 DEF Home, Orderly
  <2> QED BY <1>3, <1>11, <2>3 DEF Home
<1> QED BY <1>3, <1>4, <1>10, <1>11 DEF TreeOK

\* The maps stay in order when they do not change and no stub loses its place.
LEMMA SameRecords ==
  ASSUME RecordsOK, UNCHANGED <<opts, first, symlinks, dylibs, originalNames, toDelete>>,
         \A s \in Stems : Home(s) => Home(s)'
  PROVE  RecordsOK'
<1>1. /\ Libraries' = Libraries /\ FirstLinks' = FirstLinks /\ SparedLibs' = SparedLibs
      /\ \A y : Recorded(y)' <=> Recorded(y)
      /\ \A s, l : OfLibrary(s, l)' <=> OfLibrary(s, l)
  BY DEF Libraries, FirstLinks, SparedLibs, Recorded, OfLibrary
<1> QED BY <1>1 DEF RecordsOK

\* Nothing has been recorded when a run begins or dies.
LEMMA FreshLayout ==
  ASSUME Inv, Layout, Fresh, UNCHANGED <<tree, input, first>>,
         pc' \in {"scan", "read", "crashed"},
         pc' = "scan" => opts.file = None, pc' = "read" => opts.file # None
  PROVE  Layout'
<1>1. UNCHANGED <<disk, opts, first>> /\ symlinks' = {} /\ toDelete' = {} /\ links' = {}
  BY DEF tree, input, Fresh
<1>2. TreeOK'
  BY <1>1 DEF Layout, TreeOK, FirstOK, OriginalsOK, StubFilesOK, Libraries, FirstLinks
<1>3. \A s \in Stems : dylibs'[s] = Absent /\ originalNames'[s] = None
  BY DEF Fresh
<1>4. RecordsOK'
  BY <1>1, <1>3 DEF RecordsOK
<1>5. CurrentOK'
  BY <1>1 DEF CurrentOK, Converting, Ended
<1>6. PresentOK'
  BY <1>1 DEF PresentOK
<1> QED BY <1>2, <1>4, <1>5, <1>6 DEF Layout

LEMMA LayoutBegin ==
  ASSUME Inv, Layout, Begin \/ Crash
  PROVE  Layout'
<1>1. Fresh /\ UNCHANGED <<tree, input, first>>
  BY DEF Begin, Crash, history
<1>2. /\ pc' \in {"scan", "read", "crashed"}
      /\ pc' = "scan" => opts.file = None
      /\ pc' = "read" => opts.file # None
  BY DEF Begin, Crash
<1> QED BY <1>1, <1>2, FreshLayout

\* Steps that leave the tree and the maps alone.
LEMMA SameTree ==
  ASSUME TreeOK, UNCHANGED <<disk, first>>
  PROVE  TreeOK' /\ \A s \in Stems : Home(s) => Home(s)'
BY DEF TreeOK, FirstOK, OriginalsOK, StubFilesOK, Libraries, FirstLinks, Home

LEMMA SamePresent ==
  ASSUME PresentOK, UNCHANGED <<disk, opts, first, symlinks>>,
         pc \in {"scan", "next"} \cup Converting
  PROVE  PresentOK'
BY DEF PresentOK, Intact

\* A link that the scan comes to.
LEMMA ScannedLink ==
  ASSUME Inv, TreeOK, NEW p \in Paths, disk[p].is = "link", Exists(disk, p),
         ~(opts.deletePrivate /\ Private(p)) \/ Loops(disk, p),
         NEW y, y = [target |-> Target(disk, p), src |-> p, to |-> disk[p].to]
  PROVE  Recorded(y) /\ (~IsTbd(p) => Intact(p))
<1>1. disk \in [Paths -> Nodes] /\ y.target = Target(disk, p) /\ y.src = p /\ y.to = disk[p].to
  BY DEF Inv, TypeOK
<1>2. Contents(disk, p) # Absent /\ ~Loops(disk, p) /\ disk[p] # Absent
  BY DEF Exists, Contents, Absent
<1>3. CASE IsTbd(p)
  <2>1. LinksKeepTo(disk) /\ Target(disk, p) \in Hops(disk, p)
    BY <1>1, TreeFacts, HopsFacts
  <2>2. IsTbd(Target(disk, p))
    BY <1>1, <1>3, <2>1, SameKind
  <2> QED BY <1>1, <1>3, <2>2 DEF Recorded
<1>4. CASE ~IsTbd(p)
  <2>1. disk[p] = first[p] /\ p \in FirstLinks
    BY <1>1, <1>2, <1>4, TreeFacts DEF FirstLinks
  <2>2. Intact(p)
    BY <1>1, <1>2, <1>4, LeadsAsFirst
  <2>3. Target(disk, p) = Target(first, p)
    BY <1>1, <1>4, <2>2, LeadsAsFirst
  <2> QED BY <1>1, <1>2, <1>4, <2>1, <2>2, <2>3 DEF Recorded
<1> QED BY <1>3, <1>4

\* A stub or a library that the scan comes to.
LEMMA ScannedFile ==
  ASSUME disk \in [Paths -> Nodes], TreeOK, NEW p \in Paths, disk[p].is \in Interface
  PROVE  /\ Home(Stem(p)) /\ OfLibrary(Stem(p), disk[p].lib)
         /\ disk[p].is = "dylib" => p \in Libraries /\ disk[p] = first[p] /\ ~IsTbd(p)
         /\ disk[p].is \in Textual => IsTbd(p) /\ p = StubOf(Stem(p))
<1>1. FirstOK /\ StubFilesOK
  BY DEF TreeOK
<1>2. Real(p) = p
  BY TreeFacts, NodeFacts
<1>3. Tbd(p) = StubOf(Stem(p)) /\ Tbd(p) \in Paths
  BY TbdFacts, PathFacts
<1>4. Real(StubOf(Stem(p))) = StubOf(Stem(p))
  BY <1>2, <1>3, TbdFacts
<1>5. CASE ~IsTbd(p)
  <2>1. disk[p] # Absent
    BY NodeFacts
  <2>2. disk[p] = first[p] /\ disk[p].is = "dylib" /\ p \in Libraries
    BY <1>5, <2>1, TreeFacts DEF Interface, Libraries
  <2>3. \A q \in FirstLinks : Stem(q) # Stem(p)
    BY <1>1, <2>2, FirstFacts
  <2>4. disk[StubOf(Stem(p))].is # "link"
    BY <1>1, <1>3, <2>2 DEF StubFilesOK
  <2>5. OfLibrary(Stem(p), disk[p].lib)
    BY <1>1, <2>2, FirstFacts DEF OfLibrary
  <2>6. disk[p].is \notin Textual
    BY <2>2 DEF Textual
  <2> QED BY <1>4, <1>5, <2>2, <2>3, <2>4, <2>5, <2>6 DEF Home
<1>6. CASE IsTbd(p)
  <2>1. p = StubOf(Stem(p)) /\ disk[p].is \in Textual
    BY <1>1, <1>3, <1>6, TbdFacts DEF StubFilesOK, Interface
  <2>2. \A q \in FirstLinks \cup Libraries : q \in Paths /\ (Stem(q) = Stem(p) => Tbd(q) = p)
    BY <2>1, TbdFacts DEF FirstLinks, Libraries
  <2>3. \A q \in FirstLinks : Stem(q) # Stem(p)
    BY <1>1, <2>1, <2>2 DEF StubFilesOK
  <2>4. OfLibrary(Stem(p), disk[p].lib)
    BY <1>1, <2>1, <2>2 DEF StubFilesOK, OfLibrary
  <2>5. disk[p].is # "link" /\ disk[p].is # "dylib"
    BY <2>1 DEF Textual
  <2> QED BY <1>4, <1>6, <2>1, <2>3, <2>4, <2>5 DEF Home
<1> QED BY <1>5, <1>6

LEMMA LayoutScan ==
  ASSUME Inv, Layout, Scan
  PROVE  Layout'
<1>1. PICK p \in todo : ScanPrivate(p) \/ ScanLink(p) \/ ScanFile(p) \/ ScanOther(p) \/ ScanError(p)
  BY DEF Scan
<1>2. /\ pc = "scan" /\ p \in Paths /\ UNCHANGED <<disk, opts, first, left, current, stack, links, link>>
      /\ disk \in [Paths -> Nodes] /\ pc' \in {"scan", "failed"}
      /\ dylibs \in [Stems -> Nodes] /\ originalNames \in [Stems -> Paths \cup {None}]
      /\ Stem(p) \in Stems
  <2>1. pc = "scan" /\ p \in Paths
    BY DEF Scan, Inv, TypeOK
  <2>2. pc' \in {"scan", "failed"}
    BY <1>1, <2>1, ScanEntry
  <2> QED BY <2>1, <2>2, PathFacts DEF Scan, tree, input, history, Inv, TypeOK
<1>3. TreeOK' /\ \A s \in Stems : Home(s) => Home(s)'
  BY <1>2, SameTree DEF Layout
<1>4. CurrentOK'
  BY <1>2 DEF Layout, CurrentOK, Converting, Ended
<1>5. /\ Libraries' = Libraries /\ FirstLinks' = FirstLinks /\ SparedLibs' = SparedLibs
      /\ \A y : Recorded(y)' <=> Recorded(y)
      /\ \A s, l : OfLibrary(s, l)' <=> OfLibrary(s, l)
      /\ \A q : Intact(q)' <=> Intact(q)
  BY <1>2 DEF Libraries, FirstLinks, SparedLibs, Recorded, OfLibrary, Intact
<1>6. RecordsOK' /\ PresentOK'
  <2>1. CASE ScanPrivate(p)
    <3>1. toDelete' = toDelete \cup {<<p, FALSE>>} /\ UNCHANGED <<symlinks, dylibs, originalNames>>
          /\ Private(p) /\ opts.deletePrivate
      BY <2>1 DEF ScanPrivate, scan
    <3>2. \A d \in toDelete' : IF d[2] THEN ~IsTbd(d[1]) ELSE Private(d[1]) /\ opts.deletePrivate
      <4>1. ASSUME NEW d \in toDelete'
            PROVE  IF d[2] THEN ~IsTbd(d[1]) ELSE Private(d[1]) /\ opts.deletePrivate
        <5>1. CASE d \in toDelete
          BY <5>1 DEF Layout, RecordsOK
        <5>2. CASE d = <<p, FALSE>>
          <6>1. d[1] = p /\ d[2] = FALSE
            BY <5>2
          <6> QED BY <3>1, <6>1
        <5> QED BY <3>1, <4>1, <5>1, <5>2
      <4> QED BY <4>1
    <3>3. RecordsOK'
      BY <1>2, <1>3, <1>5, <3>1, <3>2 DEF Layout, RecordsOK
    <3>4. PresentOK'
      BY <1>2, <3>1, SamePresent DEF Layout
    <3> QED BY <3>3, <3>4
  <2>2. CASE ScanLink(p)
    <3>1. PICK y : y = [target |-> Target(disk, p), src |-> p, to |-> disk[p].to]
      OBVIOUS
    <3>2. /\ symlinks' = symlinks \/ (Exists(disk, p) /\ symlinks' = symlinks \cup {y})
          /\ UNCHANGED <<dylibs, originalNames, toDelete>>
      BY <2>2, <3>1 DEF ScanLink
    <3>3. Exists(disk, p) => Recorded(y) /\ (~IsTbd(p) => Intact(p))
      BY <1>2, <2>2, <3>1, ScannedLink DEF ScanLink, Layout
    <3>4. RecordsOK'
      BY <1>2, <1>3, <1>5, <3>2, <3>3 DEF Layout, RecordsOK
    <3>5. y.src = p
      BY <3>1
    <3>6. PresentOK'
      BY <1>2, <1>5, <3>2, <3>3, <3>5 DEF Layout, PresentOK
    <3> QED BY <3>4, <3>6
  <2>3. CASE ScanFile(p)
    <3>1. disk[p].is \in Interface /\ UNCHANGED <<symlinks, toDelete>>
      BY <2>3 DEF ScanFile
    <3>2. \A s \in Stems : dylibs'[s] = dylibs[s] \/ (s = Stem(p) /\ dylibs'[s] = disk[p])
      BY <1>2, <2>3 DEF ScanFile
    <3>3. \A s \in Stems : originalNames'[s] = originalNames[s]
              \/ (s = Stem(p) /\ originalNames'[s] = p /\ disk[p].is = "dylib")
      BY <1>2, <2>3 DEF ScanFile, Original
    <3>4. Home(Stem(p)) /\ OfLibrary(Stem(p), disk[p].lib) /\ (disk[p].is = "dylib" => p \in SparedLibs)
      BY <1>2, <2>3, <3>1, ScannedFile DEF Layout, ScanFile, SparedLibs
    <3>5. \A s \in Stems : dylibs'[s] # Absent => Home(s)' /\ OfLibrary(s, dylibs[s].lib)'
      <4>1. ASSUME NEW s \in Stems, dylibs'[s] # Absent
            PROVE  Home(s)' /\ OfLibrary(s, dylibs[s].lib)'
        <5>1. PICK l : l = dylibs'[s].lib
          OBVIOUS
        <5>2. Home(s) /\ OfLibrary(s, l)
          <6>1. CASE dylibs'[s] = dylibs[s]
            BY <4>1, <5>1, <6>1 DEF Layout, RecordsOK
          <6>2. CASE s = Stem(p) /\ dylibs'[s] = disk[p]
            BY <3>4, <5>1, <6>2
          <6> QED BY <3>2, <6>1, <6>2
        <5>3. Home(s)' /\ OfLibrary(s, l)'
          BY <1>3, <1>5, <5>2
        <5> QED BY <5>1, <5>3 DEF OfLibrary
      <4> QED BY <4>1
    <3>6. opts.file = None => \A s \in Stems : originalNames'[s] # None =>
            originalNames'[s] \in SparedLibs /\ Stem(originalNames'[s]) = s
      BY <3>3, <3>4 DEF Layout, RecordsOK
    <3>7. RecordsOK'
      <4>1. \A y \in symlinks' : Recorded(y)'
        BY <1>5, <3>1 DEF Layout, RecordsOK
      <4>2. \A d \in toDelete' : IF d[2] THEN ~IsTbd(d[1]) ELSE Private(d[1]) /\ opts'.deletePrivate
        BY <1>2, <3>1 DEF Layout, RecordsOK
      <4>3. opts'.file = None => \A s \in Stems : originalNames'[s] # None =>
              originalNames'[s] \in SparedLibs' /\ Stem(originalNames'[s]) = s
        BY <1>2, <1>5, <3>6
      <4> QED BY <3>5, <4>1, <4>2, <4>3 DEF RecordsOK
    <3>8. PresentOK'
      BY <1>2, <3>1, SamePresent DEF Layout
    <3> QED BY <3>7, <3>8
  <2>4. CASE UNCHANGED <<scan, toDelete>>
    <3>1. UNCHANGED <<symlinks, dylibs, originalNames, toDelete>>
      BY <2>4 DEF scan
    <3>2. RecordsOK'
      BY <1>2, <1>3, <3>1, SameRecords DEF Layout
    <3>3. PresentOK'
      BY <1>2, <3>1, SamePresent DEF Layout
    <3> QED BY <3>2, <3>3
  <2> QED BY <1>1, <2>1, <2>2, <2>3, <2>4 DEF ScanOther, ScanError
<1> QED BY <1>3, <1>4, <1>6 DEF Layout

\* Steps that leave the tree and the maps alone.
LEMMA LayoutProceeds ==
  ASSUME Layout, UNCHANGED <<disk, opts, first, symlinks, dylibs, originalNames, toDelete>>,
         CurrentOK', pc' \in {"scan", "next"} \cup Converting => pc \in {"scan", "next"} \cup Converting
  PROVE  Layout'
<1>1. TreeOK' /\ \A s \in Stems : Home(s) => Home(s)'
  BY SameTree DEF Layout
<1>2. RecordsOK'
  BY <1>1, SameRecords DEF Layout
<1>3. PresentOK'
  <2>1. CASE pc \in {"scan", "next"} \cup Converting
    BY <2>1, SamePresent DEF Layout
  <2>2. CASE pc' \notin {"scan", "next"} \cup Converting
    BY <2>2 DEF PresentOK
  <2> QED BY <2>1, <2>2
<1> QED BY <1>1, <1>2, <1>3 DEF Layout

LEMMA LayoutSkips ==
  ASSUME Inv, Layout, Scanned \/ Converted \/ AllConverted \/ Deleted \/ UNCHANGED Seen
  PROVE  Layout'
<1>1. UNCHANGED <<disk, opts, first, symlinks, dylibs, originalNames, toDelete, current, stack, links, link>>
  BY DEF Scanned, Converted, AllConverted, Deleted, Seen, tree, input, scan, history
<1>2. \/ pc' = pc /\ left' = left
      \/ pc \in {"scan", "next", "relink", "delete"} /\ pc' \in {"next", "delete", "done"}
         /\ (pc' = "next" => pc \in {"scan", "relink"}) /\ links = {} /\ opts.file = None
  <2>1. CASE UNCHANGED Seen
    BY <2>1 DEF Seen
  <2>2. CASE Scanned \/ AllConverted \/ Deleted
    BY <2>2 DEF Scanned, AllConverted, Deleted, Layout, CurrentOK, Ended
  <2>3. CASE Converted
    BY <2>3 DEF Converted, Layout, CurrentOK
  <2> QED BY <2>1, <2>2, <2>3
<1>3. CurrentOK'
  <2>1. CASE pc' = pc /\ left' = left
    <3>1. FirstLinks' = FirstLinks /\ Libraries' = Libraries
      BY <1>1 DEF FirstLinks, Libraries
    <3>2. (Home(current) <=> Home(current)') /\ (OfLibrary(current, stack[1].lib) <=> OfLibrary(current, stack[1].lib)')
      BY <1>1, <3>1 DEF Home, OfLibrary
    <3> QED BY <1>1, <2>1, <3>2 DEF Layout, CurrentOK
  <2>2. CASE pc' # pc
    BY <1>1, <1>2, <2>2 DEF CurrentOK, Converting, Ended
  <2>3. CASE pc' = pc /\ left' # left
    BY <1>1, <1>2, <2>3 DEF Layout, CurrentOK, Converting, Ended
  <2> QED BY <2>1, <2>2, <2>3
<1> QED BY <1>1, <1>2, <1>3, LayoutProceeds DEF Converting

\* The library that a call was made for is the same all along.
LEMMA SameLibrary ==
  ASSUME Inv, Inl!Step
  PROVE  stack'[1].lib = stack[1].lib
<1>1. /\ pc = "inline" /\ stack \in Seq(Frames) /\ stack # <<>> /\ Inl!top = stack[Len(stack)]
      /\ Inl!top \in Frames /\ 1 \in 1 .. Len(stack)
  <2>1. pc = "inline"
    BY InlineStep
  <2>2. stack \in Seq(Frames) /\ stack # <<>>
    BY <2>1 DEF Inv, TypeOK
  <2> QED BY <2>1, <2>2 DEF Inl!top
<1>2. ASSUME NEW l \in Libs
      PROVE  /\ Inl!Done(l) \in Seq(Frames) /\ Len(Inl!Done(l)) = Len(stack)
             /\ Inl!Done(l)[1].lib = stack[1].lib
  <2>1. stack[Len(stack)].todo \ {l} \in SUBSET Libs
    BY <1>1 DEF Frames
  <2>2. Inl!Done(l) = WithTodo(stack, stack[Len(stack)].todo \ {l})
    BY DEF Inl!Done, WithTodo
  <2> QED BY <1>1, <2>1, <2>2, SetTodo
<1>3. Inl!top.todo \subseteq Libs
  BY <1>1 DEF Frames
<1>4. CASE Inl!Skip
  BY <1>2, <1>3, <1>4 DEF Inl!Skip, Inl!Followed
<1>5. CASE Inl!Descend
  <2>1. PICK l \in Libs : stack' = Append(Inl!Done(l), Inl!Frame(l))
    BY <1>3, <1>5 DEF Inl!Descend, Inl!Followed
  <2>2. PICK t, f : t = Inl!Done(l) /\ f = Inl!Frame(l)
    OBVIOUS
  <2>3. t \in Seq(Frames) /\ Len(t) = Len(stack) /\ t[1].lib = stack[1].lib /\ stack' = Append(t, f)
    BY <1>2, <2>1, <2>2
  <2>4. Append(t, f)[1] = t[1]
    BY <1>1, <2>3
  <2> QED BY <2>3, <2>4
<1>6. CASE Inl!inlineLibrary
  <2>1. Len(stack) > 1
    BY <1>6 DEF Inl!inlineLibrary
  <2>2. PICK t : t = SubSeq(stack, 1, Len(stack) - 1)
    OBVIOUS
  <2>3. t \in Seq(Frames) /\ Len(t) = Len(stack) - 1 /\ t # <<>> /\ t[1] = stack[1]
        /\ t[Len(t)] = stack[Len(stack) - 1] /\ t[Len(t)] \in Frames
    <3>1. PICK n \in Nat \ {0} : Len(stack) = n + 1 /\ n = Len(stack) - 1
      BY <1>1, <2>1
    <3>2. t = SubSeq(stack, 1, n) /\ t \in Seq(Frames) /\ Len(t) = n
      BY <1>1, <2>2, <3>1
    <3>3. \A i \in 1 .. n : t[i] = stack[i] /\ t[i] \in Frames
      BY <1>1, <3>1, <3>2
    <3>4. t # <<>> /\ 1 \in 1 .. n /\ n \in 1 .. n
      BY <3>1, <3>2
    <3> QED BY <3>1, <3>2, <3>3, <3>4
  <2>4. PICK docs : docs = t[Len(t)].docs \cup Inl!MovedUp
    OBVIOUS
  <2>5. docs \in SUBSET Libs
    BY <1>1, <2>3, <2>4 DEF Inl!MovedUp, Frames
  <2>6. stack' = WithDocs(t, docs)
    BY <1>6, <2>2, <2>3, <2>4 DEF Inl!inlineLibrary, WithDocs
  <2>7. 1 \in 1 .. Len(t)
    BY <1>1, <2>1, <2>3
  <2> QED BY <2>3, <2>5, <2>6, <2>7, SetDocs
<1>7. CASE UNCHANGED stack
  BY <1>7
<1> QED BY <1>4, <1>5, <1>6, <1>7 DEF Inl!Step, Inl!CannotFind, Inl!Overflow, Inl!CannotConvert, Inl!Return

LEMMA LayoutInline ==
  ASSUME Inv, Layout, inlineFrameworks
  PROVE  Layout'
<1>1. UNCHANGED <<disk, opts, first, symlinks, dylibs, originalNames, toDelete, left, current, links, link>>
  BY DEF inlineFrameworks, tree, input, scan, history
<1>2. pc = "inline" /\ pc' \in {"inline", "write", "failed", "overflow"} /\ stack'[1].lib = stack[1].lib
  <2>1. CASE Inl!Step
    BY <2>1, InlineStep, SameLibrary
  <2>2. CASE pc = "inline" /\ Fail /\ UNCHANGED stack
    BY <2>2 DEF Fail
  <2> QED BY <2>1, <2>2 DEF inlineFrameworks
<1>3. CurrentOK'
  <2>1. FirstLinks' = FirstLinks /\ Libraries' = Libraries
    BY <1>1 DEF FirstLinks, Libraries
  <2>2. Home(current)' /\ OfLibrary(current, stack[1].lib)'
    BY <1>1, <1>2, <2>1 DEF Layout, CurrentOK, Home, OfLibrary
  <2> QED BY <1>1, <1>2, <2>2 DEF Layout, CurrentOK, Converting, Ended
<1> QED BY <1>1, <1>2, <1>3, LayoutProceeds DEF Converting

\* The call that converts a library is made for that library.
LEMMA CalledFor ==
  ASSUME NEW l, NEW docs, CallInline(l, docs)
  PROVE  stack'[1].lib = l /\ pc' \in {"inline", "write"}
BY DEF CallInline

LEMMA LayoutConvert ==
  ASSUME Inv, Layout, Convert
  PROVE  Layout'
<1>1. PICK s \in left : /\ current' = s /\ left' = left \ {s}
                        /\ IF dylibs[s].lib \in Writable
                           THEN CallInline(dylibs[s].lib, Docs(dylibs[s]))
                           ELSE Fail /\ UNCHANGED stack
  BY DEF Convert
<1>2. /\ pc = "next" /\ opts.file = None
      /\ UNCHANGED <<disk, opts, first, symlinks, dylibs, originalNames, toDelete, links, link>>
  BY DEF Convert, tree, input, scan, history, Layout, CurrentOK
<1>3. s \in Stems /\ dylibs[s] # Absent
  BY DEF Inv, TypeOK, MapsOK
<1>4. Home(s) /\ OfLibrary(s, dylibs[s].lib) /\ links = {}
  BY <1>2, <1>3 DEF Layout, RecordsOK, CurrentOK, Ended
<1>5. /\ pc' \in {"inline", "write", "failed"}
      /\ pc' \in {"inline", "write"} => stack'[1].lib = dylibs[s].lib
  BY <1>1, CalledFor DEF Fail
<1>6. CurrentOK'
  <2>1. FirstLinks' = FirstLinks /\ Libraries' = Libraries
    BY <1>2 DEF FirstLinks, Libraries
  <2>2. Home(current)'
    BY <1>1, <1>2, <1>4, <2>1 DEF Home
  <2>3. pc' \in {"inline", "write"} => OfLibrary(current, stack[1].lib)'
    BY <1>1, <1>4, <1>5, <2>1, <1>2 DEF OfLibrary
  <2> QED BY <1>1, <1>2, <1>3, <1>4, <1>5, <2>2, <2>3 DEF CurrentOK, Converting, Ended
<1> QED BY <1>2, <1>5, <1>6, LayoutProceeds DEF Converting

\* The file that is given is converted in its place.
LEMMA LayoutReadInput ==
  ASSUME Inv, Layout, ReadInput
  PROVE  Layout'
<1>1. PICK node, t : node = Contents(disk, opts.file) /\ t = Target(disk, opts.file)
  OBVIOUS
<1>2. /\ pc = "read" /\ current' = Stem(t)
      /\ originalNames' = [originalNames EXCEPT ![Stem(t)] = t]
      /\ \/ node.is \in Interface /\ (CallInline(node.lib, Docs(node)) \/ (Fail /\ UNCHANGED stack))
         \/ Fail /\ UNCHANGED stack
      /\ UNCHANGED <<disk, opts, first, symlinks, dylibs, toDelete, left, links, link>>
  BY <1>1 DEF ReadInput, tree, input, history
<1>3. opts.file \in Paths /\ disk \in [Paths -> Nodes] /\ opts.file # None
  BY <1>2, TreeAssumption DEF Inv, TypeOK, MapsOK
<1>4. t \in Paths /\ node \in Nodes /\ (node # Absent => node = disk[t])
  BY <1>1, <1>3, TargetFacts
<1>5. pc' \in {"inline", "write", "failed"} /\ (pc' \in {"inline", "write"} => stack'[1].lib = node.lib)
  BY <1>2, CalledFor DEF Fail
<1>6. node.is \in Interface => Home(Stem(t)) /\ OfLibrary(Stem(t), node.lib)
  BY <1>3, <1>4, NodeFacts, ScannedFile DEF Layout
<1>7. pc' # "failed" => node.is \in Interface
  BY <1>2 DEF Fail
<1>8. TreeOK' /\ \A s \in Stems : Home(s) => Home(s)'
  BY <1>2, SameTree DEF Layout
<1>9. /\ Libraries' = Libraries /\ FirstLinks' = FirstLinks /\ SparedLibs' = SparedLibs
      /\ \A y : Recorded(y)' <=> Recorded(y)
      /\ \A s, l : OfLibrary(s, l)' <=> OfLibrary(s, l)
  BY <1>2 DEF Libraries, FirstLinks, SparedLibs, Recorded, OfLibrary
<1>10. RecordsOK'
  BY <1>2, <1>3, <1>8, <1>9 DEF Layout, RecordsOK
<1>11. CurrentOK'
  <2>1. pc' \in {"inline", "write"} => Home(current)'
    BY <1>2, <1>5, <1>6, <1>7, <1>9 DEF Home
  <2>2. pc' \in {"inline", "write"} => OfLibrary(current, stack[1].lib)'
    BY <1>2, <1>5, <1>6, <1>7, <1>9 DEF OfLibrary
  <2>3. links = {}
    BY <1>2 DEF Layout, CurrentOK, Ended
  <2> QED BY <1>2, <1>3, <1>5, <2>1, <2>2, <2>3 DEF CurrentOK, Converting, Ended
<1>12. PresentOK'
  BY <1>2, <1>3 DEF PresentOK
<1> QED BY <1>8, <1>10, <1>11, <1>12 DEF Layout

\* Where a stub is written: in its own place, never through a link.
LEMMA OutputFacts ==
  ASSUME Inv, Layout, pc = "write"
  PROVE  /\ current \in Stems /\ output \in Paths /\ IsTbd(output) /\ Stem(output) = current
         /\ Written = {output} /\ Contents(disk, output) = disk[output]
         /\ \A n \in {stub, Part(stack[1].lib), Damaged, Other} : n \in Nodes /\ Orderly(output, n)
<1>1. /\ current \in Stems /\ disk \in [Paths -> Nodes] /\ stack[1].lib \in Libs
      /\ stub \in Nodes
  BY StubOK DEF Inv, TypeOK
<1>2. Home(current) /\ OfLibrary(current, stack[1].lib)
  BY DEF Layout, CurrentOK
<1>3. output \in Paths /\ Stem(output) = current /\ IsTbd(output)
  BY <1>1, StemFacts DEF output
<1>4. disk[output].is # "link" /\ Real(output) = output
  BY <1>2 DEF Home, output
<1>5. Target(disk, output) = output /\ Contents(disk, output) = disk[output]
  BY <1>1, <1>3, <1>4, NotALink
<1>6. Written = {output}
  BY <1>5 DEF Written
<1>7. ASSUME NEW n \in {stub, Part(stack[1].lib), Damaged, Other} PROVE n \in Nodes /\ Orderly(output, n)
  <2>1. n \in Nodes
    BY <1>1, KindsOfNodes
  <2>2. /\ n.is # "dylib" /\ n.is # "link"
        /\ n.is \in Textual => n.lib = stack[1].lib
    BY DEF stub, Text, Part, Damaged, Other, Textual
  <2>3. \A q \in FirstLinks : output # Tbd(q)
    BY <1>2, <1>3, TbdFacts DEF Home, FirstLinks
  <2>4. \A q \in Libraries : output = Tbd(q) => first[q].lib = stack[1].lib
    BY <1>2, <1>3, TbdFacts DEF OfLibrary, Libraries
  <2> QED BY <1>3, <1>4, <2>1, <2>2, <2>3, <2>4 DEF Orderly
<1> QED BY <1>1, <1>3, <1>5, <1>6, <1>7

\* What happens to a stub leaves the inputs as they are.
LEMMA SameInputs ==
  ASSUME FirstOK, disk \in [Paths -> Nodes], NEW p \in Paths, IsTbd(p), NEW n,
         disk' = [disk EXCEPT ![p] = n], UNCHANGED first, NEW q \in Paths, ~IsTbd(q)
  PROVE  (Intact(q)' <=> Intact(q)) /\ disk'[q] = disk[q]
<1>1. first \in [Paths -> Nodes] /\ LinksKeepTo(first)
  BY FirstFacts DEF FirstOK
<1>2. \A x \in Hops(first, q) : x \in Paths /\ ~IsTbd(x)
  BY <1>1, SameKind, HopsFacts
<1>3. \A x \in Paths : ~IsTbd(x) => disk'[x] = disk[x]
  OBVIOUS
<1> QED BY <1>2, <1>3 DEF Intact

\* A change of one stub, or of the link that stands for one.
LEMMA LayoutStub ==
  ASSUME Inv, Layout, NEW p \in Paths, IsTbd(p), NEW n \in Nodes, Orderly(p, n),
         disk' = disk \/ disk' = [disk EXCEPT ![p] = n],
         UNCHANGED <<opts, first, symlinks, dylibs, originalNames>>,
         \A d \in toDelete' : d \in toDelete \/ (d[2] /\ ~IsTbd(d[1])),
         CurrentOK', pc \in Converting
  PROVE  Layout'
<1>1. disk \in [Paths -> Nodes] /\ TreeOK /\ FirstOK /\ PresentOK
  BY DEF Inv, TypeOK, Layout, TreeOK
<1>2. TreeOK' /\ \A s \in Stems : Home(s) => Home(s)'
  BY <1>1, OrderlyChange, SameTree
<1>3. /\ Libraries' = Libraries /\ FirstLinks' = FirstLinks /\ SparedLibs' = SparedLibs
      /\ \A y : Recorded(y)' <=> Recorded(y)
      /\ \A s, l : OfLibrary(s, l)' <=> OfLibrary(s, l)
  BY DEF Libraries, FirstLinks, SparedLibs, Recorded, OfLibrary
<1>4. RecordsOK'
  BY <1>2, <1>3 DEF Layout, RecordsOK
<1>5. \A q \in Paths : ~IsTbd(q) => (Intact(q)' <=> Intact(q))
  BY <1>1, SameInputs DEF Intact
<1>6. \A y \in symlinks : y.src \in Paths
  BY DEF Inv, TypeOK, Symlinks
<1>7. PresentOK'
  BY <1>1, <1>5, <1>6 DEF PresentOK
<1> QED BY <1>2, <1>4, <1>7 DEF Layout

LEMMA LayoutWriteFile ==
  ASSUME Inv, Layout, WriteFile
  PROVE  Layout'
<1>1. /\ pc = "write" /\ UNCHANGED <<opts, first, symlinks, dylibs, originalNames, left, current, stack, link>>
      /\ AfterWrite \/ WriteFailed \/ (pc' = "crashed" /\ UNCHANGED <<links, toDelete>>)
  BY DEF WriteFile, input, scan
<1>2. PICK n \in {stub, Part(stack[1].lib), Damaged, Other} :
        disk' = disk \/ disk' = [disk EXCEPT ![output] = n]
  <2>1. \/ disk' = disk
        \/ \E p \in Written : disk' = [disk EXCEPT ![p] = stub]
        \/ \E p \in Written, n \in {Part(stack[1].lib), Damaged, Other} : disk' = [disk EXCEPT ![p] = n]
    BY DEF WriteFile
  <2>2. Written = {output}
    BY <1>1, OutputFacts
  <2> QED BY <2>1, <2>2
<1>3. output \in Paths /\ IsTbd(output) /\ current \in Stems /\ n \in Nodes /\ Orderly(output, n)
  BY <1>1, <1>2, OutputFacts
<1>4. \A d \in toDelete' : d \in toDelete \/ (d[2] /\ ~IsTbd(d[1]))
  <2>1. CASE AfterWrite /\ opts.file = None
    <3>1. PICK d : d = <<originalNames[current], TRUE>>
      OBVIOUS
    <3>2. toDelete' = toDelete \/ (originalNames[current] # None /\ toDelete' = toDelete \cup {d})
      BY <2>1, <3>1 DEF AfterWrite
    <3>3. originalNames[current] # None => originalNames[current] \in Libraries
      BY <1>3, <2>1 DEF Layout, RecordsOK, SparedLibs
    <3>4. originalNames[current] # None => ~IsTbd(originalNames[current])
      BY <3>3, FirstFacts DEF Layout, TreeOK
    <3>5. d[1] = originalNames[current] /\ d[2]
      BY <3>1
    <3> QED BY <3>2, <3>4, <3>5
  <2>2. CASE UNCHANGED toDelete
    BY <2>2
  <2> QED BY <1>1, <2>1, <2>2 DEF AfterWrite, WriteFailed
<1>5. CurrentOK'
  <2>1. links = {} /\ (opts.file = None => dylibs[current] # Absent /\ current \notin left)
    BY <1>1 DEF Layout, CurrentOK, Converting, Ended
  <2>2. CASE AfterWrite /\ opts.file = None
    <3>1. pc' = "relink" /\ \A y \in links' : y.target = originalNames[current]
      BY <2>2 DEF AfterWrite
    <3> QED BY <1>1, <1>3, <2>1, <2>2, <3>1, TreeAssumption DEF CurrentOK, Converting, Ended
  <2>3. CASE AfterWrite /\ opts.file # None
    <3>1. pc' \in {"deleteInput", "done"} /\ links' = {}
      BY <2>1, <2>3 DEF AfterWrite
    <3> QED BY <1>1, <2>3, <3>1 DEF CurrentOK, Converting, Ended
  <2>4. CASE pc' \in {"failed", "crashed"} /\ links' = {}
    BY <1>1, <2>4 DEF CurrentOK, Converting, Ended
  <2> QED BY <1>1, <2>1, <2>2, <2>3, <2>4 DEF WriteFailed, Fail
<1> QED BY <1>1, <1>2, <1>3, <1>4, <1>5, LayoutStub DEF Converting

\* A link that leads to the file of a recorded library is one of a spared library.
LEMMA LinkFacts ==
  ASSUME Inv, Layout, opts.file = None, NEW s \in Stems, NEW y \in symlinks,
         y.target = originalNames[s]
  PROVE  /\ y.src \in FirstLinks /\ y.to = first[y.src].to /\ y.target = Target(first, y.src)
         /\ Real(y.src) = y.src /\ ~IsTbd(y.src) /\ y.src \in Paths
         /\ Tbd(y.src) \in Paths /\ IsTbd(Tbd(y.src))
         /\ y.target \in SparedLibs /\ Stem(y.target) = s
<1>1. y \in Symlinks /\ Recorded(y)
  BY DEF Inv, TypeOK, Layout, RecordsOK
<1>2. y.src \in Paths /\ y.target \in Paths /\ y.target # None
  BY <1>1, TreeAssumption DEF Symlinks
<1>3. y.target \in SparedLibs /\ Stem(y.target) = s
  BY <1>1, <1>2 DEF Layout, RecordsOK
<1>4. FirstOK /\ ~IsTbd(y.target)
  BY <1>3, FirstFacts DEF Layout, TreeOK, SparedLibs
<1>5. ~IsTbd(y.src)
  BY <1>1, <1>4 DEF Recorded
<1>6. y.src \in FirstLinks /\ y.to = first[y.src].to /\ y.target = Target(first, y.src)
  BY <1>1, <1>5 DEF Recorded
<1>7. Real(y.src) = y.src
  BY <1>4, <1>6, FirstFacts
<1>8. Tbd(y.src) \in Paths /\ IsTbd(Tbd(y.src))
  BY <1>2, PathFacts, TbdFacts
<1> QED BY <1>1, <1>2, <1>3, <1>5, <1>6, <1>7, <1>8

\* One that is relinked is there, as the scan saw it.
LEMMA RelinkFacts ==
  ASSUME Inv, Layout, pc \in {"relink", "link"}, NEW y \in symlinks,
         y.target = originalNames[current]
  PROVE  /\ y.src \in FirstLinks /\ y.to = first[y.src].to /\ y.target = Target(first, y.src)
         /\ Intact(y.src) /\ Real(y.src) = y.src /\ ~IsTbd(y.src) /\ y.src \in Paths
         /\ Tbd(y.src) \in Paths /\ IsTbd(Tbd(y.src))
         /\ y.target \in SparedLibs /\ Stem(y.target) = current /\ opts.file = None
<1>1. opts.file = None /\ current \in Stems
  BY DEF Layout, CurrentOK, Converting
<1>2. ~IsTbd(y.src)
  BY <1>1, LinkFacts
<1>3. Intact(y.src)
  BY <1>1, <1>2 DEF Layout, PresentOK, Converting
<1> QED BY <1>1, <1>3, LinkFacts

LEMMA GoneIsOrderly == \A p : Orderly(p, Absent)
BY DEF Orderly, Absent, Textual

LEMMA LayoutRemoveLink ==
  ASSUME Inv, Layout, RemoveLink
  PROVE  Layout'
<1>1. /\ pc = "relink"
      /\ UNCHANGED <<opts, first, symlinks, dylibs, originalNames, toDelete, left, current, stack>>
      /\ \/ \E y \in links : /\ disk' = [disk EXCEPT ![Tbd(y.src)] = Absent]
                             /\ link' = y /\ links' = links \ {y} /\ pc' = "link"
         \/ pc' = "failed" /\ UNCHANGED <<disk, links, link>>
  BY DEF RemoveLink, Fail, input, scan, history
<1>2. links \subseteq symlinks /\ \A y \in links : y.target = originalNames[current]
  BY <1>1 DEF Inv, TypeOK, Layout, CurrentOK
<1>3. Absent \in Nodes
  BY KindsOfNodes
<1>4. CASE \E y \in links : /\ disk' = [disk EXCEPT ![Tbd(y.src)] = Absent]
                            /\ link' = y /\ links' = links \ {y} /\ pc' = "link"
  <2>1. PICK y \in links : /\ disk' = [disk EXCEPT ![Tbd(y.src)] = Absent]
                           /\ link' = y /\ links' = links \ {y} /\ pc' = "link"
    BY <1>4
  <2>2. Tbd(y.src) \in Paths /\ IsTbd(Tbd(y.src))
    BY <1>1, <1>2, RelinkFacts
  <2>3. CurrentOK'
    BY <1>1, <1>2, <2>1 DEF Layout, CurrentOK, Converting, Ended
  <2> QED BY <1>1, <1>3, <2>1, <2>2, <2>3, GoneIsOrderly, LayoutStub DEF Converting
<1>5. CASE pc' = "failed" /\ UNCHANGED <<disk, links, link>>
  <2>1. CurrentOK'
    BY <1>1, <1>5 DEF Layout, CurrentOK, Converting, Ended
  <2> QED BY <1>1, <1>5, <2>1, LayoutProceeds DEF Converting
<1> QED BY <1>1, <1>4, <1>5

LEMMA LayoutCreateLink ==
  ASSUME Inv, Layout, CreateLink
  PROVE  Layout'
<1>1. /\ pc = "link" /\ pc' \in {"relink", "failed"}
      /\ UNCHANGED <<opts, first, symlinks, dylibs, originalNames, left, current, stack, links, link>>
      /\ disk' = disk \/ disk' = [disk EXCEPT ![Tbd(link.src)] = Link(TwinTarget)]
      /\ toDelete' = toDelete \/ toDelete' = toDelete \cup {<<link.src, TRUE>>}
  BY DEF CreateLink, Fail, input, scan, history
<1>2. link \in symlinks /\ link.target = originalNames[current]
  BY <1>1 DEF Inv, TypeOK, Layout, CurrentOK
<1>3. /\ link.src \in FirstLinks /\ link.to = first[link.src].to /\ ~IsTbd(link.src)
      /\ Tbd(link.src) \in Paths /\ IsTbd(Tbd(link.src)) /\ Real(link.src) = link.src
      /\ link.src \in Paths
  BY <1>1, <1>2, RelinkFacts
<1>4. link.to \in Paths
  BY <1>2 DEF Inv, TypeOK, Symlinks
<1>5. TwinTarget \in Paths /\ IsTbd(TwinTarget)
  BY <1>4, PathFacts, TbdFacts DEF TwinTarget
<1>6. Link(TwinTarget) \in Nodes /\ Orderly(Tbd(link.src), Link(TwinTarget))
  <2>1. PICK n : n = Link(TwinTarget)
    OBVIOUS
  <2>2. n \in Nodes /\ n.is = "link" /\ n.to = TwinTarget /\ n.is # "dylib" /\ n.is \notin Textual
    BY <1>5, <2>1, KindsOfNodes DEF Link, Textual
  <2>3. Real(Tbd(link.src)) = Tbd(link.src)
    BY <1>3, TbdFacts
  <2> QED BY <1>3, <1>5, <2>1, <2>2, <2>3 DEF Orderly
<1>7. \A d \in toDelete' : d \in toDelete \/ (d[2] /\ ~IsTbd(d[1]))
  <2>1. PICK d : d = <<link.src, TRUE>>
    OBVIOUS
  <2>2. d[1] = link.src /\ d[2]
    BY <2>1
  <2> QED BY <1>1, <1>3, <2>1, <2>2
<1>8. CurrentOK'
  BY <1>1 DEF Layout, CurrentOK, Converting, Ended
<1> QED BY <1>1, <1>3, <1>6, <1>7, <1>8, LayoutStub DEF Converting

LEMMA LayoutDelete ==
  ASSUME Inv, Layout, Delete \/ DeleteInput
  PROVE  Layout'
<1>1. /\ pc \in {"delete", "deleteInput"} /\ pc' \in {"delete", "done", "failed"}
      /\ pc' = "delete" => pc = "delete"
      /\ toDelete' \subseteq toDelete
      /\ UNCHANGED <<opts, first, symlinks, dylibs, originalNames, left, current, stack, links, link>>
  <2>1. CASE Delete
    <3>1. pc = "delete" /\ UNCHANGED <<input, runs, todo, scan, left, current, stack, links, link, history>>
      BY <2>1 DEF Delete
    <3>2. pc' \in {"delete", "failed"} /\ toDelete' \subseteq toDelete
      BY <2>1, <3>1 DEF Delete, Fail
    <3> QED BY <3>1, <3>2 DEF input, scan, history
  <2>2. CASE DeleteInput
    BY <2>2 DEF DeleteInput, Fail, input, scan, history
  <2> QED BY <2>1, <2>2
<1>2. disk' = disk \/ \E p \in Paths : disk' = [disk EXCEPT ![p] = Absent]
  <2>1. disk' = disk \/ \E p : disk' = [disk EXCEPT ![p] = Absent]
    BY DEF Delete, DeleteInput, tree
  <2>2. \A p : p \notin Paths => [disk EXCEPT ![p] = Absent] = disk
    BY DEF Inv, TypeOK
  <2> QED BY <2>1, <2>2
<1>3. disk \in [Paths -> Nodes] /\ TreeOK /\ Absent \in Nodes
  BY KindsOfNodes DEF Inv, TypeOK, Layout
<1>4. TreeOK' /\ \A s \in Stems : Home(s) => Home(s)'
  <2>1. CASE disk' = disk
    BY <1>1, <1>3, <2>1, SameTree
  <2>2. CASE \E p \in Paths : disk' = [disk EXCEPT ![p] = Absent]
    BY <1>1, <1>3, <2>2, GoneIsOrderly, OrderlyChange
  <2> QED BY <1>2, <2>1, <2>2
<1>5. /\ Libraries' = Libraries /\ FirstLinks' = FirstLinks /\ SparedLibs' = SparedLibs
      /\ \A y : Recorded(y)' <=> Recorded(y)
      /\ \A s, l : OfLibrary(s, l)' <=> OfLibrary(s, l)
  BY <1>1 DEF Libraries, FirstLinks, SparedLibs, Recorded, OfLibrary
<1>6. RecordsOK'
  BY <1>1, <1>4, <1>5 DEF Layout, RecordsOK
<1>7. CurrentOK' /\ PresentOK'
  BY <1>1 DEF Layout, CurrentOK, PresentOK, Converting, Ended
<1> QED BY <1>4, <1>6, <1>7 DEF Layout

\* The trees that a run may begin with are tidy.
TidyInputs == \A i \in Inputs : TidyTree(i.disk)

LEMMA LayoutInit ==
  ASSUME TidyInputs, Init
  PROVE  Layout
<1>1. PICK i \in Inputs : disk = i.disk
  BY DEF Init
<1>2. /\ disk \in [Paths -> Nodes] /\ first = disk /\ TidyTree(disk)
      /\ \A p \in Paths : disk[p] # Absent => Alias[p[1]] = p[1]
  BY <1>1, InputsAssumption DEF Init, TidyInputs
<1>3. \A p \in Paths : disk[p] # Absent => Real(p) = p
  <2> SUFFICES ASSUME NEW p \in Paths, disk[p] # Absent PROVE Real(p) = p
    OBVIOUS
  <2>1. Alias[p[1]] = p[1] /\ p = <<p[1], p[2], p[3]>>
    BY <1>2, TreeAssumption
  <2> QED BY <2>1 DEF Real
<1>4. FirstOK
  BY <1>2, <1>3 DEF FirstOK
<1>5. OriginalsOK
  BY <1>2 DEF OriginalsOK
<1>6. StubFilesOK
  <2>1. \A p \in Paths : /\ disk[p].is # "part" /\ (disk[p].is = "dylib" => ~IsTbd(p))
                         /\ disk[p].is = "link" => (IsTbd(disk[p].to) <=> IsTbd(p))
                         /\ disk[p].is = "dylib" => /\ disk[Tbd(p)].is # "link"
                                                    /\ disk[Tbd(p)].is = "text" => disk[Tbd(p)].lib = disk[p].lib
                         /\ disk[p].is = "link" /\ ~IsTbd(p) => disk[Tbd(p)].is # "text"
    BY <1>2 DEF TidyTree
  <2>2. \A p \in Paths : Tbd(p) \in Paths /\ disk[Tbd(p)].is # "part"
    BY <2>1, PathFacts
  <2> QED BY <1>2, <1>3, <2>1, <2>2 DEF StubFilesOK, Libraries, FirstLinks, Textual
<1>7. RecordsOK
  BY DEF Init, RecordsOK
<1>8. CurrentOK /\ PresentOK
  BY DEF Init, CurrentOK, PresentOK, Converting, Ended
<1> QED BY <1>4, <1>5, <1>6, <1>7, <1>8 DEF Layout, TreeOK

LEMMA LayoutStep ==
  ASSUME Inv, Layout, [Next]_vars
  PROVE  Layout'
BY LayoutBegin, LayoutScan, LayoutSkips, LayoutConvert, LayoutInline, LayoutWriteFile,
   LayoutRemoveLink, LayoutCreateLink, LayoutDelete, LayoutReadInput, NextCases

LEMMA LayoutInvariance ==
  ASSUME TidyInputs
  PROVE  Spec => [](Inv /\ Layout)
<1>1. Init => Inv /\ Layout
  BY InvInit, LayoutInit
<1>2. Inv /\ Layout /\ [Next]_vars => (Inv /\ Layout)'
  BY InvStep, LayoutStep
<1> QED BY <1>1, <1>2, PTL DEF Spec

-----------------------------------------------------------------------------
(* TextWins *)

\* The stubs that the scan has seen, and those still to be converted, are recorded.
TextOK ==
  opts.file = None /\ pc \in {"scan", "next"} \cup Converting =>
    \A s \in Stems :
      /\ IF pc = "scan" THEN StubOf(s) \notin todo ELSE s \in left
      /\ disk[StubOf(s)].is \in Textual /\ ~(opts.deletePrivate /\ Private(StubOf(s)))
      => dylibs[s] = disk[StubOf(s)]

LEMMA TextInit == Init => TextOK
BY DEF Init, TextOK, Converting

LEMMA TextScan ==
  ASSUME Inv, Layout, TextOK, Scan
  PROVE  TextOK'
<1>1. PICK p \in todo : /\ ScanPrivate(p) \/ ScanLink(p) \/ ScanFile(p) \/ ScanOther(p) \/ ScanError(p)
                        /\ todo' = todo \ {p}
  BY DEF Scan
<1>2. /\ pc = "scan" /\ p \in Paths /\ UNCHANGED <<disk, opts>> /\ dylibs \in [Stems -> Nodes]
      /\ disk \in [Paths -> Nodes] /\ pc' \in {"scan", "failed"}
  <2>1. pc = "scan" /\ p \in Paths
    BY DEF Scan, Inv, TypeOK
  <2>2. pc' \in {"scan", "failed"}
    BY <1>1, <2>1, ScanEntry
  <2> QED BY <2>1, <2>2 DEF Scan, tree, input, Inv, TypeOK
<1>3. SUFFICES ASSUME opts.file = None, pc' = "scan", NEW s \in Stems, StubOf(s) \notin todo',
                      disk[StubOf(s)].is \in Textual, ~(opts.deletePrivate /\ Private(StubOf(s)))
               PROVE  dylibs'[s] = disk[StubOf(s)]
  BY <1>2 DEF TextOK, Converting
<1>4. Stem(p) \in Stems /\ StubOf(s) \in Paths /\ Stem(StubOf(s)) = s
  BY <1>2, StemFacts, PathFacts
<1>5. disk[StubOf(s)].is \in Interface /\ disk[StubOf(s)].is \notin {"link", "other", "damaged"}
  BY <1>3 DEF Interface, Textual
<1>6. CASE p = StubOf(s)
  <2>1. ScanFile(p)
    BY <1>1, <1>3, <1>5, <1>6 DEF ScanPrivate, ScanLink, ScanOther, ScanError, Fail
  <2>2. dylibs' = [dylibs EXCEPT ![s] = disk[p]]
    BY <1>3, <1>4, <1>6, <2>1 DEF ScanFile, Takes
  <2> QED BY <1>2, <1>6, <2>2
<1>7. CASE p # StubOf(s)
  <2>1. dylibs[s] = disk[StubOf(s)] /\ dylibs[s] # Absent
    <3>1. StubOf(s) \notin todo
      BY <1>1, <1>3, <1>7
    <3>2. dylibs[s] = disk[StubOf(s)]
      BY <1>2, <1>3, <3>1 DEF TextOK
    <3>3. disk[StubOf(s)] # Absent
      BY <1>3 DEF Absent, Textual
    <3> QED BY <3>2, <3>3
  <2>2. CASE ScanFile(p) /\ Stem(p) = s
    <3>1. disk[p].is \notin Textual
      BY <1>2, <1>4, <1>7, <2>2, ScannedFile DEF ScanFile, Layout
    <3>2. ~Takes(p)
      BY <2>1, <2>2, <3>1 DEF Takes
    <3> QED BY <2>1, <2>2, <3>2 DEF ScanFile
  <2>3. CASE ScanFile(p) /\ Stem(p) # s
    BY <1>2, <2>1, <2>3 DEF ScanFile
  <2>4. CASE UNCHANGED dylibs
    BY <2>1, <2>4
  <2> QED BY <1>1, <2>2, <2>3, <2>4 DEF ScanPrivate, ScanLink, ScanOther, ScanError, scan
<1> QED BY <1>6, <1>7

LEMMA TextStub ==
  ASSUME Inv, Layout, TextOK, WriteFile \/ RemoveLink \/ CreateLink
  PROVE  TextOK'
<1>1. /\ pc \in Converting /\ pc # "scan" /\ UNCHANGED <<opts, left, dylibs>>
      /\ disk \in [Paths -> Nodes]
  BY DEF WriteFile, RemoveLink, CreateLink, input, scan, Converting, Inv, TypeOK
<1>2. SUFFICES ASSUME opts.file = None, pc' \in {"scan", "next"} \cup Converting, NEW s \in left,
                      s \in Stems,
                      disk'[StubOf(s)].is \in Textual, ~(opts.deletePrivate /\ Private(StubOf(s)))
               PROVE  dylibs[s] = disk'[StubOf(s)]
  <2>1. pc' # "scan"
    BY DEF WriteFile, RemoveLink, CreateLink, AfterWrite, WriteFailed, Fail
  <2> QED BY <1>1, <2>1 DEF TextOK
<1>3. StubOf(s) \in Paths /\ Stem(StubOf(s)) = s /\ current \notin left
  BY <1>1, <1>2, StemFacts DEF Layout, CurrentOK
<1>4. disk'[StubOf(s)] = disk[StubOf(s)]
  <2>1. CASE WriteFile
    <3>1. Written = {output} /\ Stem(output) = current
      BY <2>1, OutputFacts DEF WriteFile
    <3>2. StubOf(s) # output
      BY <1>3, <3>1
    <3>3. disk' = disk \/ \E n : disk' = [disk EXCEPT ![output] = n]
      BY <2>1, <3>1 DEF WriteFile
    <3> QED BY <1>1, <1>3, <3>2, <3>3
  <2>2. CASE RemoveLink \/ CreateLink
    <3>1. disk' = disk \/ \E r, n : n.is \notin Textual /\ disk' = [disk EXCEPT ![r] = n]
      <4>1. Absent.is \notin Textual /\ Link(TwinTarget).is \notin Textual
        BY DEF Absent, Link, Textual
      <4> QED BY <2>2, <4>1 DEF RemoveLink, CreateLink
    <3>2. ASSUME NEW r, NEW n, n.is \notin Textual, disk' = [disk EXCEPT ![r] = n]
          PROVE  disk'[StubOf(s)] = disk[StubOf(s)]
      <4>1. CASE r = StubOf(s)
        <5>1. disk'[StubOf(s)] = n
          BY <1>1, <1>3, <3>2, <4>1
        <5> QED BY <1>2, <3>2, <5>1
      <4>2. CASE r # StubOf(s)
        BY <1>1, <3>2, <4>2
      <4> QED BY <4>1, <4>2
    <3> QED BY <3>1, <3>2
  <2> QED BY <2>1, <2>2
<1>5. dylibs[s] = disk[StubOf(s)]
  BY <1>1, <1>2, <1>4 DEF TextOK
<1> QED BY <1>4, <1>5

LEMMA TextStep ==
  ASSUME Inv, Layout, TextOK, [Next]_vars
  PROVE  TextOK'
<1>1. CASE Begin
  <2>1. \A s \in Stems : disk[StubOf(s)].is \in Textual => disk[StubOf(s)] # Absent /\ StubOf(s) \in Paths
    BY StemFacts DEF Absent, Textual
  <2> QED BY <1>1, <2>1 DEF Begin, TextOK, Converting, tree, input
<1>2. CASE Scanned
  BY <1>2 DEF Scanned, TextOK, tree, input, scan, Converting
<1>3. CASE Convert \/ inlineFrameworks \/ Converted \/ UNCHANGED Seen
  <2>1. UNCHANGED <<disk, opts, dylibs, todo>> /\ left' \subseteq left
    BY <1>3 DEF Convert, inlineFrameworks, Converted, Seen, tree, input, scan
  <2>2. pc' = pc \/ (pc \in {"next"} \cup Converting /\ pc' # "scan")
    <3>1. CASE inlineFrameworks
      BY <3>1, InlineStep DEF inlineFrameworks, Fail, Converting
    <3>2. CASE Convert
      BY <3>2 DEF Convert, CallInline, Fail
    <3>3. CASE Converted \/ UNCHANGED Seen
      BY <3>3 DEF Converted, Seen, Converting
    <3> QED BY <1>3, <3>1, <3>2, <3>3
  <2> QED BY <2>1, <2>2 DEF TextOK, Converting
<1>4. CASE Crash \/ AllConverted \/ Delete \/ Deleted \/ ReadInput \/ DeleteInput
  <2>1. CASE ReadInput
    BY <2>1 DEF ReadInput, TextOK, Layout, CurrentOK, input
  <2>2. CASE DeleteInput
    BY <2>2 DEF DeleteInput, TextOK, Fail, Converting
  <2>3. CASE Crash \/ AllConverted \/ Delete \/ Deleted
    BY <2>3 DEF Crash, AllConverted, Delete, Deleted, TextOK, Fail, Converting
  <2> QED BY <1>4, <2>1, <2>2, <2>3
<1> QED BY <1>1, <1>2, <1>3, <1>4, TextScan, TextStub, NextCases

\* On a tidy tree, the interface recorded for a name is that of its text stub, if it
\* has one, in whatever order the directory is read.
THEOREM TextStubsWin ==
  ASSUME TidyInputs
  PROVE  Spec => []TextWins
<1>1. Inv /\ Layout /\ TextOK => TextWins
  BY DEF Layout, CurrentOK, TextOK, TextWins
<1>2. Spec => []TextOK
  <2>1. Spec => [](Inv /\ Layout)
    BY LayoutInvariance
  <2>2. Inv /\ Layout /\ TextOK /\ [Next]_vars => TextOK'
    BY TextStep
  <2> QED BY <2>1, <2>2, TextInit, PTL DEF Spec
<1>3. Spec => [](Inv /\ Layout)
  BY LayoutInvariance
<1> QED BY <1>1, <1>2, <1>3, PTL

-----------------------------------------------------------------------------
(* NamesKept and Mirrored *)

\* The links at first to a library, and the libraries, that a run has to stand in for.
SparedLinks == {q \in FirstLinks : Contents(first, q).is = "dylib" /\ Spared(q)}
Uncut == {p \in SparedLibs : Stem(p) \notin cut}

\* What stands in for them.
Twin(q) == disk[Tbd(q)] = Link(Tbd(first[q].to))
Stubbed(p) == disk[Tbd(p)].is = "text" /\ disk[Tbd(p)].lib = first[p].lib

\* A link is there, or its twin is; a library that is gone, by itself or at the end of
\* a link, has its stub.
KeptOK ==
  /\ opts.file = None => \A q \in SparedLinks : Intact(q) \/ Twin(q)
  /\ \A p \in Uncut :
       \/ disk[p] = Absent
       \/ opts.file = None /\ \E q \in SparedLinks : Target(first, q) = p /\ ~Intact(q)
       => Stubbed(p)

\* What the scan has come to is recorded.
Entry(q) == [target |-> Target(first, q), src |-> q, to |-> first[q].to]
ScannedOK ==
  opts.file = None /\ pc \in {"scan", "next"} \cup Converting =>
    /\ pc # "scan" => todo = {}
    /\ \A q \in SparedLinks : Intact(q) => q \in todo \/ Entry(q) \in symlinks
    /\ \A p \in SparedLibs : disk[p] = first[p] =>
         p \in todo \/ (originalNames[Stem(p)] = p /\ dylibs[Stem(p)] # Absent)

\* What has been converted has its stub, and the links to it have their twins.
Relinked(y) == y \in links \/ (pc = "link" /\ y = link) \/ disk[Tbd(y.src)] = Link(Tbd(y.to))
DoneStem(s) ==
  /\ \A p \in Uncut : Stem(p) = s => Stubbed(p)
  /\ \A y \in symlinks : y.target = originalNames[s] => Relinked(y)
ProgressOK ==
  opts.file = None /\ pc \in {"next"} \cup Converting =>
    \A s \in Stems : dylibs[s] # Absent =>
      s \in left \/ (s = current /\ pc \in {"inline", "write"}) \/ DoneStem(s)

\* The deletions begin when everything has been stood in for.
MirrorOK ==
  opts.file = None /\ pc \in {"delete", "done"} =>
    (\A q \in SparedLinks : Twin(q)) /\ \A p \in Uncut : Stubbed(p)

\* When a single file is given, no other one is deleted.
FileOK ==
  opts.file # None =>
    /\ \A p \in Paths : ~IsTbd(p) /\ disk[p] # first[p] => p = Target(first, opts.file) /\ p \in Libraries
    /\ pc \in {"inline", "write", "deleteInput"} =>
         \/ IsTbd(opts.file) /\ IsTbd(originalNames[current])
         \/ /\ originalNames[current] = Target(first, opts.file)
            /\ Stem(originalNames[current]) = current
            /\ originalNames[current] \in Libraries
    /\ pc \in {"deleteInput", "done"} =>
         \/ IsTbd(opts.file)
         \/ /\ Target(first, opts.file) \in Libraries
            /\ Target(first, opts.file) \in Uncut => Stubbed(Target(first, opts.file))

StoodIn == KeptOK /\ ScannedOK /\ ProgressOK /\ MirrorOK /\ FileOK

\* What the names are at first does not change.
LEMMA SameNames ==
  ASSUME UNCHANGED <<opts, first>>, cut \subseteq cut'
  PROVE  /\ Libraries' = Libraries /\ FirstLinks' = FirstLinks /\ SparedLibs' = SparedLibs
         /\ SparedLinks' = SparedLinks /\ Uncut' \subseteq Uncut
         /\ \A q : Entry(q)' = Entry(q)
<1>1. Libraries' = Libraries /\ FirstLinks' = FirstLinks
  BY DEF Libraries, FirstLinks
<1>2. SparedLibs' = SparedLibs
  BY <1>1 DEF SparedLibs
<1>3. \A q : Spared(q)' <=> Spared(q)
  BY DEF Spared
<1>4. SparedLinks' = SparedLinks
  BY <1>1, <1>3 DEF SparedLinks
<1>5. Uncut' \subseteq Uncut
  BY <1>2 DEF Uncut
<1>6. \A q : Entry(q)' = Entry(q)
  BY DEF Entry
<1> QED BY <1>1, <1>2, <1>4, <1>5, <1>6

\* A link to a library, and the library.
LEMMA SparedLinkFacts ==
  ASSUME FirstOK, NEW q \in SparedLinks
  PROVE  /\ q \in FirstLinks /\ q \in Paths /\ ~IsTbd(q) /\ Real(q) = q /\ q \in Hops(first, q)
         /\ ~Loops(first, q) /\ Target(first, q) \in SparedLibs
         /\ Contents(first, q) = first[Target(first, q)]
         /\ opts.deletePrivate => ~Private(q)
<1>1. q \in FirstLinks /\ q \in Paths /\ ~IsTbd(q) /\ first \in [Paths -> Nodes]
  BY DEF SparedLinks, FirstLinks, FirstOK
<1>2. Real(q) = q
  BY <1>1, FirstFacts
<1>3. q \in Hops(first, q) /\ Target(first, q) \in Hops(first, q) /\ Target(first, q) \in Paths
  BY <1>1, <1>2, HopsFacts
<1>4. Contents(first, q).is = "dylib" /\ Spared(q)
  BY DEF SparedLinks
<1>5. ~Loops(first, q) /\ Contents(first, q) = first[Target(first, q)]
  BY <1>4 DEF Contents, Absent
<1>6. Target(first, q) \in Libraries
  BY <1>3, <1>4, <1>5 DEF Libraries
<1>7. opts.deletePrivate => ~Private(q) /\ ~Private(Target(first, q))
  BY <1>3, <1>4 DEF Spared
<1> QED BY <1>1, <1>2, <1>3, <1>5, <1>6, <1>7 DEF SparedLibs

\* A library.
LEMMA LibraryFacts ==
  ASSUME FirstOK, NEW p \in Libraries
  PROVE  /\ p \in Paths /\ ~IsTbd(p) /\ Tbd(p) \in Paths /\ IsTbd(Tbd(p)) /\ Stem(p) \in Stems
         /\ first[p] # Absent
<1>1. p \in Paths /\ first[p].is = "dylib"
  BY DEF Libraries
<1> QED BY <1>1, FirstFacts, PathFacts, TbdFacts DEF Absent

\* The twin of a link to a library, and the stub of one, are never the same file.
LEMMA TwinsApart ==
  ASSUME FirstOK
  PROVE  /\ \A q \in FirstLinks, p \in Libraries : Tbd(q) # Tbd(p)
         /\ \A q, r \in FirstLinks : Tbd(q) = Tbd(r) => q = r
         /\ \A q, r \in Libraries : Tbd(q) = Tbd(r) => q = r
<1>1. \A q \in FirstLinks \cup Libraries : q \in Paths
  BY DEF FirstLinks, Libraries
<1> QED BY <1>1, FirstFacts, SameTwin

-----------------------------------------------------------------------------
(* Steps that leave the tree as it is *)

LEMMA KeptSame ==
  ASSUME KeptOK, UNCHANGED <<disk, opts, first>>, cut \subseteq cut'
  PROVE  KeptOK'
<1>1. SparedLinks' = SparedLinks /\ Uncut' \subseteq Uncut
  BY SameNames
<1>2. \A q : (Intact(q)' <=> Intact(q)) /\ (Twin(q)' <=> Twin(q)) /\ (Stubbed(q)' <=> Stubbed(q))
  BY DEF Intact, Twin, Stubbed
<1> QED BY <1>1, <1>2 DEF KeptOK

LEMMA ScannedSame ==
  ASSUME ScannedOK, UNCHANGED <<opts, first, todo, symlinks, dylibs, originalNames>>, cut \subseteq cut',
         \A q \in Paths : ~IsTbd(q) => (Intact(q)' <=> Intact(q)) /\ disk'[q] = disk[q],
         FirstOK, pc \in {"scan", "next"} \cup Converting, pc' = "scan" <=> pc = "scan"
  PROVE  ScannedOK'
<1>1. SparedLinks' = SparedLinks /\ SparedLibs' = SparedLibs /\ \A q : Entry(q)' = Entry(q)
  BY SameNames
<1>2. \A q \in SparedLinks : q \in Paths /\ ~IsTbd(q)
  BY SparedLinkFacts
<1>3. \A p \in SparedLibs : p \in Paths /\ ~IsTbd(p)
  BY LibraryFacts DEF SparedLibs
<1> QED BY <1>1, <1>2, <1>3 DEF ScannedOK

LEMMA DoneSame ==
  ASSUME UNCHANGED <<disk, opts, first, symlinks, originalNames, links, link>>, cut \subseteq cut',
         NEW s, DoneStem(s), pc' = pc \/ pc # "link"
  PROVE  DoneStem(s)'
<1>1. Uncut' \subseteq Uncut
  BY SameNames
<1>2. \A q : Stubbed(q)' <=> Stubbed(q)
  BY DEF Stubbed
<1>3. \A y : Relinked(y) => Relinked(y)'
  BY DEF Relinked
<1> QED BY <1>1, <1>2, <1>3 DEF DoneStem

LEMMA StoodInSkips ==
  ASSUME Inv, Layout, StoodIn, Begin \/ Crash \/ Scanned \/ Converted \/ Deleted \/ UNCHANGED Seen
  PROVE  StoodIn'
<1>1. UNCHANGED <<disk, opts, first, cut>> /\ FirstOK
  BY DEF Begin, Crash, Scanned, Converted, Deleted, Seen, tree, input, history, Layout, TreeOK
<1>2. KeptOK'
  BY <1>1, KeptSame DEF StoodIn
<1>3. /\ Libraries' = Libraries /\ SparedLinks' = SparedLinks /\ SparedLibs' = SparedLibs /\ Uncut' = Uncut
      /\ \A q : (Intact(q)' <=> Intact(q)) /\ (Twin(q)' <=> Twin(q)) /\ (Stubbed(q)' <=> Stubbed(q))
      /\ \A q : Entry(q)' = Entry(q)
  <2>1. SparedLibs' = SparedLibs
    BY <1>1, SameNames
  <2>2. Uncut' = Uncut
    BY <1>1, <2>1 DEF Uncut
  <2> QED BY <1>1, <2>2, SameNames DEF Intact, Twin, Stubbed
<1>4. FileOK'
  <2>1. pc' \in {"inline", "write", "deleteInput"} => pc' = pc /\ UNCHANGED <<originalNames, current>>
    BY DEF Begin, Crash, Scanned, Converted, Deleted, Seen, scan
  <2>2. opts.file # None /\ pc' \in {"deleteInput", "done"} => pc' = pc
    BY DEF Begin, Crash, Scanned, Converted, Deleted, Seen, Layout, CurrentOK
  <2> QED BY <1>1, <1>3, <2>1, <2>2 DEF StoodIn, FileOK
<1>5. MirrorOK'
  <2>1. pc' \in {"delete", "done"} => pc \in {"delete", "done"}
    BY DEF Begin, Crash, Scanned, Converted, Deleted, Seen
  <2> QED BY <1>1, <1>3, <2>1 DEF StoodIn, MirrorOK
<1>6. ScannedOK'
  <2>1. CASE Begin
    <3>1. opts.file = None => pc' = "scan" /\ todo' = {p \in Paths : disk[p] # Absent}
      BY <2>1 DEF Begin
    <3>2. ASSUME NEW q \in SparedLinks, Intact(q) PROVE q \in Paths /\ disk[q] # Absent
      <4>1. q \in Paths /\ q \in Hops(first, q) /\ first[q].is = "link"
        BY <1>1, SparedLinkFacts DEF FirstLinks
      <4> QED BY <3>2, <4>1 DEF Intact, Absent
    <3>3. \A p \in SparedLibs : p \in Paths /\ first[p] # Absent
      BY <1>1, LibraryFacts DEF SparedLibs
    <3> QED BY <1>1, <1>3, <3>1, <3>2, <3>3 DEF ScannedOK
  <2>2. CASE Crash \/ Deleted
    BY <2>2 DEF Crash, Deleted, ScannedOK, Converting
  <2>3. CASE Scanned \/ Converted
    <3>1. /\ UNCHANGED <<todo, symlinks, dylibs, originalNames>> /\ pc' = "next"
          /\ pc \in {"scan", "relink"} /\ (pc = "scan" => todo = {})
      BY <2>3 DEF Scanned, Converted, scan
    <3> QED BY <1>1, <1>3, <3>1 DEF StoodIn, ScannedOK, Converting
  <2>4. CASE UNCHANGED Seen
    BY <1>1, <1>3, <2>4 DEF Seen, scan, StoodIn, ScannedOK
  <2> QED BY <2>1, <2>2, <2>3, <2>4
<1>7. ProgressOK'
  <2>1. CASE Begin \/ Crash \/ Deleted
    BY <2>1 DEF Begin, Crash, Deleted, ProgressOK, Converting
  <2>2. CASE Scanned
    BY <2>2 DEF Scanned, ProgressOK, scan
  <2>3. CASE Converted \/ UNCHANGED Seen
    <3>1. /\ UNCHANGED <<symlinks, dylibs, originalNames, left, current, links, link>>
          /\ pc' = pc \/ (pc = "relink" /\ pc' = "next")
      BY <2>3 DEF Converted, Seen, scan
    <3>2. \A s : DoneStem(s) => DoneStem(s)'
      BY <1>1, <3>1, DoneSame
    <3> QED BY <1>1, <3>1, <3>2 DEF StoodIn, ProgressOK, Converting
  <2> QED BY <2>1, <2>2, <2>3
<1> QED BY <1>2, <1>4, <1>5, <1>6, <1>7 DEF StoodIn

LEMMA StoodInScan ==
  ASSUME Inv, Layout, StoodIn, Scan
  PROVE  StoodIn'
<1>1. PICK p \in todo : /\ ScanPrivate(p) \/ ScanLink(p) \/ ScanFile(p) \/ ScanOther(p) \/ ScanError(p)
                        /\ todo' = todo \ {p}
  BY DEF Scan
<1>2. /\ pc = "scan" /\ p \in Paths /\ UNCHANGED <<disk, opts, first, cut, left, current, links, link>>
      /\ opts.file = None /\ FirstOK /\ disk \in [Paths -> Nodes] /\ TreeOK
      /\ dylibs \in [Stems -> Nodes] /\ originalNames \in [Stems -> Paths \cup {None}]
  BY DEF Scan, tree, input, history, Inv, TypeOK, Layout, TreeOK, CurrentOK
<1>3. /\ pc' \in {"scan", "failed"} /\ symlinks \subseteq symlinks'
      /\ \A s \in Stems : dylibs[s] # Absent => dylibs'[s] # Absent
  BY <1>1, <1>2, ScanEntry
<1>4. KeptOK'
  BY <1>2, KeptSame DEF StoodIn
<1>5. MirrorOK' /\ FileOK' /\ ProgressOK'
  BY <1>2, <1>3 DEF MirrorOK, FileOK, ProgressOK, Converting
<1>6. /\ SparedLinks' = SparedLinks /\ SparedLibs' = SparedLibs /\ \A q : Entry(q)' = Entry(q)
      /\ \A q : Intact(q)' <=> Intact(q)
  BY <1>2, SameNames DEF Intact
<1>7. ASSUME pc' = "scan", NEW q \in SparedLinks, Intact(q), q \notin todo'
      PROVE  Entry(q) \in symlinks'
  <2>1. CASE q \notin todo
    BY <1>2, <1>3, <1>7, <2>1 DEF StoodIn, ScannedOK
  <2>2. CASE q = p
    <3>1. /\ disk[q] = first[q] /\ disk[q].is = "link" /\ (opts.deletePrivate => ~Private(q))
          /\ ~IsTbd(q)
      BY <1>2, <1>7, SparedLinkFacts DEF Intact, FirstLinks
    <3>2. Target(disk, q) = Target(first, q) /\ Contents(disk, q) = Contents(first, q)
      BY <1>2, <1>7, <2>2, <3>1, LeadsAsFirst
    <3>3. Exists(disk, q)
      BY <1>2, <3>2, SparedLinkFacts DEF Exists, SparedLinks, Absent
    <3>4. ScanLink(q)
      BY <1>1, <1>7, <2>2, <3>1 DEF ScanPrivate, ScanFile, ScanOther, ScanError, Fail, Interface, Textual
    <3> QED BY <3>1, <3>2, <3>3, <3>4 DEF ScanLink, Entry
  <2> QED BY <1>1, <1>7, <2>1, <2>2
<1>8. ASSUME pc' = "scan", NEW q \in SparedLibs, disk[q] = first[q], q \notin todo'
      PROVE  originalNames'[Stem(q)] = q /\ dylibs'[Stem(q)] # Absent
  <2>0. q \in Libraries /\ q \in Paths /\ Stem(q) \in Stems /\ disk[q].is = "dylib"
    BY <1>2, <1>8, LibraryFacts DEF SparedLibs, Libraries
  <2>1. CASE q \notin todo
    <3>1. originalNames[Stem(q)] = q /\ dylibs[Stem(q)] # Absent
      BY <1>2, <1>8, <2>1 DEF StoodIn, ScannedOK
    <3>2. CASE ScanFile(p) /\ disk[p].is = "dylib" /\ Stem(p) = Stem(q)
      <4>1. p \in Libraries
        BY <1>2, <3>2, ScannedFile DEF Interface
      <4>2. p = q
        BY <1>2, <2>0, <3>2, <4>1, FirstFacts
      <4> QED BY <1>1, <2>1, <4>2
    <3>3. CASE ~(ScanFile(p) /\ disk[p].is = "dylib" /\ Stem(p) = Stem(q))
      <4>1. originalNames'[Stem(q)] = originalNames[Stem(q)]
        BY <1>1, <1>2, <2>0, <3>3 DEF ScanPrivate, ScanLink, ScanFile, ScanOther, ScanError, Original, scan
      <4> QED BY <1>3, <2>0, <3>1, <4>1
    <3> QED BY <3>2, <3>3
  <2>2. CASE q = p
    <3>1. opts.deletePrivate => ~Private(q)
      BY DEF SparedLibs
    <3>2. ScanFile(q)
      BY <1>1, <1>8, <2>0, <2>2, <3>1 DEF ScanPrivate, ScanLink, ScanOther, ScanError, Fail
    <3>3. originalNames'[Stem(q)] = q
      BY <1>2, <2>0, <3>2 DEF ScanFile, Original
    <3>4. dylibs'[Stem(q)] # Absent
      <4>1. CASE dylibs[Stem(q)] # Absent
        BY <1>3, <2>0, <4>1
      <4>2. CASE dylibs[Stem(q)] = Absent
        <5>1. dylibs'[Stem(q)] = disk[q]
          BY <1>2, <2>0, <3>2, <4>2 DEF ScanFile, Takes
        <5> QED BY <2>0, <5>1 DEF Absent
      <4> QED BY <4>1, <4>2
    <3> QED BY <3>3, <3>4
  <2> QED BY <1>1, <1>8, <2>1, <2>2
<1>9. ScannedOK'
  BY <1>2, <1>3, <1>6, <1>7, <1>8 DEF ScannedOK, Converting
<1> QED BY <1>4, <1>5, <1>9 DEF StoodIn

LEMMA StoodInConvert ==
  ASSUME Inv, Layout, StoodIn, Convert \/ inlineFrameworks
  PROVE  StoodIn'
<1>1. /\ UNCHANGED <<disk, opts, first, cut, todo, symlinks, dylibs, originalNames, links, link>> /\ FirstOK
      /\ \/ /\ pc = "next" /\ pc' \in {"inline", "write", "failed"}
            /\ current' \in left /\ left' = left \ {current'}
         \/ pc = "inline" /\ pc' \in {"inline", "write", "failed", "overflow"} /\ UNCHANGED <<current, left>>
  <2>1. CASE Convert
    BY <2>1 DEF Convert, CallInline, Fail, tree, input, scan, history, Layout, TreeOK
  <2>2. CASE inlineFrameworks
    BY <2>2, InlineStep DEF inlineFrameworks, Fail, tree, input, scan, history, Layout, TreeOK
  <2> QED BY <2>1, <2>2
<1>2. KeptOK'
  BY <1>1, KeptSame DEF StoodIn
<1>3. \A q : (Intact(q)' <=> Intact(q)) /\ (Stubbed(q)' <=> Stubbed(q))
  BY <1>1 DEF Intact, Stubbed
<1>4. ScannedOK'
  <2>1. pc \in {"scan", "next"} \cup Converting /\ (pc' = "scan" <=> pc = "scan")
    BY <1>1 DEF Converting
  <2> QED BY <1>1, <1>3, <2>1, ScannedSame DEF StoodIn
<1>5. ProgressOK'
  <2>1. \A s : DoneStem(s) => DoneStem(s)'
    BY <1>1, DoneSame
  <2> QED BY <1>1, <2>1 DEF StoodIn, ProgressOK, Converting
<1>6. MirrorOK'
  BY <1>1 DEF MirrorOK
<1>7. FileOK'
  <2>1. opts.file # None => pc = "inline" /\ UNCHANGED current
    BY <1>1 DEF Layout, CurrentOK
  <2>2. Libraries' = Libraries
    BY <1>1 DEF Libraries
  <2> QED BY <1>1, <2>1, <2>2 DEF StoodIn, FileOK
<1> QED BY <1>2, <1>4, <1>5, <1>6, <1>7 DEF StoodIn

\* When nothing is left to convert, everything has been stood in for.
LEMMA StoodInAllConverted ==
  ASSUME Inv, Layout, StoodIn, AllConverted
  PROVE  StoodIn'
<1>1. /\ pc = "next" /\ left = {} /\ pc' = "delete" /\ opts.file = None /\ todo = {} /\ links = {}
      /\ UNCHANGED <<disk, opts, first, cut>> /\ FirstOK /\ disk \in [Paths -> Nodes] /\ OriginalsOK
  BY DEF AllConverted, tree, input, history, Layout, CurrentOK, TreeOK, StoodIn, ScannedOK, Ended,
         Inv, TypeOK
<1>2. KeptOK'
  BY <1>1, KeptSame DEF StoodIn
<1>3. ScannedOK' /\ ProgressOK' /\ FileOK'
  BY <1>1 DEF ScannedOK, ProgressOK, FileOK, Converting
<1>4. ASSUME NEW p \in SparedLibs, disk[p] = first[p]
      PROVE  DoneStem(Stem(p)) /\ originalNames[Stem(p)] = p
  <2>1. originalNames[Stem(p)] = p /\ dylibs[Stem(p)] # Absent
    BY <1>1, <1>4 DEF StoodIn, ScannedOK
  <2>2. Stem(p) \in Stems
    BY <1>1, LibraryFacts DEF SparedLibs
  <2> QED BY <1>1, <2>1, <2>2 DEF StoodIn, ProgressOK
<1>5. ASSUME NEW q \in SparedLinks PROVE Twin(q)
  <2>1. CASE Intact(q)
    <3>1. PICK t \in SparedLibs : t = Target(first, q)
      BY <1>1, SparedLinkFacts
    <3>2. t \in Hops(first, q)
      BY <1>1, <3>1, SparedLinkFacts, HopsFacts DEF FirstOK
    <3>3. disk[t] = first[t]
      BY <2>1, <3>2 DEF Intact
    <3>4. Entry(q) \in symlinks
      BY <1>1, <2>1 DEF StoodIn, ScannedOK
    <3>5. Entry(q).target = t /\ Entry(q).src = q /\ Entry(q).to = first[q].to
      BY <3>1 DEF Entry
    <3>6. Relinked(Entry(q))
      BY <1>4, <3>3, <3>4, <3>5 DEF DoneStem
    <3>7. disk[Tbd(q)] = Link(Tbd(first[q].to))
      BY <1>1, <3>5, <3>6 DEF Relinked
    <3> QED BY <3>7 DEF Twin
  <2>2. CASE ~Intact(q)
    BY <1>1, <2>2 DEF StoodIn, KeptOK
  <2> QED BY <2>1, <2>2
<1>6. ASSUME NEW p \in Uncut PROVE Stubbed(p)
  <2>1. p \in SparedLibs /\ p \in Paths /\ ~IsTbd(p)
    BY <1>1, LibraryFacts DEF Uncut, SparedLibs
  <2>2. CASE disk[p] = first[p]
    BY <1>4, <2>1, <2>2 DEF DoneStem
  <2>3. CASE disk[p] = Absent
    BY <2>3 DEF StoodIn, KeptOK
  <2> QED BY <1>1, <2>1, <2>2, <2>3 DEF OriginalsOK
<1>7. MirrorOK'
  <2>1. SparedLinks' = SparedLinks /\ Uncut' \subseteq Uncut
    BY <1>1, SameNames
  <2>2. \A q : (Twin(q)' <=> Twin(q)) /\ (Stubbed(q)' <=> Stubbed(q))
    BY <1>1 DEF Twin, Stubbed
  <2> QED BY <1>5, <1>6, <2>1, <2>2 DEF MirrorOK
<1> QED BY <1>2, <1>3, <1>7 DEF StoodIn

LEMMA StoodInReadInput ==
  ASSUME Inv, Layout, StoodIn, ReadInput
  PROVE  StoodIn'
<1>1. PICK node, t : node = Contents(disk, opts.file) /\ t = Target(disk, opts.file)
  OBVIOUS
<1>2. /\ pc = "read" /\ current' = Stem(t)
      /\ originalNames' = [originalNames EXCEPT ![Stem(t)] = t]
      /\ pc' \in {"inline", "write"} => node.is \in Interface
      /\ pc' \in {"inline", "write", "failed"}
      /\ UNCHANGED <<disk, opts, first, cut>>
  BY <1>1 DEF ReadInput, CallInline, Fail, tree, input, history
<1>3. /\ opts.file \in Paths /\ disk \in [Paths -> Nodes] /\ opts.file # None /\ TreeOK /\ FirstOK
      /\ originalNames \in [Stems -> Paths \cup {None}]
  BY <1>2, TreeAssumption DEF Inv, TypeOK, MapsOK, Layout, TreeOK
<1>4. t \in Paths /\ node \in Nodes /\ (node # Absent => node = disk[t]) /\ Stem(t) \in Stems
  BY <1>1, <1>3, TargetFacts, PathFacts
<1>5. KeptOK'
  BY <1>2, KeptSame DEF StoodIn
<1>6. ScannedOK' /\ ProgressOK' /\ MirrorOK'
  BY <1>2, <1>3 DEF ScannedOK, ProgressOK, MirrorOK
<1>7. ASSUME node.is \in Interface
      PROVE  \/ IsTbd(opts.file) /\ IsTbd(t)
             \/ t = Target(first, opts.file) /\ t \in Libraries
  <2>1. node # Absent /\ disk[t].is \in Interface
    BY <1>4, <1>7, NodeFacts
  <2>2. LinksKeepTo(disk) /\ t \in Hops(disk, opts.file)
    BY <1>1, <1>3, TreeFacts, HopsFacts
  <2>3. IsTbd(t) <=> IsTbd(opts.file)
    BY <1>3, <2>2, SameKind
  <2>4. CASE ~IsTbd(t)
    <3>1. Target(disk, opts.file) = Target(first, opts.file)
      BY <1>1, <1>3, <2>1, <2>3, <2>4, LeadsAsFirst
    <3>2. disk[t].is = "dylib"
      BY <1>3, <1>4, <2>1, <2>4, ScannedFile DEF Interface
    <3>3. t \in Libraries
      BY <1>3, <1>4, <2>1, <3>2, ScannedFile
    <3> QED BY <1>1, <3>1, <3>3
  <2> QED BY <2>3, <2>4
<1>8. FileOK'
  <2>1. Libraries' = Libraries
    BY <1>2 DEF Libraries
  <2>2. originalNames'[current'] = t /\ Stem(t) = current'
    BY <1>2, <1>3, <1>4
  <2> QED BY <1>2, <1>3, <1>7, <2>1, <2>2 DEF StoodIn, FileOK
<1> QED BY <1>5, <1>6, <1>8 DEF StoodIn

-----------------------------------------------------------------------------
(* Steps that write stubs and links *)

InputsSame == \A q \in Paths : ~IsTbd(q) => (Intact(q)' <=> Intact(q)) /\ disk'[q] = disk[q]

LEMMA KeptStub ==
  ASSUME KeptOK, FirstOK, UNCHANGED <<opts, first>>, cut \subseteq cut', InputsSame,
         \A q \in SparedLinks : Twin(q) => Twin(q)' \/ Intact(q),
         \A p \in Uncut' : Stubbed(p) => Stubbed(p)'
  PROVE  KeptOK'
<1>1. SparedLinks' = SparedLinks /\ SparedLibs' = SparedLibs /\ Uncut' \subseteq Uncut
  BY SameNames
<1>2. ASSUME NEW q \in SparedLinks PROVE Intact(q)' <=> Intact(q)
  BY SparedLinkFacts DEF InputsSame
<1>3. ASSUME NEW p \in Uncut PROVE disk'[p] = disk[p]
  BY LibraryFacts DEF InputsSame, Uncut, SparedLibs
<1>4. opts.file = None => \A q \in SparedLinks : Intact(q)' \/ Twin(q)'
  BY <1>2 DEF KeptOK
<1>5. ASSUME NEW p \in Uncut',
             \/ disk'[p] = Absent
             \/ opts.file = None /\ \E q \in SparedLinks : Target(first, q) = p /\ ~Intact(q)'
      PROVE  Stubbed(p)'
  <2>1. Stubbed(p)
    BY <1>1, <1>2, <1>3, <1>5 DEF KeptOK
  <2> QED BY <2>1
<1> QED BY <1>1, <1>4, <1>5 DEF KeptOK

\* What a write leaves: the stub, or what a crash made of it, in the one place.
LEMMA WriteFacts ==
  ASSUME Inv, Layout, WriteFile
  PROVE  /\ InputsSame /\ cut \subseteq cut'
         /\ \A q \in FirstLinks : disk'[Tbd(q)] = disk[Tbd(q)]
         /\ \A p \in Uncut' : /\ Stem(p) # current => disk'[Tbd(p)] = disk[Tbd(p)]
                              /\ Stubbed(p) => Stubbed(p)'
                              /\ AfterWrite /\ Stem(p) = current => Stubbed(p)'
<1>1. /\ pc = "write" /\ UNCHANGED <<opts, first>> /\ FirstOK /\ disk \in [Paths -> Nodes]
      /\ Home(current) /\ OfLibrary(current, stack[1].lib)
  BY DEF WriteFile, input, Layout, TreeOK, Inv, TypeOK, CurrentOK
<1>2. output \in Paths /\ IsTbd(output) /\ Stem(output) = current /\ Written = {output}
      /\ Contents(disk, output) = disk[output]
  BY <1>1, OutputFacts
<1>3. \/ disk'[output] = stub /\ cut' = cut /\ (disk' = disk \/ disk' = [disk EXCEPT ![output] = stub])
      \/ disk' = disk /\ cut' = cut /\ pc' = "failed"
      \/ /\ \E n : disk' = [disk EXCEPT ![output] = n]
         /\ cut' = cut \cup {current} /\ pc' = "crashed"
  <2>1. \/ /\ IF disk[output] = stub THEN UNCHANGED disk ELSE disk' = [disk EXCEPT ![output] = stub]
           /\ UNCHANGED cut
        \/ disk' = disk /\ cut' = cut /\ pc' = "failed"
        \/ \E n : /\ disk' = [disk EXCEPT ![output] = n]
                  /\ cut' = cut \cup {Stem(output)} /\ pc' = "crashed"
    BY <1>2 DEF WriteFile, WriteFailed, Fail
  <2> QED BY <1>1, <1>2, <2>1
<1>4. AfterWrite => pc' \notin {"failed", "crashed"}
  BY DEF AfterWrite
<1>5. cut \subseteq cut'
  BY <1>3
<1>6. disk' = disk \/ \E n : disk' = [disk EXCEPT ![output] = n]
  BY <1>3
<1>7. InputsSame
  <2>1. CASE disk' = disk
    BY <1>1, <2>1 DEF InputsSame, Intact
  <2>2. CASE \E n : disk' = [disk EXCEPT ![output] = n]
    BY <1>1, <1>2, <2>2, SameInputs DEF InputsSame
  <2> QED BY <1>6, <2>1, <2>2
<1>8. ASSUME NEW r \in Paths, Stem(r) # current PROVE disk'[Tbd(r)] = disk[Tbd(r)]
  <2>1. Tbd(r) # output /\ Tbd(r) \in Paths
    BY <1>2, <1>8, TbdFacts, PathFacts
  <2> QED BY <1>1, <1>6, <2>1
<1>9. \A q \in FirstLinks : disk'[Tbd(q)] = disk[Tbd(q)]
  BY <1>1, <1>8 DEF Home, FirstLinks
<1>10. ASSUME NEW p \in Uncut'
       PROVE  /\ Stem(p) # current => disk'[Tbd(p)] = disk[Tbd(p)]
              /\ Stubbed(p) => Stubbed(p)'
              /\ AfterWrite /\ Stem(p) = current => Stubbed(p)'
  <2>1. p \in Libraries /\ p \in Paths /\ Stem(p) \notin cut'
    <3>1. SparedLibs' = SparedLibs
      BY <1>1, <1>5, SameNames
    <3>2. p \in SparedLibs /\ Stem(p) \notin cut'
      BY <3>1 DEF Uncut
    <3> QED BY <1>1, <3>2, LibraryFacts DEF SparedLibs
  <2>2. CASE Stem(p) # current
    <3>1. disk'[Tbd(p)] = disk[Tbd(p)]
      BY <1>8, <2>1, <2>2
    <3> QED BY <1>1, <2>2, <3>1 DEF Stubbed
  <2>3. CASE Stem(p) = current
    <3>1. Tbd(p) = output /\ stack[1].lib = first[p].lib
      BY <1>1, <2>1, <2>3 DEF Tbd, output, OfLibrary
    <3>2. disk'[output] = stub \/ (disk' = disk /\ ~AfterWrite)
      BY <1>3, <1>4, <2>1, <2>3
    <3>3. CASE disk'[output] = stub
      <4>1. stub.is = "text" /\ stub.lib = stack[1].lib
        BY DEF stub, Text
      <4>2. Stubbed(p)'
        BY <1>1, <3>1, <3>3, <4>1 DEF Stubbed
      <4> QED BY <2>3, <4>2
    <3>4. CASE disk' = disk /\ ~AfterWrite
      BY <1>1, <2>3, <3>4 DEF Stubbed
    <3> QED BY <3>2, <3>3, <3>4
  <2> QED BY <2>2, <2>3
<1> QED BY <1>5, <1>7, <1>9, <1>10

LEMMA StoodInWriteFile ==
  ASSUME Inv, Layout, StoodIn, WriteFile
  PROVE  StoodIn'
<1>1. /\ pc = "write" /\ FirstOK /\ current \in Stems /\ pc' # "scan"
      /\ UNCHANGED <<opts, first, todo, symlinks, dylibs, originalNames, left, current, link>>
      /\ pc' \in {"failed", "crashed"} \/ AfterWrite
  BY DEF WriteFile, AfterWrite, WriteFailed, Fail, input, scan, Layout, TreeOK, Inv, TypeOK
<1>2. /\ InputsSame /\ cut \subseteq cut'
      /\ \A q \in FirstLinks : disk'[Tbd(q)] = disk[Tbd(q)]
      /\ \A p \in Uncut' : /\ Stem(p) # current => disk'[Tbd(p)] = disk[Tbd(p)]
                           /\ Stubbed(p) => Stubbed(p)'
                           /\ AfterWrite /\ Stem(p) = current => Stubbed(p)'
  BY WriteFacts
<1>3. /\ Libraries' = Libraries /\ SparedLinks' = SparedLinks /\ SparedLibs' = SparedLibs
      /\ Uncut' \subseteq Uncut
  BY <1>1, <1>2, SameNames
<1>4. KeptOK'
  <2>1. \A q \in SparedLinks : Twin(q) => Twin(q)'
    BY <1>1, <1>2 DEF Twin, SparedLinks
  <2> QED BY <1>1, <1>2, <2>1, KeptStub DEF StoodIn
<1>5. ScannedOK'
  <2>1. pc \in {"scan", "next"} \cup Converting /\ (pc' = "scan" <=> pc = "scan")
    BY <1>1 DEF Converting
  <2> QED BY <1>1, <1>2, <2>1, ScannedSame DEF StoodIn, InputsSame
<1>6. ProgressOK'
  <2>1. SUFFICES ASSUME opts.file = None, AfterWrite, NEW s \in Stems, dylibs[s] # Absent, s \notin left
                 PROVE  DoneStem(s)'
    BY <1>1 DEF ProgressOK, Converting
  <2>2. pc' = "relink" /\ links' = {y \in symlinks : y.target = originalNames[current]} /\ links = {}
    BY <1>1, <2>1 DEF AfterWrite, Layout, CurrentOK, Ended
  <2>3. CASE s = current
    <3>1. \A y \in symlinks' : y.target = originalNames'[s] => Relinked(y)'
      BY <1>1, <2>2, <2>3 DEF Relinked
    <3>2. \A p \in Uncut' : Stem(p) = s => Stubbed(p)'
      BY <1>2, <2>1, <2>3
    <3> QED BY <3>1, <3>2 DEF DoneStem
  <2>4. CASE s # current
    <3>1. DoneStem(s)
      BY <1>1, <2>1, <2>4 DEF StoodIn, ProgressOK, Converting
    <3>2. \A p \in Uncut' : Stem(p) = s => Stubbed(p)'
      BY <1>2, <1>3, <3>1 DEF DoneStem
    <3>3. ASSUME NEW y \in symlinks, y.target = originalNames[s] PROVE Relinked(y)'
      <4>1. disk[Tbd(y.src)] = Link(Tbd(y.to))
        BY <1>1, <2>2, <3>1, <3>3 DEF DoneStem, Relinked
      <4>2. y.src \in FirstLinks
        BY <2>1, <3>3, LinkFacts
      <4>3. disk'[Tbd(y.src)] = Link(Tbd(y.to))
        BY <1>2, <4>1, <4>2
      <4> QED BY <4>3 DEF Relinked
    <3>4. \A y \in symlinks' : y.target = originalNames'[s] => Relinked(y)'
      BY <1>1, <3>3
    <3> QED BY <3>2, <3>4 DEF DoneStem
  <2> QED BY <2>3, <2>4
<1>7. MirrorOK'
  <2>1. opts.file = None => pc' \notin {"delete", "done"}
    BY <1>1 DEF AfterWrite
  <2> QED BY <1>1, <2>1 DEF MirrorOK
<1>8. FileOK'
  <2>1. SUFFICES ASSUME opts.file # None PROVE FileOK'
    BY <1>1 DEF FileOK
  <2>2. \A p \in Paths : ~IsTbd(p) /\ disk'[p] # first'[p] => p = Target(first', opts'.file) /\ p \in Libraries'
    BY <1>1, <1>2, <1>3, <2>1 DEF StoodIn, FileOK, InputsSame
  <2>3. \/ IsTbd(opts.file) /\ IsTbd(originalNames[current])
        \/ /\ originalNames[current] = Target(first, opts.file)
           /\ Stem(originalNames[current]) = current
           /\ originalNames[current] \in Libraries
    BY <1>1, <2>1 DEF StoodIn, FileOK
  <2>4. pc' \in {"deleteInput", "done", "failed", "crashed"}
    BY <1>1, <2>1 DEF AfterWrite
  <2>5. CASE IsTbd(opts.file)
    BY <1>1, <1>3, <2>2, <2>3, <2>4, <2>5 DEF FileOK
  <2>6. CASE ~IsTbd(opts.file)
    <3>1. PICK t : t = Target(first, opts.file)
      OBVIOUS
    <3>2. t \in Libraries /\ Stem(t) = current /\ originalNames[current] = t
      BY <2>3, <2>6, <3>1
    <3>3. AfterWrite /\ t \in Uncut' => Stubbed(t)'
      BY <1>2, <3>2
    <3>4. pc' \in {"deleteInput", "done"} => AfterWrite
      BY <1>1
    <3>5. Target(first', opts'.file) = t /\ t \in Libraries'
      BY <1>1, <1>3, <3>1, <3>2
    <3>6. AfterWrite /\ t \in Uncut' => disk'[Tbd(t)].is = "text" /\ disk'[Tbd(t)].lib = first'[t].lib
      BY <3>3 DEF Stubbed
    <3>7. pc' \in {"inline", "write", "deleteInput"} =>
            /\ originalNames'[current'] = Target(first', opts'.file)
            /\ Stem(originalNames'[current']) = current' /\ originalNames'[current'] \in Libraries'
      BY <1>1, <1>3, <3>2, <3>5
    <3>8. pc' \in {"deleteInput", "done"} =>
            /\ Target(first', opts'.file) \in Libraries'
            /\ Target(first', opts'.file) \in Uncut' =>
                 /\ disk'[Tbd(Target(first', opts'.file))].is = "text"
                 /\ disk'[Tbd(Target(first', opts'.file))].lib = first'[Target(first', opts'.file)].lib
      BY <3>4, <3>5, <3>6
    <3> QED BY <2>2, <3>7, <3>8 DEF FileOK, Stubbed
  <2> QED BY <2>5, <2>6
<1> QED BY <1>4, <1>5, <1>6, <1>7, <1>8 DEF StoodIn

\* What happens to the twin of one link leaves the stubs and the other twins alone.
LEMMA RelinkKeeps ==
  ASSUME Inv, Layout, pc \in {"relink", "link"}, NEW y \in symlinks, y.target = originalNames[current],
         NEW n, disk' = [disk EXCEPT ![Tbd(y.src)] = n], UNCHANGED first
  PROVE  /\ InputsSame /\ disk'[Tbd(y.src)] = n
         /\ \A q \in SparedLinks : Twin(q) => Twin(q)' \/ Intact(q)
         /\ \A p \in Libraries : Stubbed(p) => Stubbed(p)'
         /\ \A r \in FirstLinks : r # y.src => disk'[Tbd(r)] = disk[Tbd(r)]
<1>1. FirstOK /\ disk \in [Paths -> Nodes]
  BY DEF Layout, TreeOK, Inv, TypeOK
<1>2. y.src \in FirstLinks /\ Intact(y.src) /\ Tbd(y.src) \in Paths /\ IsTbd(Tbd(y.src))
  BY RelinkFacts
<1>3. InputsSame
  BY <1>1, <1>2, SameInputs DEF InputsSame
<1>4. ASSUME NEW r \in FirstLinks, r # y.src PROVE disk'[Tbd(r)] = disk[Tbd(r)]
  <2>1. Tbd(r) # Tbd(y.src) /\ Tbd(r) \in Paths
    BY <1>1, <1>2, <1>4, TwinsApart, PathFacts DEF FirstLinks
  <2> QED BY <1>1, <2>1
<1>5. ASSUME NEW p \in Libraries PROVE disk'[Tbd(p)] = disk[Tbd(p)]
  <2>1. Tbd(p) # Tbd(y.src) /\ Tbd(p) \in Paths
    BY <1>1, <1>2, TwinsApart, LibraryFacts
  <2> QED BY <1>1, <2>1
<1>6. ASSUME NEW q \in SparedLinks, Twin(q) PROVE Twin(q)' \/ Intact(q)
  <2>1. q \in FirstLinks
    BY DEF SparedLinks
  <2>2. CASE q = y.src
    BY <1>2, <2>2
  <2>3. CASE q # y.src
    <3>1. disk'[Tbd(q)] = disk[Tbd(q)]
      BY <1>4, <2>1, <2>3
    <3> QED BY <1>6, <3>1 DEF Twin
  <2> QED BY <2>2, <2>3
<1>7. \A p \in Libraries : Stubbed(p) => Stubbed(p)'
  BY <1>5 DEF Stubbed
<1> QED BY <1>1, <1>2, <1>3, <1>4, <1>6, <1>7

\* The scan recorded a link once.
LEMMA OneRecord ==
  ASSUME Inv, Layout, opts.file = None, NEW s \in Stems, NEW r \in Stems,
         NEW y \in symlinks, y.target = originalNames[s],
         NEW z \in symlinks, z.target = originalNames[r], y.src = z.src
  PROVE  y = z
<1>1. y \in Symlinks /\ z \in Symlinks
  BY DEF Inv, TypeOK
<1>2. y.to = z.to /\ y.target = z.target
  BY LinkFacts
<1> QED BY <1>1, <1>2 DEF Symlinks

LEMMA StoodInRelink ==
  ASSUME Inv, Layout, StoodIn, RemoveLink \/ CreateLink
  PROVE  StoodIn'
<1>1. /\ pc \in {"relink", "link"} /\ pc' \in {"relink", "link", "failed"} /\ opts.file = None
      /\ UNCHANGED <<opts, first, cut, todo, symlinks, dylibs, originalNames, left, current>>
      /\ FirstOK /\ links \subseteq symlinks /\ current \in Stems
  BY DEF RemoveLink, CreateLink, Fail, input, scan, history, Layout, TreeOK, CurrentOK, Converting,
         Inv, TypeOK
<1>2. PICK y, n :
        \/ pc' = "failed" /\ disk' = disk
        \/ /\ y \in symlinks /\ y.target = originalNames[current]
           /\ disk' = [disk EXCEPT ![Tbd(y.src)] = n]
           /\ \/ pc = "relink" /\ pc' = "link" /\ link' = y /\ links' = links \ {y}
              \/ pc = "link" /\ pc' = "relink" /\ y = link /\ links' = links /\ n = Link(Tbd(y.to))
  <2>1. CASE RemoveLink
    <3>1. \A y \in links : y \in symlinks /\ y.target = originalNames[current]
      BY <1>1, <2>1 DEF RemoveLink, Layout, CurrentOK
    <3> QED BY <2>1, <3>1 DEF RemoveLink, Fail
  <2>2. CASE CreateLink
    <3>1. link \in symlinks /\ link.target = originalNames[current]
      BY <2>2 DEF CreateLink, Layout, CurrentOK, Inv, TypeOK
    <3> QED BY <2>2, <3>1 DEF CreateLink, Fail, TwinTarget
  <2> QED BY <2>1, <2>2
<1>3. /\ InputsSame
      /\ \A q \in SparedLinks : Twin(q) => Twin(q)' \/ Intact(q)
      /\ \A p \in Libraries : Stubbed(p) => Stubbed(p)'
  <2>1. CASE disk' = disk
    BY <1>1, <2>1 DEF InputsSame, Intact, Twin, Stubbed
  <2>2. CASE disk' # disk
    BY <1>1, <1>2, <2>2, RelinkKeeps
  <2> QED BY <2>1, <2>2
<1>4. SparedLibs' = SparedLibs /\ Uncut' = Uncut /\ \A p \in Uncut : p \in Libraries
  BY <1>1, SameNames DEF Uncut, SparedLibs
<1>5. KeptOK'
  BY <1>1, <1>3, <1>4, KeptStub DEF StoodIn
<1>6. ScannedOK'
  <2>1. pc \in {"scan", "next"} \cup Converting /\ (pc' = "scan" <=> pc = "scan")
    BY <1>1 DEF Converting
  <2> QED BY <1>1, <1>3, <2>1, ScannedSame DEF StoodIn, InputsSame
<1>7. MirrorOK' /\ FileOK'
  BY <1>1 DEF MirrorOK, FileOK
<1>8. ProgressOK'
  <2>1. SUFFICES ASSUME pc' # "failed", NEW s \in Stems, dylibs[s] # Absent, s \notin left
                 PROVE  DoneStem(s)'
    BY <1>1 DEF ProgressOK, Converting
  <2>2. DoneStem(s)
    BY <1>1, <2>1 DEF StoodIn, ProgressOK, Converting
  <2>3. \A p \in Uncut' : Stem(p) = s => Stubbed(p)'
    BY <1>3, <1>4, <2>2 DEF DoneStem
  <2>4. ASSUME NEW z \in symlinks, z.target = originalNames[s] PROVE Relinked(z)'
    <3>1. /\ y \in symlinks /\ y.target = originalNames[current]
          /\ disk' = [disk EXCEPT ![Tbd(y.src)] = n]
          /\ \/ pc = "relink" /\ pc' = "link" /\ link' = y /\ links' = links \ {y}
             \/ pc = "link" /\ pc' = "relink" /\ y = link /\ links' = links /\ n = Link(Tbd(y.to))
      BY <1>2, <2>1
    <3>2. Relinked(z)
      BY <2>2, <2>4 DEF DoneStem
    <3>3. disk'[Tbd(y.src)] = n /\ \A r \in FirstLinks : r # y.src => disk'[Tbd(r)] = disk[Tbd(r)]
      BY <1>1, <3>1, RelinkKeeps
    <3>4. CASE z = y
      <4>1. pc' = "relink" => disk'[Tbd(z.src)] = Link(Tbd(z.to))
        BY <3>1, <3>3, <3>4
      <4> QED BY <3>1, <3>4, <4>1 DEF Relinked
    <3>5. CASE z # y
      <4>1. z.src \in FirstLinks /\ z.src # y.src
        BY <1>1, <2>4, <3>1, <3>5, LinkFacts, OneRecord
      <4>2. disk'[Tbd(z.src)] = disk[Tbd(z.src)]
        BY <3>3, <4>1
      <4> QED BY <3>1, <3>2, <3>5, <4>2 DEF Relinked
    <3> QED BY <3>4, <3>5
  <2>5. \A z \in symlinks' : z.target = originalNames'[s] => Relinked(z)'
    BY <1>1, <2>4
  <2> QED BY <2>3, <2>5 DEF DoneStem
<1> QED BY <1>5, <1>6, <1>7, <1>8 DEF StoodIn

-----------------------------------------------------------------------------
(* The deletions *)

LEMMA StoodInDelete ==
  ASSUME Inv, Layout, StoodIn, Delete
  PROVE  StoodIn'
<1>1. /\ pc = "delete" /\ pc' \in {"delete", "failed"} /\ opts.file = None /\ FirstOK
      /\ UNCHANGED <<opts, first, cut>> /\ disk \in [Paths -> Nodes]
  BY DEF Delete, Fail, input, history, Layout, TreeOK, CurrentOK, Inv, TypeOK
<1>2. disk' = disk \/ \E d \in toDelete : disk' = [disk EXCEPT ![d[1]] = Absent]
  BY DEF Delete, tree
<1>3. ASSUME NEW p \in Paths, IsTbd(p), opts.deletePrivate => ~Private(p) PROVE disk'[p] = disk[p]
  <2>1. ASSUME NEW d \in toDelete PROVE d[1] # p
    BY <1>3 DEF Layout, RecordsOK
  <2> QED BY <1>1, <1>2, <1>3, <2>1
<1>4. \A q \in SparedLinks : Twin(q)'
  <2> SUFFICES ASSUME NEW q \in SparedLinks PROVE Twin(q)'
    OBVIOUS
  <2>1. q \in Paths /\ (opts.deletePrivate => ~Private(q)) /\ Twin(q)
    BY <1>1, SparedLinkFacts DEF StoodIn, MirrorOK
  <2>2. disk'[Tbd(q)] = disk[Tbd(q)]
    BY <1>3, <2>1, TbdFacts, PathFacts
  <2> QED BY <1>1, <2>1, <2>2 DEF Twin
<1>5. \A p \in Uncut : Stubbed(p)'
  <2> SUFFICES ASSUME NEW p \in Uncut PROVE Stubbed(p)'
    OBVIOUS
  <2>1. p \in Paths /\ (opts.deletePrivate => ~Private(p)) /\ Stubbed(p)
    BY <1>1, LibraryFacts DEF StoodIn, MirrorOK, Uncut, SparedLibs
  <2>2. disk'[Tbd(p)] = disk[Tbd(p)]
    BY <1>3, <2>1, TbdFacts, PathFacts
  <2> QED BY <1>1, <2>1, <2>2 DEF Stubbed
<1>6. SparedLinks' = SparedLinks /\ Uncut' \subseteq Uncut
  BY <1>1, SameNames
<1>7. KeptOK' /\ MirrorOK'
  BY <1>4, <1>5, <1>6 DEF KeptOK, MirrorOK
<1>8. ScannedOK' /\ ProgressOK' /\ FileOK'
  BY <1>1 DEF ScannedOK, ProgressOK, FileOK, Converting
<1> QED BY <1>7, <1>8 DEF StoodIn

LEMMA StoodInDeleteInput ==
  ASSUME Inv, Layout, StoodIn, DeleteInput
  PROVE  StoodIn'
<1>1. /\ pc = "deleteInput" /\ pc' \in {"done", "failed"} /\ opts.file # None /\ FirstOK
      /\ UNCHANGED <<opts, first, cut, originalNames, current>> /\ disk \in [Paths -> Nodes]
      /\ disk' = disk \/ disk' = [disk EXCEPT ![originalNames[current]] = Absent]
      /\ opts.file \in Paths
  BY DEF DeleteInput, Fail, input, scan, history, Layout, TreeOK, CurrentOK, Inv, TypeOK, Options
<1>2. PICK t, o : t = Target(first, opts.file) /\ o = originalNames[current]
  OBVIOUS
<1>3. IsTbd(t) <=> IsTbd(opts.file)
  <2>1. first \in [Paths -> Nodes] /\ LinksKeepTo(first)
    BY <1>1, FirstFacts DEF FirstOK
  <2> QED BY <1>1, <1>2, <2>1, SameKind, HopsFacts
<1>4. /\ \A p \in Paths : ~IsTbd(p) /\ disk[p] # first[p] => p = t /\ p \in Libraries
      /\ (IsTbd(opts.file) /\ IsTbd(o)) \/ (o = t /\ t \in Libraries)
      /\ IsTbd(opts.file) \/ (t \in Libraries /\ (t \in Uncut => Stubbed(t)))
  BY <1>1, <1>2 DEF StoodIn, FileOK
<1>5. /\ Libraries' = Libraries /\ SparedLibs' = SparedLibs
      /\ Uncut' = Uncut /\ SparedLinks' = SparedLinks
  <2>1. SparedLibs' = SparedLibs
    BY <1>1, SameNames
  <2> QED BY <1>1, <2>1, SameNames DEF Uncut
<1>6. \A p \in Libraries : p \in Paths /\ ~IsTbd(p) /\ Tbd(p) \in Paths /\ IsTbd(Tbd(p)) /\ first[p] # Absent
  BY <1>1, LibraryFacts
<1>7. \A p \in Uncut : p \in Libraries
  BY DEF Uncut, SparedLibs
<1>8. \A p \in Paths : p # o => disk'[p] = disk[p]
  BY <1>1, <1>2
<1>9. CASE IsTbd(opts.file)
  <2>1. IsTbd(o)
    BY <1>3, <1>4, <1>6, <1>9
  <2>2. \A p \in Paths : ~IsTbd(p) => disk'[p] = first[p]
    BY <1>3, <1>4, <1>8, <1>9, <2>1
  <2>3. \A p \in Uncut : disk'[p] # Absent
    BY <1>6, <1>7, <2>2
  <2>4. KeptOK'
    BY <1>1, <1>5, <2>3 DEF KeptOK
  <2>5. FileOK'
    BY <1>1, <1>9, <2>2 DEF FileOK
  <2> QED BY <1>1, <2>4, <2>5 DEF StoodIn, ScannedOK, ProgressOK, MirrorOK
<1>10. CASE ~IsTbd(opts.file)
  <2>1. o = t /\ t \in Libraries /\ (t \in Uncut => Stubbed(t))
    BY <1>4, <1>10
  <2>2. ASSUME NEW p \in Libraries, Stubbed(p) PROVE Stubbed(p)'
    <3>1. disk'[Tbd(p)] = disk[Tbd(p)]
      BY <1>6, <1>8, <2>1
    <3> QED BY <1>1, <2>2, <3>1 DEF Stubbed
  <2>3. ASSUME NEW p \in Uncut, disk'[p] = Absent PROVE Stubbed(p)'
    <3>1. CASE p = t
      BY <1>7, <2>1, <2>2, <3>1
    <3>2. CASE p # t
      <4>1. disk[p] = Absent
        BY <1>6, <1>7, <1>8, <2>1, <2>3, <3>2
      <4>2. Stubbed(p)
        BY <4>1 DEF StoodIn, KeptOK
      <4> QED BY <1>7, <2>2, <4>2
    <3> QED BY <3>1, <3>2
  <2>4. KeptOK'
    BY <1>1, <1>5, <2>3 DEF KeptOK
  <2>5. \A p \in Paths : ~IsTbd(p) /\ disk'[p] # first[p] => p = t /\ p \in Libraries
    BY <1>4, <1>8, <2>1
  <2>6. t \in Uncut => disk'[Tbd(t)].is = "text" /\ disk'[Tbd(t)].lib = first'[t].lib
    BY <2>1, <2>2 DEF Stubbed
  <2>7. FileOK'
    BY <1>1, <1>2, <1>5, <2>1, <2>5, <2>6 DEF FileOK, Stubbed
  <2> QED BY <1>1, <2>4, <2>7 DEF StoodIn, ScannedOK, ProgressOK, MirrorOK
<1> QED BY <1>9, <1>10

LEMMA StoodInInit ==
  ASSUME TidyInputs, Init
  PROVE  StoodIn
<1>1. FirstOK /\ first = disk /\ pc = "idle"
  BY LayoutInit DEF Init, Layout, TreeOK
<1>2. \A q \in SparedLinks : Intact(q)
  BY <1>1 DEF Intact
<1>3. \A p \in Uncut : disk[p] # Absent
  BY <1>1, LibraryFacts DEF Uncut, SparedLibs
<1>4. KeptOK
  BY <1>2, <1>3 DEF KeptOK
<1>5. ScannedOK /\ ProgressOK /\ MirrorOK /\ FileOK
  BY <1>1 DEF ScannedOK, ProgressOK, MirrorOK, FileOK, Converting
<1> QED BY <1>4, <1>5 DEF StoodIn

LEMMA StoodInInvariance ==
  ASSUME TidyInputs
  PROVE  Spec => [](Inv /\ Layout /\ StoodIn)
<1>1. Init => StoodIn
  BY StoodInInit
<1>2. Inv /\ Layout /\ StoodIn /\ [Next]_vars => StoodIn'
  BY StoodInSkips, StoodInScan, StoodInConvert, StoodInAllConverted, StoodInReadInput,
     StoodInWriteFile, StoodInRelink, StoodInDelete, StoodInDeleteInput, NextCases
<1>3. Spec => [](Inv /\ Layout)
  BY LayoutInvariance
<1> QED BY <1>1, <1>2, <1>3, PTL DEF Spec

-----------------------------------------------------------------------------
(* What it comes to *)

\* A name of a library: the library itself, or a link to it.
LEMMA NameFacts ==
  ASSUME Inv, Layout, NEW p \in Names
  PROVE  /\ p \in Paths /\ Real(p) = p /\ ~IsTbd(p) /\ ~Loops(first, p)
         /\ Contents(first, p) = first[Target(first, p)]
         /\ Contents(first, p) = Dylib(Contents(first, p).lib)
         /\ Target(first, p) \in Uncut /\ Target(first, p) \in Paths
         /\ opts.file # None => p = Target(first, opts.file)
         /\ IF first[p].is = "link" THEN p \in FirstLinks ELSE p = Target(first, p)
<1>1. /\ p \in Paths /\ first[p] # Absent /\ Contents(first, p).is = "dylib" /\ Spared(p)
      /\ Stem(Target(first, p)) \notin cut /\ (opts.file # None => p = Target(first, opts.file))
      /\ FirstOK /\ first \in [Paths -> Nodes] /\ LinksKeepTo(first)
  BY FirstFacts DEF Names, Layout, TreeOK, FirstOK
<1>2. ~Loops(first, p) /\ Contents(first, p) = first[Target(first, p)]
  BY <1>1 DEF Contents, Absent
<1>3. Target(first, p) \in Paths /\ Target(first, p) \in Hops(first, p)
  BY <1>1, HopsFacts
<1>4. Target(first, p) \in Libraries
  BY <1>1, <1>2, <1>3 DEF Libraries
<1>5. Target(first, p) \in Uncut
  BY <1>1, <1>3, <1>4 DEF Uncut, SparedLibs, Spared
<1>6. first[Target(first, p)] = Dylib(first[Target(first, p)].lib)
  BY <1>1, <1>4, FirstFacts
<1>7. ~IsTbd(p)
  BY <1>1, <1>3, <1>4, FirstFacts, SameKind
<1>8. Real(p) = p
  BY <1>1 DEF FirstOK
<1>9. IF first[p].is = "link" THEN p \in FirstLinks ELSE p = Target(first, p)
  BY <1>1, <1>7, <1>8, NotALink DEF FirstLinks
<1> QED BY <1>1, <1>2, <1>3, <1>5, <1>6, <1>7, <1>8, <1>9

\* A stub in its place is what its path leads to.
LEMMA StubbedIsWhole ==
  ASSUME Inv, Layout, NEW p \in Libraries, Stubbed(p)
  PROVE  disk[Tbd(p)].is # "link" /\ Whole(Tbd(p), first[p].lib)
<1>1. disk \in [Paths -> Nodes] /\ TreeOK /\ Tbd(p) \in Paths
  BY LibraryFacts DEF Inv, TypeOK, Layout, TreeOK
<1>2. disk[Tbd(p)].is = "text" /\ disk[Tbd(p)].lib = first[p].lib
  BY DEF Stubbed
<1>3. Real(Tbd(p)) = Tbd(p)
  BY <1>1, <1>2, TreeFacts DEF Absent
<1>4. Contents(disk, Tbd(p)) = disk[Tbd(p)]
  BY <1>1, <1>2, <1>3, NotALink
<1> QED BY <1>2, <1>4 DEF Whole

\* A link on the way to a library is a name of the library as well.
LEMMA OnTheWay ==
  ASSUME Inv, Layout, NEW p \in Names, NEW x \in Hops(first, p)
  PROVE  /\ first[x].is = "link" => x \in SparedLinks
         /\ first[x].is # "link" => x = Target(first, p)
         /\ Target(first, x) = Target(first, p) /\ Contents(first, x) = Contents(first, p)
<1>1. /\ p \in Paths /\ ~IsTbd(p) /\ ~Loops(first, p) /\ FirstOK
      /\ first \in [Paths -> Nodes] /\ LinksKeepTo(first)
  BY NameFacts, FirstFacts DEF Layout, TreeOK, FirstOK
<1>2. x \in Paths /\ ~IsTbd(x)
  BY <1>1, SameKind, HopsFacts
<1>3. Target(first, x) = Target(first, p) /\ Hops(first, x) \subseteq Hops(first, p)
  BY <1>1, WayFrom
<1>4. Contents(first, x) = Contents(first, p)
  BY <1>3 DEF Contents, Loops
<1>5. Spared(p) /\ Contents(first, p).is = "dylib"
  BY DEF Names
<1>6. Spared(x)
  BY <1>3, <1>5 DEF Spared
<1>7. first[x].is = "link" => x \in SparedLinks
  BY <1>2, <1>4, <1>5, <1>6 DEF SparedLinks, FirstLinks
<1>8. first[x].is # "link" => x = Target(first, p)
  BY <1>1, LastHop
<1> QED BY <1>3, <1>4, <1>7, <1>8

\* When every link on the way has its twin and the library has its stub, the twin of
\* the name leads to the stub.
LEMMA TwinsLead ==
  ASSUME Inv, Layout, NEW p \in Names, Stubbed(Target(first, p)),
         \A x \in Hops(first, p) : first[x].is = "link" => Twin(x)
  PROVE  Whole(Tbd(p), Contents(first, p).lib)
<1>1. PICK t \in Uncut : t = Target(first, p)
  BY NameFacts
<1>2. /\ p \in Paths /\ first \in [Paths -> Nodes] /\ disk \in [Paths -> Nodes] /\ t \in Libraries
      /\ Contents(first, p) = first[t]
  BY <1>1, NameFacts DEF Inv, TypeOK, Layout, TreeOK, FirstOK, Uncut, SparedLibs
<1>3. disk[Tbd(t)].is # "link" /\ disk[Tbd(t)].is = "text" /\ disk[Tbd(t)].lib = first[t].lib
  BY <1>1, <1>2, StubbedIsWhole DEF Stubbed
<1>4. \A x \in Hops(first, p) : IF first[x].is = "link" THEN disk[Tbd(x)] = Link(Tbd(first[x].to))
                                ELSE disk[Tbd(x)].is # "link"
  BY <1>1, <1>3, OnTheWay DEF Twin
<1>5. Target(disk, Tbd(p)) = Tbd(t)
  BY <1>1, <1>2, <1>4, TwinWay
<1>6. Contents(disk, Tbd(p)) = disk[Tbd(t)]
  BY <1>3, <1>5 DEF Contents, Loops
<1> QED BY <1>2, <1>3, <1>6 DEF Whole

\* No name of a library is ever lost, whatever call fails and wherever a run dies: the
\* name leads to the library, or its twin to a whole stub of it, or a link that the
\* name goes through leads to the library.
LEMMA KeptInState ==
  ASSUME Inv, Layout, StoodIn
  PROVE  NamesKept
<1> SUFFICES ASSUME NEW p \in Names
             PROVE  LET l == Contents(first, p).lib IN
                    \/ Contents(disk, p) = Dylib(l) \/ Whole(Tbd(p), l)
                    \/ \E q \in Hops(first, p) \ {p} : first[q].is = "link" /\ Contents(disk, q) = Dylib(l)
  BY DEF NamesKept
<1>1. PICK t \in Uncut : t = Target(first, p)
  BY NameFacts
<1>2. /\ p \in Paths /\ ~IsTbd(p) /\ first \in [Paths -> Nodes] /\ disk \in [Paths -> Nodes]
      /\ TreeOK /\ LinksKeepTo(first) /\ t \in Libraries /\ t \in Paths /\ ~IsTbd(t)
      /\ Contents(first, p) = first[t] /\ Contents(first, p) = Dylib(Contents(first, p).lib)
  BY <1>1, NameFacts, FirstFacts DEF Inv, TypeOK, Layout, TreeOK, FirstOK, Uncut, SparedLibs
<1>3. CASE Intact(p)
  <2>1. Contents(disk, p) = Contents(first, p)
    BY <1>2, <1>3, LeadsAsFirst
  <2> QED BY <1>2, <2>1
<1>4. CASE ~Intact(p) /\ first[p].is # "link"
  <2>1. p = t
    BY <1>1, <1>4, NameFacts
  <2>2. Hops(first, p) = {p}
    BY <1>2, <1>4, NameFacts, NotALink
  <2>3. disk[p] = Absent
    BY <1>2, <1>4, <2>2, TreeFacts DEF Intact
  <2>4. Stubbed(t)
    BY <2>1, <2>3 DEF StoodIn, KeptOK
  <2> QED BY <1>2, <2>1, <2>4, StubbedIsWhole
<1>5. CASE ~Intact(p) /\ first[p].is = "link" /\ opts.file = None
  <2>1. p \in SparedLinks
    BY <1>5, NameFacts DEF SparedLinks, Names
  <2>2. Stubbed(t) /\ Twin(p)
    BY <1>1, <1>5, <2>1 DEF StoodIn, KeptOK
  <2>3. CASE \A x \in Hops(first, p) : first[x].is = "link" => Twin(x)
    BY <1>1, <2>2, <2>3, TwinsLead
  <2>4. CASE \E x \in Hops(first, p) : first[x].is = "link" /\ ~Twin(x)
    <3>1. PICK x \in Hops(first, p) : first[x].is = "link" /\ ~Twin(x)
      BY <2>4
    <3>2. x \in SparedLinks /\ Contents(first, x) = Contents(first, p)
      BY <3>1, OnTheWay
    <3>3. Intact(x) /\ x \in Paths /\ ~IsTbd(x)
      BY <1>2, <1>5, <3>1, <3>2, SparedLinkFacts DEF StoodIn, KeptOK, TreeOK
    <3>4. Contents(disk, x) = Contents(first, p)
      BY <1>2, <3>2, <3>3, LeadsAsFirst
    <3>5. x # p
      BY <2>2, <3>1
    <3> QED BY <1>2, <3>1, <3>4, <3>5
  <2> QED BY <2>3, <2>4
<1>6. CASE ~Intact(p) /\ first[p].is = "link" /\ opts.file # None
  <2>1. PICK x \in Hops(first, p) : disk[x] # first[x]
    BY <1>6 DEF Intact
  <2>2. x \in Paths /\ ~IsTbd(x)
    BY <1>2, <2>1, SameKind, HopsFacts
  <2>3. x = Target(first, opts.file) /\ x \in Libraries
    BY <1>6, <2>1, <2>2 DEF StoodIn, FileOK
  <2>4. x = p
    BY <1>6, <2>3, NameFacts
  <2> QED BY <1>6, <2>3, <2>4 DEF Libraries
<1> QED BY <1>3, <1>4, <1>5, <1>6

THEOREM NoNameIsLost ==
  ASSUME TidyInputs
  PROVE  Spec => []NamesKept
<1>1. Inv /\ Layout /\ StoodIn => NamesKept
  BY KeptInState
<1>2. Spec => [](Inv /\ Layout /\ StoodIn)
  BY StoodInInvariance
<1> QED BY <1>1, <1>2, PTL

\* After a run that succeeds, the first one or one that takes up what a failed run left,
\* the twin of every name leads to a whole stub.
LEMMA MirroredInState ==
  ASSUME Inv, Layout, StoodIn
  PROVE  Mirrored
<1> SUFFICES ASSUME pc = "done", NEW p \in Names PROVE Whole(Tbd(p), Contents(first, p).lib)
  BY DEF Mirrored
<1>1. PICK t \in Uncut : t = Target(first, p)
  BY NameFacts
<1>2. Contents(first, p) = first[t] /\ t \in Libraries /\ FirstOK
  BY <1>1, NameFacts DEF Uncut, SparedLibs, Layout, TreeOK
<1>3. CASE opts.file = None
  <2>1. Stubbed(t)
    BY <1>3 DEF StoodIn, MirrorOK
  <2>2. \A x \in Hops(first, p) : first[x].is = "link" => Twin(x)
    BY <1>3, OnTheWay DEF StoodIn, MirrorOK
  <2> QED BY <1>1, <2>1, <2>2, TwinsLead
<1>4. CASE opts.file # None
  <2>1. p = Target(first, opts.file) /\ p \in Paths /\ ~IsTbd(p)
    BY <1>4, NameFacts
  <2>2. ~IsTbd(opts.file)
    <3>1. opts.file \in Paths /\ first \in [Paths -> Nodes] /\ LinksKeepTo(first)
      BY <1>2, <1>4, FirstFacts DEF Inv, Options, FirstOK
    <3> QED BY <2>1, <3>1, SameKind, HopsFacts
  <2>3. p \in Libraries /\ (p \in Uncut => Stubbed(p))
    BY <1>4, <2>1, <2>2 DEF StoodIn, FileOK
  <2>4. p = t
    BY <1>1, <2>3, NameFacts DEF Libraries
  <2> QED BY <1>2, <2>3, <2>4, StubbedIsWhole
<1> QED BY <1>3, <1>4

THEOREM EveryNameIsMirrored ==
  ASSUME TidyInputs
  PROVE  Spec => []Mirrored
<1>1. Inv /\ Layout /\ StoodIn => Mirrored
  BY MirroredInState
<1>2. Spec => [](Inv /\ Layout /\ StoodIn)
  BY StoodInInvariance
<1> QED BY <1>1, <1>2, PTL

-----------------------------------------------------------------------------
(* Pruned *)

\* What is written to a directory, or kept in it, keeps files in those it is in.
LEMMA StillHasFiles ==
  ASSUME NEW d, HasFiles(d, disk),
         \A p \in Paths : disk[p] # Absent => \E q \in Paths : q[1] = p[1] /\ disk'[q] # Absent
  PROVE  HasFiles(d, disk')
BY DEF HasFiles

\* Only while the deletions go on is there a directory to be removed, and what is above
\* one whose removal was cut off was to be removed after it.
RemovalOK ==
  /\ dir # None => pc = "delete"
  /\ \A d \in abandoned : Above[d] \subseteq abandoned

LEMMA AboveFacts ==
  ASSUME NEW d \in Dirs
  PROVE  /\ d \in Above[d] /\ Above[d] \subseteq Dirs
         /\ \A e \in Above[d] : Above[e] \subseteq Above[d]
         /\ \A b \in Dirs : d \in Above[b] /\ b \in Above[d] => b = d
<1>1. /\ d \in Above[d] /\ Above[d] \subseteq Dirs
      /\ \A b \in Dirs : \A e \in Above[b] : Above[e] \subseteq Above[b]
  BY TreeAssumption
<1>2. ASSUME NEW b \in Dirs, d \in Above[b], b \in Above[d], b # d PROVE FALSE
  <2>1. PICK e \in Above[d] \ {d} : Above[e] = Above[d] \ {d}
    BY <1>2, TreeAssumption
  <2>2. e \in Dirs /\ b \in Above[e]
    BY <1>1, <1>2, <2>1
  <2>3. Above[b] \subseteq Above[e]
    BY <1>1, <2>2
  <2> QED BY <1>2, <2>1, <2>3
<1> QED BY <1>1, <1>2

LEMMA RemovalStep ==
  ASSUME Inv, RemovalOK, [Next]_vars
  PROVE  RemovalOK'
<1>1. CASE Begin \/ Crash
  <2>1. dir' = None
    BY <1>1 DEF Begin, Crash, Fresh
  <2>2. \A d \in Remaining : Above[d] \subseteq Remaining
    BY AboveFacts DEF Remaining, Inv, TypeOK
  <2>3. abandoned' = abandoned \/ abandoned' = abandoned \cup Remaining
    BY <1>1 DEF Begin, Crash
  <2> QED BY <2>1, <2>2, <2>3 DEF RemovalOK
<1>2. CASE RemoveDirectory
  <2>1. pc' = "delete" /\ (abandoned' = abandoned \/ abandoned' = abandoned \cup Remaining)
    BY <1>2 DEF RemoveDirectory
  <2>2. \A d \in Remaining : Above[d] \subseteq Remaining
    BY AboveFacts DEF Remaining, Inv, TypeOK
  <2> QED BY <2>1, <2>2 DEF RemovalOK
<1>3. CASE Delete
  BY <1>3 DEF Delete, RemovalOK, history, Fail
<1>4. CASE \/ Scan \/ Scanned \/ Convert \/ inlineFrameworks \/ WriteFile \/ RemoveLink \/ CreateLink
           \/ Converted \/ AllConverted \/ Deleted \/ ReadInput \/ DeleteInput \/ UNCHANGED vars
  <2>1. UNCHANGED <<dir, abandoned>>
    BY <1>4 DEF Scan, Scanned, Convert, inlineFrameworks, WriteFile, RemoveLink, CreateLink,
       Converted, AllConverted, Deleted, ReadInput, DeleteInput, vars, history
  <2>2. pc = "delete" => pc' = pc \/ dir = None
    <3>1. CASE inlineFrameworks
      BY <3>1, InlineStep DEF inlineFrameworks
    <3> QED BY <1>4, <3>1 DEF Scan, Scanned, Convert, WriteFile, RemoveLink, CreateLink,
            Converted, AllConverted, Deleted, ReadInput, DeleteInput, vars
  <2> QED BY <2>1, <2>2 DEF RemovalOK
<1> QED BY <1>1, <1>2, <1>3, <1>4 DEF Next, Step

\* A step that removes no directory, and leaves files where there were some.
LEMMA PrunedSame ==
  ASSUME Pruned, UNCHANGED <<opts, first>>, dirs' = dirs,
         Remaining \cup abandoned \subseteq Remaining' \cup abandoned',
         \A p \in Paths : disk[p] # Absent => \E q \in Paths : q[1] = p[1] /\ disk'[q] # Absent
  PROVE  Pruned'
<1>1. \A d : HasFiles(d, disk) => HasFiles(d, disk')
  BY StillHasFiles
<1>2. \A d : HasFiles(d, first)' <=> HasFiles(d, first)
  BY DEF HasFiles
<1> QED BY <1>1, <1>2 DEF Pruned

\* A directory that is removed was the first of those that still had their turn; one that
\* is not has files below it, and so have those it is in.
LEMMA PrunedRemoveDirectory ==
  ASSUME Inv, RemovalOK, Pruned, RemoveDirectory
  PROVE  Pruned'
<1>1. /\ dir \in Dirs /\ dir # None /\ UNCHANGED <<disk, opts, first>>
      /\ Remaining = Above[dir] /\ dirs \subseteq Dirs
  BY DEF RemoveDirectory, Inv, TypeOK, input, Remaining
<1>2. CASE Empty(dir) /\ dirs' = dirs \ {dir} /\ dir' = ParentPath(dir) /\ UNCHANGED abandoned
  <2>1. Remaining' = Above[dir] \ {dir}
    <3>1. CASE ParentPath(dir) = None
      <4>1. Above[dir] = {dir} \/ \E e \in Above[dir] \ {dir} : Above[e] = Above[dir] \ {dir}
        BY <1>1, TreeAssumption
      <4>2. Above[dir] = {dir}
        <5> SUFFICES ASSUME Above[dir] # {dir} PROVE FALSE
          OBVIOUS
        <5>1. ParentPath(dir) \in Above[dir]
          BY <4>1 DEF ParentPath
        <5>2. ParentPath(dir) \in Dirs
          BY <1>1, <5>1, AboveFacts
        <5> QED BY <3>1, <5>2, TreeAssumption
      <4> QED BY <1>2, <3>1, <4>2 DEF Remaining
    <3>2. CASE ParentPath(dir) # None
      <4>1. Above[ParentPath(dir)] = Above[dir] \ {dir}
        BY <1>1, <3>2, ParentFacts
      <4> QED BY <1>2, <3>2, <4>1 DEF Remaining
    <3> QED BY <3>1, <3>2
  <2>2. dirs' \ (Remaining' \cup abandoned') \subseteq dirs \ (Remaining \cup abandoned)
    BY <1>1, <1>2, <2>1
  <2> QED BY <1>1, <2>2 DEF Pruned, HasFiles
<1>3. CASE ~Empty(dir) /\ dir' = None /\ UNCHANGED <<dirs, abandoned>>
  <2>1. SUFFICES ASSUME opts.file = None, NEW d \in dirs, d \notin abandoned,
                        \A b \in Dirs : d \in Above[b] => HasFiles(b, first)
                 PROVE  HasFiles(d, disk)
    BY <1>1, <1>3 DEF Pruned, HasFiles
  <2>2. CASE d \notin Remaining
    BY <2>1, <2>2 DEF Pruned
  <2>3. CASE d \in Above[dir]
    <3>1. CASE \E p \in Paths : p[1] = dir /\ disk[p] # Absent
      BY <2>3, <3>1 DEF HasFiles
    <3>2. CASE \E b \in dirs \ {dir} : dir \in Above[b]
      <4>1. PICK b \in dirs \ {dir} : dir \in Above[b]
        BY <3>2
      <4>2. b \in Dirs /\ d \in Above[b]
        BY <1>1, <2>3, <4>1, AboveFacts
      <4>3. b \notin Remaining
        BY <1>1, <4>1, <4>2, AboveFacts
      <4>4. b \notin abandoned
        BY <2>1, <4>2 DEF RemovalOK
      <4>5. \A c \in Dirs : b \in Above[c] => d \in Above[c]
        BY <4>2, AboveFacts
      <4>6. HasFiles(b, disk)
        BY <2>1, <4>1, <4>3, <4>4, <4>5 DEF Pruned
      <4>7. \A p \in Paths : p[1] \in Dirs
        BY TreeAssumption
      <4> QED BY <4>5, <4>6, <4>7 DEF HasFiles
    <3> QED BY <1>3, <3>1, <3>2 DEF Empty
  <2> QED BY <1>1, <2>2, <2>3
<1>4. CASE dir' = None /\ abandoned' = abandoned \cup Remaining /\ UNCHANGED dirs
  BY <1>1, <1>4, PrunedSame
<1> QED BY <1>2, <1>3, <1>4 DEF RemoveDirectory

LEMMA PrunedStep ==
  ASSUME Inv, Layout, RemovalOK, Pruned, [Next]_vars
  PROVE  Pruned'
<1>1. disk \in [Paths -> Nodes] /\ disk' \in [Paths -> Nodes] /\ UNCHANGED <<opts, first>>
  BY InvStep DEF Inv, TypeOK, Next, Step, Begin, Crash, Scan, Scanned, Convert, inlineFrameworks,
     WriteFile, RemoveLink, CreateLink, Converted, AllConverted, Delete, RemoveDirectory, Deleted,
     ReadInput, DeleteInput, vars, tree, input, history
<1>2. CASE /\ UNCHANGED <<dirs, dir, abandoned>>
           /\ \A p \in Paths : disk[p] # Absent => \E q \in Paths : q[1] = p[1] /\ disk'[q] # Absent
  <2>1. Remaining' = Remaining
    BY <1>2 DEF Remaining
  <2> QED BY <1>1, <1>2, <2>1, PrunedSame
<1>3. CASE UNCHANGED <<tree, dir, abandoned>>
  BY <1>1, <1>2, <1>3 DEF tree
<1>4. CASE Begin \/ Crash
  <2>1. dir' = None /\ UNCHANGED <<disk, dirs>> /\ abandoned \subseteq abandoned'
    BY <1>4 DEF Begin, Crash, Fresh, tree
  <2>2. Remaining \subseteq abandoned'
    <3>1. CASE Begin
      BY <3>1 DEF Begin, RemovalOK, Remaining, Ended
    <3>2. CASE Crash
      BY <3>2 DEF Crash
    <3> QED BY <1>4, <3>1, <3>2
  <2> QED BY <1>1, <2>1, <2>2, PrunedSame
<1>5. CASE WriteFile
  <2>1. PICK n \in {stub, Part(stack[1].lib), Damaged, Other} :
          disk' = disk \/ \E r : disk' = [disk EXCEPT ![r] = n]
    BY <1>5 DEF WriteFile
  <2>2. n # Absent
    BY <2>1 DEF stub, Text, Part, Damaged, Other, Absent
  <2>3. \A p \in Paths : disk[p] # Absent => disk'[p] # Absent
    BY <1>1, <2>1, <2>2
  <2> QED BY <1>2, <1>5, <2>3 DEF WriteFile
<1>6. CASE CreateLink
  <2>1. PICK r, n : n = Link(TwinTarget) /\ (disk' = disk \/ disk' = [disk EXCEPT ![r] = n])
    BY <1>6 DEF CreateLink
  <2>2. n # Absent
    BY <2>1 DEF Link, Absent
  <2>3. \A p \in Paths : disk[p] # Absent => disk'[p] # Absent
    BY <1>1, <2>1, <2>2
  <2> QED BY <1>2, <1>6, <2>3 DEF CreateLink, history
<1>7. CASE RemoveLink
  <2>0. UNCHANGED <<dirs, dir, abandoned>>
    BY <1>7 DEF RemoveLink, history
  <2>1. CASE disk' = disk
    BY <1>2, <2>0, <2>1
  <2>2. CASE \E y \in links : disk' = [disk EXCEPT ![Tbd(y.src)] = Absent]
    <3>1. PICK y \in links : disk' = [disk EXCEPT ![Tbd(y.src)] = Absent]
      BY <2>2
    <3>2. y \in symlinks /\ y.target = originalNames[current] /\ pc = "relink"
      BY <1>7 DEF RemoveLink, Inv, TypeOK, Layout, CurrentOK
    <3>3. /\ y.src \in FirstLinks /\ Intact(y.src) /\ Real(y.src) = y.src /\ y.src \in Paths
          /\ ~IsTbd(y.src) /\ IsTbd(Tbd(y.src))
      BY <3>2, RelinkFacts
    <3>4. y.src \in Hops(first, y.src)
      BY <3>3, HopsFacts DEF Layout, TreeOK, FirstOK
    <3>5. disk[y.src].is = "link"
      BY <3>3, <3>4 DEF Intact, FirstLinks
    <3>6. disk'[y.src] # Absent /\ Tbd(y.src)[1] = y.src[1]
      BY <1>1, <3>1, <3>3, <3>5, TbdFacts DEF Absent
    <3>7. \A p \in Paths : disk[p] # Absent => \E q \in Paths : q[1] = p[1] /\ disk'[q] # Absent
      BY <1>1, <3>1, <3>3, <3>6
    <3> QED BY <1>2, <2>0, <3>7
  <2> QED BY <1>7, <2>1, <2>2 DEF RemoveLink
<1>8. CASE Delete
  <2>1. UNCHANGED <<dirs, abandoned>> /\ dir = None
    BY <1>8 DEF Delete, history
  <2>2. CASE UNCHANGED <<disk, dir>>
    BY <1>3, <2>1, <2>2 DEF tree
  <2>3. CASE \E d \in toDelete : disk' = [disk EXCEPT ![d[1]] = Absent] /\ dir' = d[1][1]
    <3>1. PICK d \in toDelete : disk' = [disk EXCEPT ![d[1]] = Absent] /\ dir' = d[1][1]
      BY <2>3
    <3>2. PICK f : f = d[1]
      OBVIOUS
    <3>3. f \in Paths /\ f[1] \in Dirs
      BY <3>2, TreeAssumption DEF Inv, TypeOK
    <3>4. Remaining = {} /\ Remaining' = Above[f[1]]
      BY <2>1, <3>1, <3>2, <3>3, TreeAssumption DEF Remaining
    <3>5. SUFFICES ASSUME opts.file = None, NEW e \in dirs, e \notin Above[f[1]], HasFiles(e, disk)
                   PROVE  HasFiles(e, disk')
      BY <1>1, <2>1, <3>4 DEF Pruned, HasFiles
    <3>6. \A p \in Paths : e \in Above[p[1]] => disk'[p] = disk[p]
      BY <1>1, <3>1, <3>2, <3>5
    <3> QED BY <3>5, <3>6 DEF HasFiles
  <2> QED BY <1>8, <2>2, <2>3 DEF Delete
<1>9. CASE DeleteInput
  BY <1>1, <1>9 DEF DeleteInput, Layout, CurrentOK, Pruned
<1>10. CASE RemoveDirectory
  BY <1>10, PrunedRemoveDirectory
<1>11. CASE \/ Scan \/ Scanned \/ Convert \/ inlineFrameworks \/ Converted \/ AllConverted \/ Deleted
            \/ ReadInput \/ UNCHANGED vars
  BY <1>3, <1>11 DEF Scan, Scanned, Convert, inlineFrameworks, Converted, AllConverted, Deleted,
     ReadInput, vars, history
<1> QED BY <1>4, <1>5, <1>6, <1>7, <1>8, <1>9, <1>10, <1>11 DEF Next, Step

\* A directory without files, but for one that had none to begin with and those that it
\* is in, is about to be removed, or was when the process died or the removal failed.
THEOREM NothingEmptyIsLeft ==
  ASSUME TidyInputs
  PROVE  Spec => []Pruned
<1>1. Init => Pruned /\ RemovalOK
  <2> SUFFICES ASSUME Init PROVE Pruned /\ RemovalOK
    OBVIOUS
  <2>1. first = disk /\ dirs = Dirs /\ \A d \in Dirs : d \in Above[d]
    BY TreeAssumption DEF Init
  <2>2. dir = None /\ abandoned = {}
    BY DEF Init
  <2> QED BY <2>1, <2>2 DEF Pruned, RemovalOK
<1>2. Inv /\ RemovalOK /\ [Next]_vars => RemovalOK'
  BY RemovalStep
<1>3. Inv /\ Layout /\ RemovalOK /\ Pruned /\ [Next]_vars => Pruned'
  BY PrunedStep
<1>4. Spec => [](Inv /\ Layout)
  BY LayoutInvariance
<1> QED BY <1>1, <1>2, <1>3, <1>4, PTL DEF Spec

=============================================================================
