------------------------- MODULE StubifyLinksProofs -------------------------
(* Proofs about the links that a run of Stubify leaves, for any tidy tree. *)
EXTENDS StubifyTreeProofs

-----------------------------------------------------------------------------
(* More about following links *)

\* Of some links that a way meets there is a last one; the way goes on without them.
LEMMA LastOfThem ==
  ASSUME NEW d \in [Paths -> Nodes], NEW p \in Paths, ~Loops(d, p), NEW S,
         \A x \in S : d[x].is = "link", S \cap Hops(d, p) # {}
  PROVE  \E w \in S \cap Hops(d, p) : /\ Real(d[w].to) \in Hops(d, p)
                                      /\ Hops(d, Real(d[w].to)) \cap S = {}
<1>1. MaxLinks \in Nat
  BY TreeAssumption
<1>2. PICK f : /\ f[0] = p /\ \A k \in 0 .. MaxLinks : f[k] \in Paths
               /\ \A k \in 1 .. MaxLinks : f[k] = Hop(d, f[k - 1])
               /\ Target(d, p) = Real(f[MaxLinks])
               /\ Hops(d, p) = {Real(f[k]) : k \in 0 .. MaxLinks}
  BY TheChain
<1> DEFINE Met == {m \in 0 .. MaxLinks : Real(f[MaxLinks - m]) \in S}
<1>3. PICK m \in Met : \A n \in Met : m <= n
  <2>1. PICK k \in 0 .. MaxLinks : Real(f[k]) \in S
    BY <1>2
  <2>2. MaxLinks - k \in 0 .. MaxLinks /\ MaxLinks - (MaxLinks - k) = k
    BY <1>1
  <2>3. MaxLinks - k \in Met
    BY <2>1, <2>2
  <2>4. Met \in SUBSET Nat
    BY <1>1
  <2> HIDE DEF Met
  <2> QED BY <2>3, <2>4, Least
<1>4. d[Real(f[MaxLinks])].is # "link"
  BY <1>2 DEF Loops
<1>5. m # 0
  BY <1>1, <1>3, <1>4
<1>6. PICK i \in 0 .. MaxLinks : i = MaxLinks - m
  BY <1>1, <1>3
<1>7. PICK n \in 0 .. MaxLinks : n = m - 1
  BY <1>1, <1>3, <1>5
<1>8. i + 1 \in 1 .. MaxLinks /\ i + 1 \in 0 .. MaxLinks /\ (i + 1) - 1 = i /\ (i + 1) + n = MaxLinks
  BY <1>1, <1>3, <1>5, <1>6, <1>7
<1>9. PICK w : w = Real(f[i])
  OBVIOUS
<1>10. w \in S /\ w \in Hops(d, p) /\ d[w].is = "link"
  BY <1>2, <1>3, <1>6, <1>9
<1>11. f[i + 1] = Hop(d, f[i]) /\ f[i] \in Paths
  BY <1>2, <1>6, <1>8
<1>12. f[i + 1] = d[w].to
  BY <1>9, <1>10, <1>11, RealHop
<1>13. PICK j \in 0 .. MaxLinks : j = i + 1
  BY <1>8
<1>14. PICK u : u = Real(d[w].to)
  OBVIOUS
<1>15. u = Real(f[j]) /\ u \in Hops(d, p) /\ u \in Paths
  BY <1>2, <1>12, <1>13, <1>14, HopsFacts
<1>16. PICK g : /\ g[0] = u /\ \A k \in 0 .. MaxLinks : g[k] \in Paths
                /\ \A k \in 1 .. MaxLinks : g[k] = Hop(d, g[k - 1])
                /\ Target(d, u) = Real(g[MaxLinks])
                /\ Hops(d, u) = {Real(g[k]) : k \in 0 .. MaxLinks}
  BY <1>15, TheChain
<1>17. Real(g[0]) = Real(f[j]) /\ j + n = MaxLinks
  BY <1>8, <1>13, <1>15, <1>16, HopsFacts
<1>18. \A k \in 0 .. n : Real(g[k]) = Real(f[j + k])
  BY <1>2, <1>16, <1>17, SameTail
<1>19. ASSUME NEW k \in 0 .. n PROVE Real(g[k]) \notin S
  <2>1. /\ j + k \in 0 .. MaxLinks /\ MaxLinks - (j + k) \in 0 .. MaxLinks
        /\ MaxLinks - (MaxLinks - (j + k)) = j + k /\ ~(m <= MaxLinks - (j + k))
    BY <1>1, <1>3, <1>6, <1>7, <1>8, <1>13
  <2>2. MaxLinks - (j + k) \notin Met
    BY <1>3, <2>1
  <2> QED BY <1>18, <2>1, <2>2
<1>20. Real(g[n]) = Real(f[MaxLinks])
  BY <1>1, <1>17, <1>18
<1>21. \A k \in n .. MaxLinks : Real(g[k]) = Real(g[n])
  BY <1>4, <1>16, <1>20, ChainEnds
<1>22. \A k \in 0 .. MaxLinks : Real(g[k]) \notin S
  <2>1. \A k \in 0 .. MaxLinks : k \in 0 .. n \/ k \in n .. MaxLinks
    BY <1>1
  <2>2. n \in 0 .. n
    BY <1>1
  <2> QED BY <1>19, <1>21, <2>1, <2>2
<1>23. u \in Hops(d, p) /\ Hops(d, u) \cap S = {}
  BY <1>15, <1>16, <1>22
<1> HIDE DEF Met
<1> QED BY <1>10, <1>14, <1>23

\* If not every link of a way has its twin, the twin of the way comes to the place of
\* a twin that is missing.
LEMMA TwinMeets ==
  ASSUME NEW d \in [Paths -> Nodes], NEW e \in [Paths -> Nodes], NEW p \in Paths, NEW Good,
         \A x \in Hops(d, p) : d[x].is = "link" /\ x \in Good => e[Tbd(x)] = Link(Tbd(d[x].to)),
         NEW y \in Hops(d, p), d[y].is = "link", y \notin Good
  PROVE  \E z \in Hops(d, p) : d[z].is = "link" /\ z \notin Good /\ Tbd(z) \in Hops(e, Tbd(p))
<1>1. MaxLinks \in Nat /\ Tbd(p) \in Paths
  BY TreeAssumption, PathFacts
<1>2. PICK f : /\ f[0] = p /\ \A k \in 0 .. MaxLinks : f[k] \in Paths
               /\ \A k \in 1 .. MaxLinks : f[k] = Hop(d, f[k - 1])
               /\ Target(d, p) = Real(f[MaxLinks])
               /\ Hops(d, p) = {Real(f[k]) : k \in 0 .. MaxLinks}
  BY TheChain
<1>3. PICK g : /\ g[0] = Tbd(p) /\ \A k \in 0 .. MaxLinks : g[k] \in Paths
               /\ \A k \in 1 .. MaxLinks : g[k] = Hop(e, g[k - 1])
               /\ Target(e, Tbd(p)) = Real(g[MaxLinks])
               /\ Hops(e, Tbd(p)) = {Real(g[k]) : k \in 0 .. MaxLinks}
  BY <1>1, TheChain
<1> DEFINE Lost == {k \in 0 .. MaxLinks : d[Real(f[k])].is = "link" /\ Real(f[k]) \notin Good}
<1>4. PICK i \in Lost : \A m \in Lost : i <= m
  <2>1. Lost # {}
    BY <1>2
  <2> HIDE DEF Lost
  <2>2. Lost \in SUBSET Nat
    BY <1>1 DEF Lost
  <2> QED BY <2>1, <2>2, Least
<1> DEFINE Bad == {k \in 0 .. i : Real(g[k]) # Tbd(Real(f[k]))}
<1>5. ASSUME Bad # {} PROVE FALSE
  <2>1. PICK k \in Bad : \A m \in Bad : k <= m
    <3>0. i \in Nat
      BY <1>1, <1>4
    <3> HIDE DEF Bad
    <3>1. Bad \in SUBSET Nat
      BY <3>0 DEF Bad
    <3> QED BY <1>5, <3>1, Least
  <2>2. k # 0
    BY <1>2, <1>3, <2>1, TbdFacts
  <2>3. /\ k \in 1 .. MaxLinks /\ k - 1 \in 0 .. i /\ k - 1 \in 0 .. MaxLinks
        /\ k - 1 \notin Bad /\ ~(i <= k - 1) /\ i \in (k - 1) .. MaxLinks
    BY <1>1, <1>4, <2>1, <2>2
  <2>4. PICK x, z : x = f[k - 1] /\ z = g[k - 1]
    OBVIOUS
  <2>5. /\ x \in Paths /\ z \in Paths /\ Real(x) \in Hops(d, p) /\ Real(x) \in Paths
        /\ Real(z) = Tbd(Real(x)) /\ f[k] = Hop(d, x) /\ g[k] = Hop(e, z)
    BY <1>2, <1>3, <2>3, <2>4, PathFacts
  <2>6. d[Real(x)].is = "link"
    <3> SUFFICES ASSUME d[Real(x)].is # "link" PROVE FALSE
      OBVIOUS
    <3>1. Real(f[i]) = Real(f[k - 1])
      BY <1>2, <2>3, <2>4, ChainEnds
    <3> QED BY <1>4, <2>4, <3>1
  <2>7. Real(x) \in Good
    BY <1>4, <2>3, <2>4, <2>6
  <2>8. f[k] = d[Real(x)].to /\ d[Real(x)].to \in Paths
    BY <2>5, <2>6, RealHop
  <2>9. e[Real(z)] = Link(Tbd(d[Real(x)].to))
    BY <2>5, <2>6, <2>7
  <2>10. e[Real(z)].is = "link" /\ e[Real(z)].to = Tbd(f[k])
    BY <2>8, <2>9 DEF Link
  <2>11. g[k] = Tbd(f[k])
    BY <2>5, <2>10, RealHop
  <2>12. Real(g[k]) = Tbd(Real(f[k]))
    BY <2>8, <2>11, TbdFacts
  <2> QED BY <2>1, <2>12
<1>6. i \in 0 .. i /\ i \in 0 .. MaxLinks
  BY <1>1, <1>4
<1>7. Real(g[i]) = Tbd(Real(f[i]))
  BY <1>5, <1>6
<1> QED BY <1>2, <1>3, <1>4, <1>6, <1>7
-----------------------------------------------------------------------------
(* The first run *)

\* A link that the command line does not exclude, to a library that it does not either:
\* one that gets a twin.
Excluded(p) == opts.deletePrivate /\ Private(p)
PublicLinks == {q \in FirstLinks : ~Excluded(q) /\ Target(first, q) \in SparedLibs}

FirstRun == opts.file = None /\ runs = 1
Deleting == {"delete", "done"}
Working == {"scan", "next"} \cup Converting \cup Deleting

\* Until the deletions, the inputs are as they were; no write is cut short.
StartOK ==
  /\ runs = 0 => pc = "idle" /\ cut = {}
  /\ pc = "idle" => runs = 0 /\ disk = first
  /\ FirstRun /\ pc # "crashed" => cut = {}
  /\ FirstRun /\ pc = "scan" => disk = first
  /\ FirstRun /\ pc \in {"scan", "next"} \cup Converting =>
       \A p \in Paths : ~IsTbd(p) => disk[p] = first[p]

\* The scan has recorded every link that leads to something, or marked it for deletion.
SeenOK ==
  FirstRun /\ pc \in Working =>
    /\ pc # "scan" => todo = {}
    /\ pc = "done" => toDelete = {}
    /\ \A q \in Paths : first[q].is = "link" /\ ~Loops(first, q) =>
         \/ q \in todo
         \/ IF Excluded(q) THEN <<q, FALSE>> \in toDelete \/ (pc \in Deleting /\ disk[q] = Absent)
            ELSE Exists(first, q) => Entry(q) \in symlinks
    /\ \A y \in symlinks : first[y.target].is # "link"

\* A link is one of the first, or a twin.
NewLinksOK ==
  \A x \in Paths : disk[x].is = "link" =>
    disk[x] = first[x] \/ \E q \in PublicLinks : x = Tbd(q) /\ Twin(q)

\* The inputs that are marked are libraries and links that have been stood in for.
InputsOK ==
  FirstRun /\ pc \in Working =>
    \A d \in toDelete : d[2] => opts.deleteInput /\ d[1] \in SparedLibs \cup PublicLinks

\* The links to what has been converted are marked as well.
Marked(y) == y \in links \/ (pc = "link" /\ y = link) \/ <<y.src, TRUE>> \in toDelete
MarkedOK ==
  FirstRun /\ pc \in {"next"} \cup Converting /\ opts.deleteInput =>
    \A s \in Stems : dylibs[s] # Absent =>
      \/ s \in left \/ (s = current /\ pc \in {"inline", "write"})
      \/ \A y \in symlinks : y.target = originalNames[s] => Marked(y)

\* When the deletions begin, every link has its twin.
TwinsOK ==
  FirstRun /\ pc \in Deleting =>
    \A q \in PublicLinks :
      Twin(q) /\ (opts.deleteInput => <<q, TRUE>> \in toDelete \/ disk[q] = Absent)

\* What has gone.
Reached(x) == \E y \in Paths : /\ first[y].is = "link" /\ ~Excluded(y) /\ Exists(first, y)
                               /\ Target(first, y) = x
GoneOK ==
  FirstRun /\ pc \in Working =>
    \A x \in Paths : disk[x] = Absent /\ first[x] # Absent =>
      \/ pc = "link" /\ x = Tbd(link.src)
      \/ pc \in Deleting /\ Excluded(x) /\ ~Reached(x)
      \/ pc \in Deleting /\ opts.deleteInput /\ x \in SparedLibs \cup PublicLinks

FirstRunOK == StartOK /\ SeenOK /\ NewLinksOK /\ InputsOK /\ MarkedOK /\ TwinsOK /\ GoneOK

\* What the tree is at first does not change.
LEMMA SameFirst ==
  ASSUME UNCHANGED <<opts, first>>
  PROVE  /\ FirstLinks' = FirstLinks /\ SparedLibs' = SparedLibs /\ PublicLinks' = PublicLinks
         /\ \A q : /\ (Excluded(q)' <=> Excluded(q)) /\ (Reached(q)' <=> Reached(q))
                   /\ Entry(q)' = Entry(q)
                   /\ (Loops(first, q)' <=> Loops(first, q))
                   /\ (Exists(first, q)' <=> Exists(first, q))
<1>1. FirstLinks' = FirstLinks /\ Libraries' = Libraries
  BY DEF FirstLinks, Libraries
<1>2. SparedLibs' = SparedLibs
  BY <1>1 DEF SparedLibs
<1>3. \A q : Excluded(q)' <=> Excluded(q)
  BY DEF Excluded
<1>4. PublicLinks' = PublicLinks
  BY <1>1, <1>2, <1>3 DEF PublicLinks
<1>5. \A q : Reached(q)' <=> Reached(q)
  BY <1>3 DEF Reached
<1>6. \A q : Entry(q)' = Entry(q)
  BY DEF Entry
<1> QED BY <1>1, <1>2, <1>3, <1>4, <1>5, <1>6

\* A link that gets a twin.
LEMMA PublicFacts ==
  ASSUME FirstOK, NEW q \in PublicLinks
  PROVE  /\ q \in FirstLinks /\ q \in Paths /\ first[q].is = "link" /\ ~IsTbd(q) /\ Real(q) = q
         /\ q \in Hops(first, q) /\ first[q].to \in Paths
         /\ Tbd(q) \in Paths /\ IsTbd(Tbd(q)) /\ Real(Tbd(q)) = Tbd(q)
         /\ ~Excluded(q) /\ ~Excluded(Tbd(q))
         /\ Target(first, q) \in SparedLibs /\ ~Loops(first, q) /\ Exists(first, q)
<1>1. q \in FirstLinks /\ Target(first, q) \in SparedLibs /\ ~Excluded(q)
  BY DEF PublicLinks
<1>2. q \in Paths /\ first[q].is = "link" /\ ~IsTbd(q) /\ first \in [Paths -> Nodes]
  BY <1>1 DEF FirstLinks, FirstOK
<1>3. Real(q) = q /\ first[q].to \in Paths
  BY <1>1, FirstFacts
<1>4. q \in Hops(first, q)
  BY <1>2, <1>3, HopsFacts
<1>5. Tbd(q) \in Paths /\ IsTbd(Tbd(q)) /\ Real(Tbd(q)) = Tbd(q) /\ ~Excluded(Tbd(q))
  BY <1>1, <1>2, <1>3, PathFacts, TbdFacts DEF Excluded
<1>6. first[Target(first, q)].is = "dylib"
  BY <1>1 DEF SparedLibs, Libraries
<1>7. ~Loops(first, q) /\ Exists(first, q)
  BY <1>6 DEF Loops, Exists, Contents, Absent
<1> QED BY <1>1, <1>2, <1>3, <1>4, <1>5, <1>7

LEMMA FirstRunInit ==
  ASSUME TidyInputs, Init
  PROVE  FirstRunOK
<1>1. pc = "idle" /\ runs = 0 /\ cut = {} /\ disk = first /\ ~FirstRun
  BY DEF Init, FirstRun
<1>2. StartOK
  BY <1>1 DEF StartOK
<1>3. NewLinksOK
  BY <1>1 DEF NewLinksOK
<1> QED BY <1>1, <1>2, <1>3 DEF FirstRunOK, SeenOK, InputsOK, MarkedOK, TwinsOK, GoneOK

\* A change that adds no link.
LEMMA NewLinksSame ==
  ASSUME NewLinksOK, UNCHANGED <<opts, first>>,
         \A x \in Paths : disk'[x].is = "link" => disk'[x] = disk[x]
  PROVE  NewLinksOK'
<1>1. PublicLinks' = PublicLinks
  BY SameFirst
<1>2. ASSUME NEW x \in Paths, disk'[x].is = "link"
      PROVE  disk'[x] = first[x] \/ \E q \in PublicLinks : x = Tbd(q) /\ Twin(q)'
  <2>1. disk'[x] = disk[x]
    BY <1>2
  <2>2. CASE disk[x] = first[x]
    BY <2>1, <2>2
  <2>3. CASE disk[x] # first[x]
    <3>1. PICK q \in PublicLinks : x = Tbd(q) /\ Twin(q)
      BY <1>2, <2>1, <2>3 DEF NewLinksOK
    <3>2. Twin(q)'
      BY <2>1, <3>1 DEF Twin
    <3> QED BY <3>1, <3>2
  <2> QED BY <2>2, <2>3
<1> QED BY <1>1, <1>2 DEF NewLinksOK

\* When a run ends early, or a later one begins, there is nothing more to say of the first.
LEMMA FirstRunOver ==
  ASSUME Inv, FirstRunOK, NewLinksOK', UNCHANGED opts, pc' # "idle", runs' \in Nat \ {0},
         FirstRun' => pc' \in {"failed", "crashed", "overflow"},
         FirstRun' /\ pc' # "crashed" => cut' = {}
  PROVE  FirstRunOK'
<1>1. StartOK'
  BY DEF StartOK, FirstRun, Converting
<1>2. FirstRun' => pc' \notin Working' /\ pc' \notin Deleting'
  BY DEF Working, Converting, Deleting
<1> QED BY <1>1, <1>2 DEF FirstRunOK, SeenOK, InputsOK, MarkedOK, TwinsOK, GoneOK, Working, Converting

LEMMA FirstRunBegin ==
  ASSUME Inv, Layout, FirstRunOK, Begin \/ Crash
  PROVE  FirstRunOK'
<1>1. /\ UNCHANGED <<disk, opts, first, cut>> /\ disk \in [Paths -> Nodes] /\ runs \in Nat
      /\ StartOK /\ NewLinksOK
  BY TreeAssumption DEF Begin, Crash, tree, input, history, Inv, TypeOK, FirstRunOK
<1>2. NewLinksOK'
  BY <1>1, NewLinksSame
<1>3. CASE Crash
  <2>1. pc # "idle" /\ runs' = runs /\ pc' = "crashed"
    BY <1>3 DEF Crash
  <2>2. runs # 0
    BY <1>1, <2>1 DEF StartOK
  <2> QED BY <1>1, <1>2, <2>1, <2>2, FirstRunOver
<1>4. CASE Begin /\ (runs # 0 \/ opts.file # None)
  <2>1. runs' = runs + 1 /\ pc' \in {"scan", "read"}
    BY <1>4 DEF Begin
  <2>2. runs' \in Nat \ {0} /\ ~FirstRun'
    BY <1>1, <1>4, <2>1 DEF FirstRun
  <2> QED BY <1>1, <1>2, <2>1, <2>2, FirstRunOver
<1>5. CASE Begin /\ runs = 0 /\ opts.file = None
  <2>1. /\ runs' = 1 /\ pc' = "scan" /\ disk = first /\ cut = {}
        /\ todo' = {p \in Paths : disk[p] # Absent} /\ symlinks' = {} /\ toDelete' = {}
    BY <1>1, <1>5 DEF Begin, Fresh, StartOK
  <2>2. StartOK'
    BY <1>1, <2>1 DEF StartOK, Converting
  <2>3. \A q \in Paths : first[q].is = "link" => q \in todo'
    BY <2>1 DEF Absent
  <2>4. SeenOK'
    BY <1>1, <2>1, <2>3 DEF SeenOK
  <2>5. InputsOK' /\ MarkedOK' /\ TwinsOK' /\ GoneOK'
    BY <1>1, <2>1 DEF InputsOK, MarkedOK, TwinsOK, GoneOK, Converting, Deleting
  <2> QED BY <1>2, <2>2, <2>4, <2>5 DEF FirstRunOK
<1> QED BY <1>3, <1>4, <1>5

\* A step of another run, or of a run that fails at it.
LEMMA FirstRunFails ==
  ASSUME Inv, Layout, FirstRunOK, UNCHANGED <<disk, opts, first, runs, cut>>, pc \notin {"idle", "crashed"},
         pc' # "idle", FirstRun => pc' \in {"failed", "crashed", "overflow"}
  PROVE  FirstRunOK'
<1>1. disk \in [Paths -> Nodes] /\ runs \in Nat /\ StartOK /\ NewLinksOK
  BY TreeAssumption DEF Inv, TypeOK, FirstRunOK
<1>2. NewLinksOK'
  BY <1>1, NewLinksSame
<1>3. runs' \in Nat \ {0} /\ (FirstRun' <=> FirstRun)
  BY <1>1 DEF StartOK, FirstRun
<1>4. FirstRun /\ pc # "crashed" => cut = {}
  BY <1>1 DEF StartOK
<1>5. FirstRun' /\ pc' # "crashed" => cut' = {}
  BY <1>1 DEF StartOK, FirstRun
<1> QED BY <1>2, <1>3, <1>5, FirstRunOver

LEMMA FirstRunScan ==
  ASSUME Inv, Layout, FirstRunOK, Scan
  PROVE  FirstRunOK'
<1>1. PICK p \in todo : /\ ScanPrivate(p) \/ ScanLink(p) \/ ScanFile(p) \/ ScanOther(p) \/ ScanError(p)
                        /\ todo' = todo \ {p}
  BY DEF Scan
<1>2. /\ pc = "scan" /\ p \in Paths /\ UNCHANGED <<disk, opts, first, cut, runs, left, current, links, link>>
      /\ disk \in [Paths -> Nodes] /\ pc' \in {"scan", "failed"} /\ symlinks \subseteq symlinks'
      /\ TreeOK /\ FirstOK
  <2>1. pc = "scan" /\ p \in Paths
    BY DEF Scan, Inv, TypeOK
  <2>2. pc' \in {"scan", "failed"} /\ symlinks \subseteq symlinks'
    BY <1>1, <2>1, ScanEntry
  <2> QED BY <2>1, <2>2 DEF Scan, tree, input, history, Inv, TypeOK, Layout, TreeOK
<1>3. CASE ~FirstRun \/ pc' = "failed"
  BY <1>2, <1>3, FirstRunFails
<1>4. CASE FirstRun /\ pc' = "scan"
  <2>1. disk = first /\ StartOK /\ SeenOK /\ NewLinksOK /\ InputsOK /\ first \in [Paths -> Nodes]
    BY <1>2, <1>4 DEF FirstRunOK, StartOK
  <2>2. FirstRun' /\ StartOK'
    BY <1>2, <1>4, <2>1 DEF StartOK, FirstRun, Converting
  <2>3. NewLinksOK'
    BY <1>2, <2>1, NewLinksSame
  <2>4. MarkedOK' /\ TwinsOK' /\ GoneOK'
    BY <1>2, <1>4, <2>1 DEF MarkedOK, TwinsOK, GoneOK, Converting, Deleting
  <2>5. toDelete' = toDelete \/ (ScanPrivate(p) /\ toDelete' = toDelete \cup {<<p, FALSE>>})
    BY <1>1 DEF ScanPrivate, ScanLink, ScanFile, ScanOther, ScanError
  <2>6. InputsOK'
    <3>1. \A d \in toDelete : d[2] => opts.deleteInput /\ d[1] \in SparedLibs \cup PublicLinks
      BY <1>2, <1>4, <2>1 DEF InputsOK, Working
    <3>2. SparedLibs' = SparedLibs /\ PublicLinks' = PublicLinks
      BY <1>2, SameFirst
    <3>3. ASSUME NEW d \in toDelete', d[2] PROVE opts.deleteInput /\ d[1] \in SparedLibs \cup PublicLinks
      <4>1. PICK e : e = <<p, FALSE>>
        OBVIOUS
      <4>2. ~e[2]
        BY <4>1
      <4>3. d \in toDelete
        BY <2>5, <3>3, <4>1, <4>2
      <4> QED BY <3>1, <3>3, <4>3
    <3> QED BY <1>2, <3>2, <3>3 DEF InputsOK
  <2>7. ASSUME NEW q \in Paths, first[q].is = "link", ~Loops(first, q), q \notin todo'
        PROVE  IF Excluded(q) THEN <<q, FALSE>> \in toDelete'
               ELSE Exists(first, q) => Entry(q) \in symlinks'
    <3>1. CASE q \notin todo
      <4>1. IF Excluded(q) THEN <<q, FALSE>> \in toDelete ELSE Exists(first, q) => Entry(q) \in symlinks
        BY <1>2, <1>4, <2>1, <2>7, <3>1 DEF SeenOK, Working, Deleting
      <4> QED BY <1>2, <2>5, <4>1
    <3>2. CASE q = p
      <4>1. disk[p].is = "link" /\ ~Loops(disk, p)
        BY <2>1, <2>7, <3>2
      <4>2. ~ScanFile(p) /\ ~ScanOther(p)
        BY <4>1 DEF ScanFile, ScanOther, Interface, Textual
      <4>3. ScanPrivate(p) \/ ScanLink(p)
        BY <1>1, <1>4, <4>2 DEF ScanError, Fail
      <4>4. CASE Excluded(p)
        <5>1. ScanPrivate(p)
          BY <4>1, <4>3, <4>4 DEF ScanLink, Excluded
        <5> QED BY <3>2, <4>4, <5>1 DEF ScanPrivate
      <4>5. CASE ~Excluded(p)
        <5>1. ScanLink(p)
          BY <4>3, <4>5 DEF ScanPrivate, Excluded
        <5>2. Exists(disk, p) => symlinks' = symlinks \cup {[target |-> Target(disk, p), src |-> p, to |-> disk[p].to]}
          BY <5>1 DEF ScanLink
        <5>3. Exists(first, p) => Entry(p) \in symlinks'
          BY <2>1, <5>2 DEF Entry
        <5> QED BY <3>2, <4>5, <5>3
      <4> QED BY <4>4, <4>5
    <3> QED BY <1>1, <2>7, <3>1, <3>2
  <2>8. ASSUME NEW y \in symlinks' PROVE first[y.target].is # "link"
    <3>1. CASE y \in symlinks
      BY <1>2, <1>4, <2>1, <3>1 DEF SeenOK, Working
    <3>2. CASE y \notin symlinks
      <4>1. ScanLink(p) /\ Exists(disk, p) /\ y = [target |-> Target(disk, p), src |-> p, to |-> disk[p].to]
        BY <1>1, <2>8, <3>2 DEF ScanPrivate, ScanLink, ScanFile, ScanOther, ScanError, scan
      <4>2. ~Loops(disk, p) /\ y.target = Target(disk, p)
        BY <4>1 DEF Exists, Contents
      <4> QED BY <2>1, <4>2 DEF Loops
    <3> QED BY <3>1, <3>2
  <2>9. SeenOK'
    <3>1. \A q : /\ (Excluded(q)' <=> Excluded(q)) /\ Entry(q)' = Entry(q)
                 /\ (Loops(first, q)' <=> Loops(first, q)) /\ (Exists(first, q)' <=> Exists(first, q))
      BY <1>2, SameFirst
    <3> QED BY <1>2, <1>4, <2>7, <2>8, <3>1 DEF SeenOK
  <2> QED BY <2>2, <2>3, <2>4, <2>6, <2>9 DEF FirstRunOK
<1> QED BY <1>2, <1>3, <1>4

\* What the scan has recorded stays so until the deletions.
LEMMA SeenSame ==
  ASSUME SeenOK, FirstRun, UNCHANGED <<opts, first, runs, todo, symlinks>>, todo = {},
         toDelete \subseteq toDelete', pc \in {"scan", "next"} \cup Converting,
         pc' \in {"next", "delete"} \cup Converting
  PROVE  SeenOK'
<1>1. \A q : /\ (Excluded(q)' <=> Excluded(q)) /\ Entry(q)' = Entry(q)
             /\ (Loops(first, q)' <=> Loops(first, q)) /\ (Exists(first, q)' <=> Exists(first, q))
  BY SameFirst
<1>2. pc \in Working /\ pc \notin Deleting /\ pc' \notin {"scan", "done"}
  BY DEF Working, Converting, Deleting
<1>3. \A q \in Paths : first[q].is = "link" /\ ~Loops(first, q) =>
        IF Excluded(q) THEN <<q, FALSE>> \in toDelete ELSE Exists(first, q) => Entry(q) \in symlinks
  BY <1>2 DEF SeenOK
<1>4. \A y \in symlinks : first[y.target].is # "link"
  BY <1>2 DEF SeenOK
<1> QED BY <1>1, <1>2, <1>3, <1>4 DEF SeenOK

LEMMA StartSame ==
  ASSUME StartOK, FirstRun, UNCHANGED <<opts, first, runs, cut>>,
         pc \in {"scan", "next"} \cup Converting, pc' \in {"next", "delete"} \cup Converting,
         InputsSame
  PROVE  StartOK' /\ FirstRun'
<1>1. pc \notin {"idle", "crashed"} /\ pc' \notin {"idle", "scan"} /\ FirstRun'
  BY DEF Converting, FirstRun
<1>2. \A p \in Paths : ~IsTbd(p) => disk'[p] = first[p]
  BY DEF StartOK, InputsSame
<1> QED BY <1>1, <1>2 DEF StartOK, FirstRun

\* Steps of the first run that remove nothing and make no link.
LEMMA FirstRunWorks ==
  ASSUME FirstRunOK, FirstRun, UNCHANGED <<opts, first, runs, cut, todo, symlinks>>, todo = {},
         toDelete \subseteq toDelete', pc \in {"scan", "next"} \cup (Converting \ {"link"}),
         pc' \in {"next", "delete"} \cup Converting, InputsSame,
         \A x \in Paths : disk'[x] = Absent => disk[x] = Absent,
         \A x \in Paths : disk'[x].is = "link" => disk'[x] = disk[x],
         InputsOK', MarkedOK', TwinsOK'
  PROVE  FirstRunOK'
<1>1. SeenOK' /\ StartOK'
  BY SeenSame, StartSame DEF FirstRunOK
<1>2. NewLinksOK'
  BY NewLinksSame DEF FirstRunOK
<1>3. GoneOK'
  <2>1. pc \in Working /\ pc # "link" /\ pc \notin Deleting
    BY DEF Working, Converting, Deleting
  <2>2. \A x \in Paths : disk[x] = Absent => first[x] = Absent
    BY <2>1 DEF FirstRunOK, GoneOK
  <2> QED BY <2>2 DEF GoneOK
<1> QED BY <1>1, <1>2, <1>3 DEF FirstRunOK

\* No input is marked but libraries and links that have been stood in for.
LEMMA InputsMarked ==
  ASSUME InputsOK, FirstRun => pc \in Working, UNCHANGED <<opts, first, runs>>,
         \A d \in toDelete' : \/ d \in toDelete
                              \/ opts.deleteInput /\ d[1] \in SparedLibs \cup PublicLinks
  PROVE  InputsOK'
<1>1. SparedLibs' = SparedLibs /\ PublicLinks' = PublicLinks /\ (FirstRun' <=> FirstRun)
  BY SameFirst DEF FirstRun
<1> QED BY <1>1 DEF InputsOK

LEMMA FirstRunConvert ==
  ASSUME Inv, Layout, StoodIn, FirstRunOK, Scanned \/ Convert \/ inlineFrameworks \/ Converted
  PROVE  FirstRunOK'
<1>1. /\ UNCHANGED <<disk, opts, first, runs, cut, todo, symlinks, dylibs, originalNames, toDelete>>
      /\ UNCHANGED <<links, link>>
      /\ \/ pc = "scan" /\ pc' = "next" /\ todo = {} /\ left' = {s \in Stems : dylibs[s] # Absent}
         \/ /\ pc = "next" /\ pc' \in {"inline", "write", "failed"}
            /\ current' \in left /\ left' = left \ {current'}
         \/ /\ pc = "inline" /\ pc' \in {"inline", "write", "failed", "overflow"}
            /\ UNCHANGED <<current, left>>
         \/ pc = "relink" /\ pc' = "next" /\ links = {} /\ UNCHANGED <<current, left>>
  <2>1. CASE Scanned \/ Converted
    BY <2>1 DEF Scanned, Converted, tree, input, scan, history
  <2>2. CASE Convert
    BY <2>2 DEF Convert, CallInline, Fail, tree, input, scan, history
  <2>3. CASE inlineFrameworks
    BY <2>3, InlineStep DEF inlineFrameworks, Fail, tree, input, scan, history
  <2> QED BY <2>1, <2>2, <2>3
<1>2. CASE ~FirstRun \/ pc' \in {"failed", "overflow"}
  BY <1>1, <1>2, FirstRunFails
<1>3. CASE FirstRun /\ pc' \in {"next", "inline", "write"}
  <2>1. /\ pc \in {"scan", "next", "inline", "relink"} /\ pc \in {"scan", "next"} \cup (Converting \ {"link"})
        /\ pc \in Working /\ pc' \in {"next", "delete"} \cup Converting /\ opts.file = None
    BY <1>1, <1>3 DEF Working, Converting, FirstRun
  <2>2. todo = {} /\ InputsSame
    BY <1>1, <1>3, <2>1 DEF FirstRunOK, SeenOK, InputsSame, Intact
  <2>3. InputsOK'
    BY <1>1, <2>1, InputsMarked DEF FirstRunOK
  <2>4. TwinsOK'
    BY <1>3 DEF TwinsOK, Deleting
  <2>5. MarkedOK'
    <3>1. CASE pc = "scan"
      BY <1>1, <1>3, <3>1 DEF MarkedOK
    <3>2. CASE pc # "scan"
      <4>1. pc \in {"next"} \cup Converting /\ FirstRun'
        BY <1>1, <1>3, <2>1, <3>2 DEF Converting, FirstRun
      <4>2. \A y : Marked(y) => Marked(y)'
        BY <1>1, <1>3, <3>2 DEF Marked
      <4> QED BY <1>1, <1>3, <3>2, <4>1, <4>2 DEF FirstRunOK, MarkedOK, Converting
    <3> QED BY <3>1, <3>2
  <2> QED BY <1>1, <1>3, <2>1, <2>2, <2>3, <2>4, <2>5, FirstRunWorks
<1> QED BY <1>1, <1>2, <1>3

LEMMA FirstRunWriteFile ==
  ASSUME Inv, Layout, StoodIn, FirstRunOK, WriteFile
  PROVE  FirstRunOK'
<1>1. /\ pc = "write" /\ UNCHANGED <<opts, first, runs, todo, symlinks, dylibs, originalNames, left, current, link>>
      /\ disk \in [Paths -> Nodes] /\ runs \in Nat \ {0}
  <2>1. runs \in Nat /\ pc = "write"
    BY TreeAssumption DEF WriteFile, Inv, TypeOK
  <2>2. runs # 0
    BY <2>1 DEF FirstRunOK, StartOK
  <2> QED BY <2>1, <2>2 DEF WriteFile, input, scan, Inv, TypeOK
<1>2. output \in Paths /\ Written = {output}
  BY <1>1, OutputFacts
<1>3. PICK n : n.is # "link" /\ n # Absent /\ (disk' = disk \/ disk' = [disk EXCEPT ![output] = n])
  <2>1. \/ disk' = disk
        \/ \E p \in Written : disk' = [disk EXCEPT ![p] = stub]
        \/ \E p \in Written, n \in {Part(stack[1].lib), Damaged, Other} : disk' = [disk EXCEPT ![p] = n]
    BY DEF WriteFile
  <2>2. \A n \in {stub, Part(stack[1].lib), Damaged, Other} : n.is # "link" /\ n # Absent
    BY DEF stub, Text, Part, Damaged, Other, Absent
  <2> QED BY <1>2, <2>1, <2>2
<1>4. /\ \A x \in Paths : disk'[x] = Absent => disk[x] = Absent
      /\ \A x \in Paths : disk'[x].is = "link" => disk'[x] = disk[x]
  BY <1>1, <1>2, <1>3
<1>5. NewLinksOK'
  BY <1>1, <1>4, NewLinksSame DEF FirstRunOK
<1>6. \/ AfterWrite /\ UNCHANGED cut
      \/ pc' = "failed" /\ UNCHANGED cut
      \/ pc' = "crashed"
  BY DEF WriteFile, WriteFailed, Fail
<1>7. FirstRun' <=> FirstRun
  BY <1>1 DEF FirstRun
<1>8. AfterWrite => pc' \in {"deleteInput", "done", "relink"}
  BY DEF AfterWrite
<1>9. CASE ~FirstRun \/ pc' \in {"failed", "crashed"}
  <2>1. FirstRun => cut = {}
    BY <1>1 DEF FirstRunOK, StartOK
  <2>2. pc' # "idle"
    BY <1>6, <1>8
  <2>3. FirstRun' /\ pc' # "crashed" => cut' = {}
    BY <1>6, <1>7, <1>9, <2>1
  <2> QED BY <1>1, <1>5, <1>7, <1>9, <2>2, <2>3, FirstRunOver
<1>10. CASE FirstRun /\ AfterWrite /\ UNCHANGED cut
  <2>1. PICK t : t = originalNames[current]
    OBVIOUS
  <2>2. /\ pc' = "relink" /\ links' = {y \in symlinks : y.target = t} /\ links = {} /\ opts.file = None
        /\ toDelete' = toDelete \/ (opts.deleteInput /\ t # None /\ toDelete' = toDelete \cup {<<t, TRUE>>})
        /\ current \in Stems
    BY <1>1, <1>10, <2>1 DEF AfterWrite, FirstRun, Layout, CurrentOK, Ended, Inv, TypeOK
  <2>3. toDelete \subseteq toDelete' /\ todo = {} /\ InputsSame
    BY <1>1, <2>2, WriteFacts DEF StoodIn, ScannedOK, Converting
  <2>4. InputsOK'
    <3>1. t # None => t \in SparedLibs
      BY <2>1, <2>2 DEF Layout, RecordsOK
    <3>2. ASSUME NEW d \in toDelete', d \notin toDelete
          PROVE  opts.deleteInput /\ d[1] \in SparedLibs
      <4>1. PICK e : e = <<t, TRUE>>
        OBVIOUS
      <4>2. e[1] = t
        BY <4>1
      <4>3. d = e /\ opts.deleteInput /\ t # None
        BY <2>2, <3>2, <4>1
      <4> QED BY <3>1, <4>2, <4>3
    <3>3. FirstRun => pc \in Working
      BY <1>1 DEF Working, Converting
    <3> QED BY <1>1, <3>2, <3>3, InputsMarked DEF FirstRunOK
  <2>5. MarkedOK'
    <3>1. SUFFICES ASSUME opts.deleteInput, NEW s \in Stems, dylibs[s] # Absent, s \notin left,
                          NEW y \in symlinks, y.target = originalNames[s]
                   PROVE  Marked(y)'
      BY <1>1 DEF MarkedOK
    <3>2. CASE s = current
      BY <2>1, <2>2, <3>1, <3>2 DEF Marked
    <3>3. CASE s # current
      <4>1. Marked(y)
        BY <1>1, <1>10, <3>1, <3>3 DEF FirstRunOK, MarkedOK, Converting
      <4>2. <<y.src, TRUE>> \in toDelete
        BY <1>1, <2>2, <4>1 DEF Marked
      <4> QED BY <2>3, <4>2 DEF Marked
    <3> QED BY <3>2, <3>3
  <2>6. TwinsOK'
    BY <2>2 DEF TwinsOK, Deleting
  <2>7. pc \in {"scan", "next"} \cup (Converting \ {"link"}) /\ pc' \in {"next", "delete"} \cup Converting
    BY <1>1, <2>2 DEF Converting
  <2> QED BY <1>1, <1>4, <1>10, <2>3, <2>4, <2>5, <2>6, <2>7, FirstRunWorks
<1> QED BY <1>6, <1>9, <1>10

\* A link that is relinked is one that gets a twin.
LEMMA RelinkedIsPublic ==
  ASSUME Inv, Layout, pc \in {"relink", "link"}, NEW y \in symlinks, y.target = originalNames[current]
  PROVE  y.src \in PublicLinks /\ y.to = first[y.src].to
<1>1. /\ y.src \in FirstLinks /\ y.to = first[y.src].to /\ y.target = Target(first, y.src)
      /\ ~IsTbd(y.src) /\ y.target \in SparedLibs
  BY RelinkFacts
<1>2. ~Excluded(y.src)
  BY <1>1 DEF Layout, RecordsOK, Recorded, Excluded
<1> QED BY <1>1, <1>2 DEF PublicLinks

LEMMA FirstRunRemoveLink ==
  ASSUME Inv, Layout, StoodIn, FirstRunOK, RemoveLink
  PROVE  FirstRunOK'
<1>1. /\ pc = "relink" /\ UNCHANGED <<opts, first, runs, cut, todo, symlinks, dylibs, originalNames, toDelete>>
      /\ UNCHANGED <<left, current>> /\ disk \in [Paths -> Nodes] /\ runs \in Nat \ {0}
  <2>1. runs \in Nat /\ pc = "relink"
    BY TreeAssumption DEF RemoveLink, Inv, TypeOK
  <2>2. runs # 0
    BY <2>1 DEF FirstRunOK, StartOK
  <2> QED BY <2>1, <2>2 DEF RemoveLink, input, scan, history, Inv, TypeOK
<1>2. CASE pc' = "failed" /\ UNCHANGED disk
  BY <1>1, <1>2, FirstRunFails
<1>3. CASE pc' # "failed"
  <2>1. PICK y \in links : /\ disk' = [disk EXCEPT ![Tbd(y.src)] = Absent]
                           /\ link' = y /\ links' = links \ {y} /\ pc' = "link"
    BY <1>3 DEF RemoveLink, Fail
  <2>2. y \in symlinks /\ y.target = originalNames[current]
    BY <1>1 DEF Inv, TypeOK, Layout, CurrentOK
  <2>3. InputsSame
    BY <1>1, <2>1, <2>2, RelinkKeeps
  <2>4. NewLinksOK'
    <3>1. \A x \in Paths : disk'[x].is = "link" => disk'[x] = disk[x]
      BY <1>1, <2>1 DEF Absent
    <3> QED BY <1>1, <3>1, NewLinksSame DEF FirstRunOK
  <2>5. CASE ~FirstRun
    BY <1>1, <2>1, <2>4, <2>5, FirstRunOver DEF FirstRun
  <2>6. CASE FirstRun
    <3>1. /\ pc \in {"scan", "next"} \cup Converting /\ pc' \in {"next", "delete"} \cup Converting
          /\ pc \in Working /\ pc # "link" /\ pc \notin Deleting /\ opts.file = None
      BY <1>1, <2>1, <2>6 DEF Working, Converting, Deleting, FirstRun
    <3>2. todo = {} /\ toDelete \subseteq toDelete'
      BY <1>1, <3>1 DEF StoodIn, ScannedOK
    <3>3. SeenOK' /\ StartOK'
      BY <1>1, <2>3, <2>6, <3>1, <3>2, SeenSame, StartSame DEF FirstRunOK
    <3>4. InputsOK'
      BY <1>1, <3>1, InputsMarked DEF FirstRunOK
    <3>5. TwinsOK'
      BY <2>1 DEF TwinsOK, Deleting
    <3>6. MarkedOK'
      <4>1. \A z : Marked(z) => Marked(z)'
        BY <1>1, <2>1 DEF Marked
      <4> QED BY <1>1, <2>1, <2>6, <4>1 DEF FirstRunOK, MarkedOK, Converting
    <3>7. GoneOK'
      <4>1. \A x \in Paths : disk[x] = Absent => first[x] = Absent
        BY <2>6, <3>1 DEF FirstRunOK, GoneOK
      <4>2. \A x \in Paths : x # Tbd(y.src) => disk'[x] = disk[x]
        BY <2>1
      <4> QED BY <1>1, <2>1, <4>1, <4>2 DEF GoneOK
    <3> QED BY <2>4, <3>3, <3>4, <3>5, <3>6, <3>7 DEF FirstRunOK
  <2> QED BY <2>5, <2>6
<1> QED BY <1>2, <1>3 DEF RemoveLink, Fail

LEMMA FirstRunCreateLink ==
  ASSUME Inv, Layout, StoodIn, FirstRunOK, CreateLink
  PROVE  FirstRunOK'
<1>1. /\ pc = "link" /\ UNCHANGED <<opts, first, runs, cut, todo, symlinks, dylibs, originalNames>>
      /\ UNCHANGED <<left, current, links, link>> /\ disk \in [Paths -> Nodes] /\ runs \in Nat \ {0}
      /\ link \in symlinks /\ link.target = originalNames[current]
  <2>1. runs \in Nat /\ pc = "link"
    BY TreeAssumption DEF CreateLink, Inv, TypeOK
  <2>2. runs # 0
    BY <2>1 DEF FirstRunOK, StartOK
  <2> QED BY <2>1, <2>2 DEF CreateLink, input, scan, history, Inv, TypeOK, Layout, CurrentOK
<1>2. CASE pc' = "failed" /\ UNCHANGED <<disk, toDelete>>
  BY <1>1, <1>2, FirstRunFails
<1>3. CASE pc' # "failed"
  <2>1. PICK q, n : q = link.src /\ n = Link(TwinTarget)
    OBVIOUS
  <2>2. /\ disk' = [disk EXCEPT ![Tbd(q)] = n] /\ pc' = "relink"
        /\ toDelete' = IF opts.deleteInput THEN toDelete \cup {<<q, TRUE>>} ELSE toDelete
    BY <1>3, <2>1 DEF CreateLink, Fail
  <2>3. InputsSame /\ disk'[Tbd(q)] = n
    BY <1>1, <2>1, <2>2, RelinkKeeps
  <2>4. q \in PublicLinks /\ q \in FirstLinks /\ n = Link(Tbd(first[q].to)) /\ n # Absent
    <3>1. q \in PublicLinks /\ link.to = first[q].to
      BY <1>1, <2>1, RelinkedIsPublic
    <3> QED BY <2>1, <3>1 DEF PublicLinks, TwinTarget, Link, Absent
  <2>5. PublicLinks' = PublicLinks
    BY <1>1, SameFirst
  <2>6. NewLinksOK'
    <3>1. ASSUME NEW x \in Paths, disk'[x].is = "link"
          PROVE  disk'[x] = first[x] \/ \E r \in PublicLinks : x = Tbd(r) /\ Twin(r)'
      <4>1. CASE x = Tbd(q)
        <5>1. Twin(q)'
          BY <1>1, <2>3, <2>4 DEF Twin
        <5> QED BY <2>4, <4>1, <5>1
      <4>2. CASE x # Tbd(q)
        <5>1. disk'[x] = disk[x]
          BY <1>1, <2>2, <4>2
        <5>2. CASE disk[x] = first[x]
          BY <5>1, <5>2
        <5>3. CASE disk[x] # first[x]
          <6>1. PICK r \in PublicLinks : x = Tbd(r) /\ Twin(r)
            BY <3>1, <5>1, <5>3 DEF FirstRunOK, NewLinksOK
          <6>2. Twin(r)'
            BY <1>1, <5>1, <6>1 DEF Twin
          <6> QED BY <6>1, <6>2
        <5> QED BY <5>2, <5>3
      <4> QED BY <4>1, <4>2
    <3> QED BY <1>1, <2>5, <3>1 DEF NewLinksOK
  <2>7. CASE ~FirstRun
    BY <1>1, <2>2, <2>6, <2>7, FirstRunOver DEF FirstRun
  <2>8. CASE FirstRun
    <3>1. /\ pc \in {"scan", "next"} \cup Converting /\ pc' \in {"next", "delete"} \cup Converting
          /\ pc \in Working /\ pc \notin Deleting /\ opts.file = None
      BY <1>1, <2>2, <2>8 DEF Working, Converting, Deleting, FirstRun
    <3>2. todo = {} /\ toDelete \subseteq toDelete'
      BY <1>1, <2>2, <3>1 DEF StoodIn, ScannedOK
    <3>3. SeenOK' /\ StartOK'
      BY <1>1, <2>3, <2>8, <3>1, <3>2, SeenSame, StartSame DEF FirstRunOK
    <3>4. InputsOK'
      <4>1. ASSUME NEW d \in toDelete', d \notin toDelete
            PROVE  opts.deleteInput /\ d[1] \in PublicLinks
        <5>1. PICK e : e = <<q, TRUE>>
          OBVIOUS
        <5>2. e[1] = q
          BY <5>1
        <5>3. d = e /\ opts.deleteInput
          BY <2>2, <4>1, <5>1
        <5> QED BY <2>4, <5>2, <5>3
      <4> QED BY <1>1, <3>1, <4>1, InputsMarked DEF FirstRunOK
    <3>5. TwinsOK'
      BY <2>2 DEF TwinsOK, Deleting
    <3>6. MarkedOK'
      <4>1. ASSUME opts.deleteInput, NEW z, Marked(z) PROVE Marked(z)'
        BY <1>1, <2>1, <2>2, <4>1 DEF Marked
      <4> QED BY <1>1, <2>2, <2>8, <4>1 DEF FirstRunOK, MarkedOK, Converting
    <3>7. GoneOK'
      <4>1. \A x \in Paths : disk[x] = Absent => first[x] = Absent \/ x = Tbd(q)
        BY <2>1, <2>8, <3>1 DEF FirstRunOK, GoneOK
      <4>2. \A x \in Paths : x # Tbd(q) => disk'[x] = disk[x]
        BY <2>2
      <4>3. \A x \in Paths : disk'[x] = Absent => first[x] = Absent
        BY <2>3, <2>4, <4>1, <4>2
      <4> QED BY <1>1, <4>3 DEF GoneOK
    <3> QED BY <2>6, <3>3, <3>4, <3>5, <3>6, <3>7 DEF FirstRunOK
  <2> QED BY <2>7, <2>8
<1> QED BY <1>2, <1>3 DEF CreateLink, Fail

\* When the last library has been converted, every link has its twin.
LEMMA FirstRunAllConverted ==
  ASSUME Inv, Layout, StoodIn, FirstRunOK, AllConverted
  PROVE  FirstRunOK'
<1>1. /\ pc = "next" /\ left = {} /\ pc' = "delete" /\ FirstOK
      /\ UNCHANGED <<disk, opts, first, runs, cut, todo, symlinks, toDelete>>
  BY DEF AllConverted, tree, input, scan, history, Layout, TreeOK
<1>2. CASE ~FirstRun
  BY <1>1, <1>2, FirstRunFails
<1>3. CASE FirstRun
  <2>1. todo = {} /\ links = {} /\ InputsSame /\ opts.file = None
    BY <1>1, <1>3 DEF StoodIn, ScannedOK, Layout, CurrentOK, Ended, InputsSame, Intact, FirstRun
  <2>2. pc \in {"scan", "next"} \cup (Converting \ {"link"}) /\ pc' \in {"next", "delete"} \cup Converting
        /\ pc \in Working /\ pc \notin Deleting
    BY <1>1 DEF Working, Converting, Deleting
  <2>3. InputsOK'
    BY <1>1, <2>2, InputsMarked DEF FirstRunOK
  <2>4. MarkedOK'
    BY <1>1 DEF MarkedOK, Converting
  <2>5. ASSUME NEW q \in PublicLinks
        PROVE  Twin(q) /\ (opts.deleteInput => <<q, TRUE>> \in toDelete)
    <3>1. /\ q \in Paths /\ first[q].is = "link" /\ ~Loops(first, q) /\ Exists(first, q) /\ ~Excluded(q)
          /\ Target(first, q) \in SparedLibs
      BY <1>1, PublicFacts
    <3>2. PICK t \in SparedLibs : t = Target(first, q)
      BY <3>1
    <3>3. PICK y : y = Entry(q)
      OBVIOUS
    <3>4. y \in symlinks /\ y.target = t /\ y.src = q /\ y.to = first[q].to
      BY <1>3, <2>1, <2>2, <3>1, <3>2, <3>3 DEF FirstRunOK, SeenOK, Entry
    <3>5. t \in Paths /\ ~IsTbd(t) /\ Stem(t) \in Stems
      BY <1>1, LibraryFacts DEF SparedLibs
    <3>6. disk[t] = first[t]
      BY <1>1, <1>3, <3>5 DEF FirstRunOK, StartOK
    <3>7. originalNames[Stem(t)] = t /\ dylibs[Stem(t)] # Absent
      BY <1>1, <2>1, <3>6 DEF StoodIn, ScannedOK
    <3>8. DoneStem(Stem(t))
      BY <1>1, <2>1, <3>5, <3>7 DEF StoodIn, ProgressOK
    <3>9. disk[Tbd(q)] = Link(Tbd(first[q].to))
      BY <1>1, <2>1, <3>4, <3>7, <3>8 DEF DoneStem, Relinked
    <3>10. opts.deleteInput => Marked(y)
      BY <1>1, <1>3, <3>4, <3>5, <3>7 DEF FirstRunOK, MarkedOK
    <3>11. opts.deleteInput => <<q, TRUE>> \in toDelete
      BY <1>1, <2>1, <3>4, <3>10 DEF Marked
    <3> QED BY <3>9, <3>11 DEF Twin
  <2>6. TwinsOK'
    <3>1. PublicLinks' = PublicLinks
      BY <1>1, SameFirst
    <3>2. \A q : Twin(q)' <=> Twin(q)
      BY <1>1 DEF Twin
    <3> QED BY <1>1, <2>5, <3>1, <3>2 DEF TwinsOK
  <2>7. \A x \in Paths : disk'[x] = disk[x]
    BY <1>1
  <2> QED BY <1>1, <1>3, <2>1, <2>2, <2>3, <2>4, <2>6, <2>7, FirstRunWorks
<1> QED BY <1>2, <1>3

LEMMA FirstRunDelete ==
  ASSUME Inv, Layout, StoodIn, FirstRunOK, Delete
  PROVE  FirstRunOK'
<1>1. /\ pc = "delete" /\ UNCHANGED <<opts, first, runs, cut, todo, symlinks>>
      /\ disk \in [Paths -> Nodes] /\ runs \in Nat \ {0} /\ FirstOK
  <2>1. runs \in Nat /\ pc = "delete"
    BY TreeAssumption DEF Delete, Inv, TypeOK
  <2>2. runs # 0
    BY <2>1 DEF FirstRunOK, StartOK
  <2> QED BY <2>1, <2>2 DEF Delete, input, scan, history, Inv, TypeOK, Layout, TreeOK
<1>2. CASE pc' = "failed" /\ UNCHANGED disk
  BY <1>1, <1>2, FirstRunFails
<1>3. CASE pc' # "failed"
  <2>1. PICK d \in toDelete : /\ pc' = pc /\ toDelete' = toDelete \ {d}
                              /\ IF Protected(d[1], d[2]) THEN UNCHANGED disk
                                 ELSE disk' = [disk EXCEPT ![d[1]] = Absent]
    BY <1>3 DEF Delete, Fail
  <2>2. d[1] \in Paths /\ d[2] \in BOOLEAN /\ d = <<d[1], d[2]>>
    BY DEF Inv, TypeOK
  <2>3. PICK x, b : x = d[1] /\ b = d[2]
    OBVIOUS
  <2>4. /\ x \in Paths /\ b \in BOOLEAN /\ d = <<x, b>>
        /\ \A y \in Paths : y # x => disk'[y] = disk[y]
        /\ disk'[x] = disk[x] \/ disk'[x] = Absent
        /\ ~Protected(x, b) => disk'[x] = Absent
    BY <1>1, <2>1, <2>2, <2>3
  <2>5. \A y \in Paths : disk'[y] = disk[y] \/ disk'[y] = Absent
    BY <2>4
  <2>6. NewLinksOK'
    <3>1. \A y \in Paths : disk'[y].is = "link" => disk'[y] = disk[y]
      BY <2>5 DEF Absent
    <3> QED BY <1>1, <3>1, NewLinksSame DEF FirstRunOK
  <2>7. CASE ~FirstRun
    BY <1>1, <2>1, <2>6, <2>7, FirstRunOver DEF FirstRun
  <2>8. CASE FirstRun
    <3>1. pc \in Working /\ pc \in Deleting /\ pc' \in Deleting /\ pc' = "delete" /\ todo = {} /\ FirstRun'
      BY <1>1, <2>1, <2>8 DEF Working, Deleting, FirstRun, FirstRunOK, SeenOK
    <3>2. /\ SparedLibs' = SparedLibs /\ PublicLinks' = PublicLinks
          /\ \A q : /\ (Excluded(q)' <=> Excluded(q)) /\ (Reached(q)' <=> Reached(q)) /\ Entry(q)' = Entry(q)
                    /\ (Loops(first, q)' <=> Loops(first, q)) /\ (Exists(first, q)' <=> Exists(first, q))
      BY <1>1, SameFirst
    <3>3. StartOK'
      BY <1>1, <2>1, <2>8 DEF FirstRunOK, StartOK, FirstRun, Converting
    <3>4. /\ \A q \in Paths : first[q].is = "link" /\ ~Loops(first, q) =>
               IF Excluded(q) THEN <<q, FALSE>> \in toDelete \/ disk[q] = Absent
               ELSE Exists(first, q) => Entry(q) \in symlinks
          /\ \A y \in symlinks : first[y.target].is # "link"
      BY <2>8, <3>1 DEF FirstRunOK, SeenOK
    <3>5. ASSUME NEW q \in Paths, first[q].is = "link", ~Loops(first, q), Excluded(q)
          PROVE  <<q, FALSE>> \in toDelete' \/ disk'[q] = Absent
      <4>1. CASE d = <<q, FALSE>>
        <5>1. x = q
          BY <2>4, <4>1
        <5>2. ~Protected(x, b)
          BY <3>4, <3>5, <5>1 DEF Protected
        <5> QED BY <2>4, <5>1, <5>2
      <4>2. CASE d # <<q, FALSE>>
        BY <2>1, <2>5, <3>4, <3>5, <4>2
      <4> QED BY <4>1, <4>2
    <3>6. SeenOK'
      BY <1>1, <3>1, <3>2, <3>4, <3>5 DEF SeenOK
    <3>7. /\ \A e \in toDelete : e[2] => opts.deleteInput /\ e[1] \in SparedLibs \cup PublicLinks
          /\ toDelete' \subseteq toDelete
      BY <2>1, <2>8, <3>1 DEF FirstRunOK, InputsOK
    <3>8. InputsOK'
      BY <1>1, <3>2, <3>7 DEF InputsOK
    <3>9. MarkedOK'
      BY <3>1 DEF MarkedOK, Converting
    <3>10. ASSUME NEW q \in PublicLinks
           PROVE  Twin(q)' /\ (opts.deleteInput => <<q, TRUE>> \in toDelete' \/ disk'[q] = Absent)
      <4>1. /\ Twin(q) /\ (opts.deleteInput => <<q, TRUE>> \in toDelete \/ disk[q] = Absent)
            /\ q \in Paths /\ Tbd(q) \in Paths /\ IsTbd(Tbd(q)) /\ ~Excluded(Tbd(q))
        BY <1>1, <2>8, <3>1, PublicFacts DEF FirstRunOK, TwinsOK
      <4>2. x # Tbd(q)
        BY <2>3, <4>1 DEF Layout, RecordsOK, Excluded
      <4>3. Twin(q)'
        BY <1>1, <2>4, <4>1, <4>2 DEF Twin
      <4>4. CASE d = <<q, TRUE>>
        <5>1. x = q
          BY <2>4, <4>4
        <5>2. PICK e : e = <<q, TRUE>>
          OBVIOUS
        <5>3. e[2] /\ d = e
          BY <4>4, <5>2
        <5>4. ~Protected(d[1], d[2])
          BY <5>3 DEF Protected
        <5>5. ~Protected(x, b)
          BY <2>3, <5>4
        <5> QED BY <2>4, <4>3, <5>1, <5>5
      <4>5. CASE d # <<q, TRUE>>
        BY <2>1, <2>5, <4>1, <4>3, <4>5
      <4> QED BY <4>4, <4>5
    <3>11. TwinsOK'
      BY <1>1, <3>2, <3>10 DEF TwinsOK
    <3>12. ASSUME NEW y \in Paths, disk'[y] = Absent, first[y] # Absent
           PROVE  \/ Excluded(y) /\ ~Reached(y)
                  \/ opts.deleteInput /\ y \in SparedLibs \cup PublicLinks
      <4>1. CASE disk[y] = Absent
        BY <1>1, <2>8, <3>1, <3>12, <4>1 DEF FirstRunOK, GoneOK
      <4>2. CASE disk[y] # Absent
        <5>1. y = x /\ ~Protected(x, b)
          BY <2>1, <2>3, <2>4, <3>12, <4>2 DEF tree
        <5>2. CASE b
          BY <2>3, <3>7, <5>1, <5>2
        <5>3. CASE ~b
          <6>1. Excluded(y)
            BY <2>3, <5>1, <5>3 DEF Layout, RecordsOK, Excluded
          <6>2. ASSUME Reached(y) PROVE FALSE
            <7>1. PICK z \in Paths : /\ first[z].is = "link" /\ ~Excluded(z) /\ Exists(first, z)
                                     /\ Target(first, z) = y
              BY <6>2 DEF Reached
            <7>2. ~Loops(first, z)
              BY <7>1 DEF Exists, Contents
            <7>3. Entry(z) \in symlinks /\ Entry(z).target = y
              BY <3>4, <7>1, <7>2 DEF Entry
            <7> QED BY <5>1, <5>3, <7>3 DEF Protected
          <6> QED BY <6>1, <6>2
        <5> QED BY <2>4, <5>2, <5>3
      <4> QED BY <4>1, <4>2
    <3>13. GoneOK'
      BY <1>1, <3>1, <3>2, <3>12 DEF GoneOK
    <3> QED BY <2>6, <3>3, <3>6, <3>8, <3>9, <3>11, <3>13 DEF FirstRunOK
  <2> QED BY <2>7, <2>8
<1> QED BY <1>2, <1>3 DEF Delete, Fail, tree

LEMMA FirstRunEnds ==
  ASSUME Inv, Layout, FirstRunOK, Deleted
  PROVE  FirstRunOK'
<1>1. /\ pc = "delete" /\ pc' = "done" /\ toDelete = {}
      /\ UNCHANGED <<disk, opts, first, runs, cut, todo, symlinks, toDelete>>
  BY DEF Deleted, tree, input, scan, history
<1>2. CASE ~FirstRun
  BY <1>1, <1>2, FirstRunFails
<1>3. CASE FirstRun
  <2>1. /\ SparedLibs' = SparedLibs /\ PublicLinks' = PublicLinks
        /\ \A q : /\ (Excluded(q)' <=> Excluded(q)) /\ (Reached(q)' <=> Reached(q)) /\ Entry(q)' = Entry(q)
                  /\ (Loops(first, q)' <=> Loops(first, q)) /\ (Exists(first, q)' <=> Exists(first, q))
                  /\ (Twin(q)' <=> Twin(q))
    BY <1>1, SameFirst DEF Twin
  <2>2. FirstRun' /\ pc \in Working /\ pc \in Deleting /\ pc' \in Deleting /\ pc' \in Working
    BY <1>1, <1>3 DEF FirstRun, Working, Deleting
  <2>3. StartOK'
    BY <1>1, <1>3 DEF FirstRunOK, StartOK, FirstRun, Converting
  <2>4. NewLinksOK'
    BY <1>1, NewLinksSame DEF FirstRunOK
  <2>5. SeenOK'
    <3>1. \A q \in Paths : first[q].is = "link" /\ ~Loops(first, q) =>
             \/ q \in todo
             \/ IF Excluded(q) THEN <<q, FALSE>> \in toDelete \/ (pc \in Deleting /\ disk[q] = Absent)
                ELSE Exists(first, q) => Entry(q) \in symlinks
      BY <1>3, <2>2 DEF FirstRunOK, SeenOK
    <3>2. todo = {} /\ \A y \in symlinks : first[y.target].is # "link"
      BY <1>1, <1>3, <2>2 DEF FirstRunOK, SeenOK
    <3> QED BY <1>1, <2>1, <2>2, <3>1, <3>2 DEF SeenOK
  <2>6. InputsOK' /\ MarkedOK'
    BY <1>1 DEF InputsOK, MarkedOK, Converting
  <2>7. TwinsOK'
    BY <1>1, <1>3, <2>1, <2>2 DEF FirstRunOK, TwinsOK
  <2>8. GoneOK'
    <3>1. \A x \in Paths : disk[x] = Absent /\ first[x] # Absent =>
            \/ Excluded(x) /\ ~Reached(x)
            \/ opts.deleteInput /\ x \in SparedLibs \cup PublicLinks
      BY <1>1, <1>3, <2>2 DEF FirstRunOK, GoneOK
    <3> QED BY <1>1, <2>1, <2>2, <3>1 DEF GoneOK
  <2> QED BY <2>3, <2>4, <2>5, <2>6, <2>7, <2>8 DEF FirstRunOK
<1> QED BY <1>2, <1>3

\* A single file is another matter.
LEMMA FirstRunOneFile ==
  ASSUME Inv, Layout, FirstRunOK, ReadInput \/ DeleteInput
  PROVE  FirstRunOK'
<1>1. /\ pc \in {"read", "deleteInput"} /\ UNCHANGED <<opts, first, runs>> /\ pc' # "idle"
      /\ disk' = disk \/ disk' = [disk EXCEPT ![originalNames[current]] = Absent]
  BY DEF ReadInput, DeleteInput, CallInline, Fail, tree, input, history
<1>2. disk \in [Paths -> Nodes] /\ runs \in Nat /\ opts.file # None
  BY <1>1, TreeAssumption DEF Inv, TypeOK, Layout, CurrentOK
<1>3. \A x \in Paths : disk'[x].is = "link" => disk'[x] = disk[x]
  BY <1>1, <1>2 DEF Absent
<1>4. NewLinksOK' /\ runs \in Nat \ {0} /\ ~FirstRun'
  BY <1>1, <1>2, <1>3, NewLinksSame DEF FirstRunOK, StartOK, FirstRun
<1> QED BY <1>1, <1>4, FirstRunOver

LEMMA FirstRunStutters ==
  ASSUME FirstRunOK, UNCHANGED Seen
  PROVE  FirstRunOK'
<1>1. /\ UNCHANGED <<disk, opts, first, runs, cut, todo, symlinks, dylibs, originalNames, toDelete>>
      /\ UNCHANGED <<pc, left, current, links, link>>
  BY DEF Seen, tree, input, scan, history
<1>2. /\ SparedLibs' = SparedLibs /\ PublicLinks' = PublicLinks
      /\ \A q : /\ (Excluded(q)' <=> Excluded(q)) /\ (Reached(q)' <=> Reached(q)) /\ Entry(q)' = Entry(q)
                /\ (Loops(first, q)' <=> Loops(first, q)) /\ (Exists(first, q)' <=> Exists(first, q))
                /\ (Twin(q)' <=> Twin(q)) /\ (Marked(q)' <=> Marked(q))
  BY <1>1, SameFirst DEF Twin, Marked
<1>3. (FirstRun' <=> FirstRun) /\ Working' = Working /\ Deleting' = Deleting
  BY <1>1 DEF FirstRun, Working, Deleting, Converting
<1>4. StartOK' /\ SeenOK'
  BY <1>1, <1>2, <1>3 DEF FirstRunOK, StartOK, SeenOK
<1>5. NewLinksOK'
  BY <1>1, NewLinksSame DEF FirstRunOK
<1>6. InputsOK' /\ TwinsOK'
  BY <1>1, <1>2, <1>3 DEF FirstRunOK, InputsOK, TwinsOK
<1>7. MarkedOK'
  BY <1>1, <1>2, <1>3 DEF FirstRunOK, MarkedOK
<1>8. GoneOK'
  BY <1>1, <1>2, <1>3 DEF FirstRunOK, GoneOK
<1> QED BY <1>4, <1>5, <1>6, <1>7, <1>8 DEF FirstRunOK

LEMMA FirstRunInvariance ==
  ASSUME TidyInputs
  PROVE  Spec => [](Inv /\ Layout /\ StoodIn /\ FirstRunOK)
<1>1. Init => FirstRunOK
  BY FirstRunInit
<1>2. Inv /\ Layout /\ StoodIn /\ FirstRunOK /\ [Next]_vars => FirstRunOK'
  BY FirstRunBegin, FirstRunScan, FirstRunConvert, FirstRunWriteFile, FirstRunRemoveLink,
     FirstRunCreateLink, FirstRunAllConverted, FirstRunDelete, FirstRunEnds, FirstRunOneFile,
     FirstRunStutters, NextCases
<1>3. Spec => [](Inv /\ Layout /\ StoodIn)
  BY StoodInInvariance
<1> QED BY <1>1, <1>2, <1>3, PTL DEF Spec

-----------------------------------------------------------------------------
(* What is left at the end of it *)

TheirTwins == {Tbd(q) : q \in PublicLinks}
AtTheEnd ==
  /\ disk \in [Paths -> Nodes] /\ TreeOK
  /\ \A q \in Paths : first[q].is = "link" /\ ~Loops(first, q) /\ Excluded(q) => disk[q] = Absent
  /\ \A q \in PublicLinks : Twin(q) /\ (opts.deleteInput => disk[q] = Absent)
  /\ \A l \in SparedLibs : Stubbed(l)
  /\ \A x \in Paths : disk[x].is = "link" => disk[x] = first[x] \/ x \in TheirTwins
  /\ \A x \in Paths : disk[x] = Absent /\ first[x] # Absent =>
       \/ Excluded(x) /\ ~Reached(x)
       \/ opts.deleteInput /\ x \in SparedLibs \cup PublicLinks

LEMMA TheEnd ==
  ASSUME Inv, Layout, StoodIn, FirstRunOK, FirstRun, pc = "done"
  PROVE  AtTheEnd
<1>1. /\ disk \in [Paths -> Nodes] /\ TreeOK /\ pc \in Working /\ pc \in Deleting /\ opts.file = None
      /\ toDelete = {} /\ todo = {}
  BY DEF Inv, TypeOK, Layout, Working, Deleting, FirstRun, FirstRunOK, SeenOK
<1>2. \A q \in Paths : first[q].is = "link" /\ ~Loops(first, q) /\ Excluded(q) => disk[q] = Absent
  BY <1>1 DEF FirstRunOK, SeenOK
<1>3. \A q \in PublicLinks : Twin(q) /\ (opts.deleteInput => disk[q] = Absent)
  BY <1>1 DEF FirstRunOK, TwinsOK
<1>4. \A l \in SparedLibs : Stubbed(l)
  BY <1>1 DEF FirstRunOK, StartOK, StoodIn, MirrorOK, Uncut
<1>5. \A x \in Paths : disk[x].is = "link" => disk[x] = first[x] \/ x \in TheirTwins
  BY DEF FirstRunOK, NewLinksOK, TheirTwins
<1>6. \A x \in Paths : disk[x] = Absent /\ first[x] # Absent =>
        \/ Excluded(x) /\ ~Reached(x)
        \/ opts.deleteInput /\ x \in SparedLibs \cup PublicLinks
  BY <1>1 DEF FirstRunOK, GoneOK
<1> QED BY <1>1, <1>2, <1>3, <1>4, <1>5, <1>6 DEF AtTheEnd

\* A link that is still there and led to nothing else led to nothing, or is not to
\* a library.
LEMMA NotToTheInputs ==
  ASSUME AtTheEnd, NEW p \in Paths, disk[p].is = "link", disk[p] = first[p], ~Loops(first, p)
  PROVE  /\ ~Excluded(p)
         /\ ~IsTbd(p) /\ opts.deleteInput => Target(first, p) \notin SparedLibs
<1>1. first[p].is = "link" /\ disk[p] # Absent
  BY DEF Absent
<1>2. ~Excluded(p)
  BY <1>1 DEF AtTheEnd
<1>3. ASSUME ~IsTbd(p), opts.deleteInput, Target(first, p) \in SparedLibs PROVE FALSE
  <2>1. p \in PublicLinks
    BY <1>1, <1>2, <1>3 DEF PublicLinks, FirstLinks
  <2> QED BY <1>1, <1>3, <2>1 DEF AtTheEnd
<1> QED BY <1>2, <1>3

\* An input that leads to another that was deleted led to nothing at first.
LEMMA InputsDangle ==
  ASSUME AtTheEnd, NEW p \in Paths, ~IsTbd(p), disk[p].is = "link", ~Loops(disk, p),
         Target(disk, p) \in SparedLibs \cup PublicLinks, disk[Target(disk, p)] = Absent, opts.deleteInput
  PROVE  first[p].is = "link" /\ ~Exists(first, p)
<1>1. disk \in [Paths -> Nodes] /\ first \in [Paths -> Nodes] /\ TreeOK /\ FirstOK
  BY DEF AtTheEnd, TreeOK, FirstOK
<1>2. disk[p] = first[p] /\ LinksKeepTo(first)
  BY <1>1, TreeFacts, FirstFacts DEF Absent
<1>3. CASE ~Exists(first, p)
  BY <1>2, <1>3
<1>4. CASE Exists(first, p)
  <2>1. ~Loops(first, p)
    BY <1>4 DEF Exists, Contents
  <2>2. PICK t \in SparedLibs \cup PublicLinks : t = Target(disk, p)
    OBVIOUS
  <2>3. Contents(disk, p) = Absent
    BY DEF Contents
  <2>4. ~Intact(p)
    BY <1>1, <1>4, <2>3, LeadsAsFirst DEF Exists
  <2>5. \A x \in Hops(first, p) : disk[x] \in {first[x], Absent}
    BY <1>1, <1>2, SameKind, HopsFacts, TreeFacts
  <2>6. t \in Hops(first, p)
    BY <1>1, <2>2, <2>4, <2>5, WayLost DEF Intact
  <2>7. Target(first, t) = Target(first, p)
    BY <1>1, <2>1, <2>6, WayFrom
  <2>8. Target(first, t) \in SparedLibs
    <3>1. CASE t \in PublicLinks
      BY <3>1 DEF PublicLinks
    <3>2. CASE t \in SparedLibs
      <4>1. t \in Paths /\ Real(t) = t /\ first[t].is # "link"
        BY <1>1, <3>2, FirstFacts DEF SparedLibs, Libraries
      <4>2. Target(first, t) = t
        BY <1>1, <4>1, NotALink
      <4> QED BY <3>2, <4>2
    <3> QED BY <3>1, <3>2
  <2> QED BY <1>2, <2>1, <2>7, <2>8, NotToTheInputs
<1> QED BY <1>3, <1>4

\* What misses its end although no twin is on its way.
LEMMA OldWay ==
  ASSUME AtTheEnd, NEW p \in Paths, disk[p].is = "link", ~Loops(disk, p),
         disk[Target(disk, p)] = Absent, Hops(disk, p) \cap TheirTwins = {}
  PROVE  \/ first[p].is = "link" /\ ~Exists(first, p)
         \/ Target(disk, p) \in DeletedLinks
<1>1. disk \in [Paths -> Nodes] /\ first \in [Paths -> Nodes] /\ TreeOK /\ FirstOK
  BY DEF AtTheEnd, TreeOK, FirstOK
<1>2. PICK t : t = Target(disk, p)
  OBVIOUS
<1>3. t \in Paths /\ t \in Hops(disk, p) /\ disk[t] = Absent /\ disk[t].is # "link" /\ p \in Hops(disk, p)
      /\ Hops(disk, p) \subseteq Paths
  BY <1>1, <1>2, HopsFacts, TreeFacts DEF Absent
<1>4. \A x \in Hops(disk, p) : disk[x].is = "link" => disk[x] = first[x]
  BY <1>3 DEF AtTheEnd
<1>5. \A x \in Hops(disk, p) : disk[x].is # "link" => x = t
  BY <1>1, <1>2, LastHop
<1>6. disk[p] = first[p] /\ first[p].is = "link"
  BY <1>3, <1>4
<1>7. ASSUME first[t].is # "link" PROVE Target(first, p) = t
  <2>1. \A x \in Hops(disk, p) : disk[x].is = "link" \/ first[x].is = "link" => first[x] = disk[x]
    BY <1>4, <1>5, <1>7
  <2> QED BY <1>1, <1>2, <2>1, SameLinks
<1>8. CASE first[t] = Absent
  <2>1. first[t].is # "link" /\ Target(first, p) = t
    BY <1>7, <1>8 DEF Absent
  <2>2. ~Exists(first, p)
    BY <1>8, <2>1 DEF Exists, Contents
  <2> QED BY <1>6, <2>2
<1>9. CASE Excluded(t) /\ ~Reached(t) /\ first[t] # Absent
  <2>1. CASE first[t].is = "link"
    <3>1. t \in DeletedLinks
      BY <1>3, <1>9, <2>1 DEF DeletedLinks, Excluded
    <3> QED BY <1>2, <3>1
  <2>2. CASE first[t].is # "link"
    <3>1. Target(first, p) = t
      BY <1>7, <2>2
    <3>2. ~Loops(first, p) /\ Exists(first, p)
      BY <1>9, <2>2, <3>1 DEF Loops, Exists, Contents
    <3>3. ~Excluded(p)
      BY <1>3, <1>6, <3>2, NotToTheInputs
    <3>4. Reached(t)
      BY <1>6, <3>1, <3>2, <3>3 DEF Reached
    <3> QED BY <1>9, <3>4
  <2> QED BY <2>1, <2>2
<1>10. CASE opts.deleteInput /\ t \in SparedLibs \cup PublicLinks
  <2>1. ~IsTbd(t)
    BY <1>1, <1>10, PublicFacts, LibraryFacts DEF SparedLibs
  <2>2. LinksKeepTo(disk)
    BY <1>1, TreeFacts
  <2>3. ~IsTbd(p)
    BY <1>1, <1>3, <2>1, <2>2, SameKind
  <2> QED BY <1>2, <1>3, <1>10, <2>3, InputsDangle
<1>11. \/ first[t] = Absent \/ (Excluded(t) /\ ~Reached(t) /\ first[t] # Absent)
       \/ (opts.deleteInput /\ t \in SparedLibs \cup PublicLinks)
  BY <1>3 DEF AtTheEnd
<1> QED BY <1>8, <1>9, <1>10, <1>11

\* A link that leads to something at all leads there by what it points to.
LEMMA NextHop ==
  ASSUME NEW d \in [Paths -> Nodes], NEW q \in Paths, Real(q) = q, d[q].is = "link", ~Loops(d, q)
  PROVE  /\ Real(d[q].to) \in Hops(d, q) /\ Real(d[q].to) \in Paths
         /\ Target(d, Real(d[q].to)) = Target(d, q)
<1>1. q \in Hops(d, q)
  BY HopsFacts
<1>2. PICK S : S = {q}
  OBVIOUS
<1>3. S \cap Hops(d, q) # {} /\ \A x \in S : d[x].is = "link"
  BY <1>1, <1>2
<1>4. \E w \in S \cap Hops(d, q) : Real(d[w].to) \in Hops(d, q)
  BY <1>3, LastOfThem
<1>5. Real(d[q].to) \in Hops(d, q)
  BY <1>2, <1>4
<1> QED BY <1>5, WayFrom, HopsFacts

\* What misses its end although there are twins on its way: after the last twin comes
\* what would be the twin of a private link.
LEMMA WayOverTwins ==
  ASSUME AtTheEnd, NEW p \in Paths, disk[p].is = "link", ~Loops(disk, p),
         disk[Target(disk, p)] = Absent, Hops(disk, p) \cap TheirTwins # {}
  PROVE  Target(disk, p) \in DeletedLinks \cup {Tbd(q) : q \in DeletedLinks}
<1>1. disk \in [Paths -> Nodes] /\ first \in [Paths -> Nodes] /\ TreeOK /\ FirstOK /\ LinksKeepTo(first)
      /\ LinksKeepTo(disk)
  BY FirstFacts, TreeFacts DEF AtTheEnd, TreeOK, FirstOK
<1>2. PICK t : t = Target(disk, p)
  OBVIOUS
<1>3. t \in Paths /\ disk[t] = Absent /\ disk[t].is # "link"
  BY <1>1, <1>2, HopsFacts DEF Absent
<1>4. \A x \in TheirTwins : disk[x].is = "link"
  <2>1. \A n, m : n = Link(m) => n.is = "link"
    BY DEF Link
  <2>2. \A q \in PublicLinks : disk[Tbd(q)] = Link(Tbd(first[q].to))
    BY DEF AtTheEnd, Twin
  <2> QED BY <2>1, <2>2 DEF TheirTwins
<1>5. PICK w \in TheirTwins \cap Hops(disk, p) : /\ Real(disk[w].to) \in Hops(disk, p)
                                                /\ Hops(disk, Real(disk[w].to)) \cap TheirTwins = {}
  BY <1>1, <1>4, LastOfThem
<1>6. PICK q \in PublicLinks : w = Tbd(q)
  BY <1>5 DEF TheirTwins
<1>7. /\ q \in Paths /\ Real(q) = q /\ first[q].is = "link" /\ ~Loops(first, q) /\ first[q].to \in Paths
      /\ Target(first, q) \in SparedLibs /\ ~IsTbd(q) /\ disk[w] = Link(Tbd(first[q].to))
  BY <1>1, <1>6, PublicFacts DEF AtTheEnd, Twin
<1>8. PICK v : v = Real(first[q].to)
  OBVIOUS
<1>9. /\ v \in Hops(first, q) /\ v \in Paths /\ Target(first, v) \in SparedLibs /\ ~IsTbd(v) /\ Real(v) = v
  BY <1>1, <1>7, <1>8, NextHop, SameKind, HopsFacts
<1>10. PICK u : u = Tbd(v)
  OBVIOUS
<1>11. u = Real(disk[w].to)
  <2>1. disk[w].to = Tbd(first[q].to)
    BY <1>7 DEF Link
  <2> QED BY <1>7, <1>8, <1>10, <2>1, TbdFacts
<1>12. /\ u \in Paths /\ IsTbd(u) /\ Real(u) = u /\ u \in Hops(disk, p) /\ Hops(disk, u) \cap TheirTwins = {}
       /\ Target(disk, u) = t /\ u \in Hops(disk, u)
  <2>1. u \in Paths /\ IsTbd(u) /\ Real(u) = u
    BY <1>9, <1>10, PathFacts, TbdFacts
  <2>2. u \in Hops(disk, p) /\ Hops(disk, u) \cap TheirTwins = {}
    BY <1>5, <1>11
  <2> QED BY <1>1, <1>2, <2>1, <2>2, WayFrom, HopsFacts
<1>13. CASE first[v].is # "link"
  <2>1. Target(first, v) = v
    BY <1>1, <1>9, <1>13, NotALink
  <2>2. disk[u].is = "text"
    BY <1>9, <1>10, <2>1 DEF AtTheEnd, Stubbed
  <2>3. Target(disk, u) = u
    BY <1>1, <1>12, <2>2, NotALink
  <2> QED BY <1>3, <1>12, <2>2, <2>3 DEF Absent
<1>14. CASE first[v].is = "link" /\ ~Excluded(v)
  <2>1. v \in PublicLinks
    BY <1>9, <1>14 DEF PublicLinks, FirstLinks
  <2> QED BY <1>10, <1>12, <2>1 DEF TheirTwins
<1>15. CASE first[v].is = "link" /\ Excluded(v)
  <2>1. v \in DeletedLinks /\ Private(u) /\ opts.deletePrivate
    BY <1>9, <1>10, <1>15, TbdFacts DEF DeletedLinks, Excluded
  <2>2. CASE disk[u].is # "link"
    <3>1. Target(disk, u) = u
      BY <1>1, <1>12, <2>2, NotALink
    <3> QED BY <1>2, <1>10, <1>12, <2>1, <3>1
  <2>3. CASE disk[u].is = "link"
    <3>1. ~Loops(disk, u) /\ disk[Target(disk, u)] = Absent
      BY <1>3, <1>12 DEF Loops
    <3>2. Target(disk, u) \in DeletedLinks \/ (first[u].is = "link" /\ ~Exists(first, u))
      BY <1>12, <2>3, <3>1, OldWay
    <3>3. disk[u] = first[u]
      BY <1>12, <2>3 DEF AtTheEnd
    <3>4. first[t].is # "link" => Target(first, u) = t
      <4>1. ASSUME first[t].is # "link", NEW x \in Hops(disk, u) PROVE disk[x].is = "link" \/ first[x].is = "link" => first[x] = disk[x]
        <5>1. disk[x].is # "link" => x = t
          BY <1>1, <1>12, LastHop
        <5>2. x \in Paths /\ x \notin TheirTwins
          BY <1>1, <1>12, HopsFacts
        <5> QED BY <4>1, <5>1, <5>2 DEF AtTheEnd
      <4> QED BY <1>1, <1>12, <4>1, SameLinks
    <3>5. CASE first[t].is # "link"
      <4>1. ~Loops(first, u)
        BY <3>4, <3>5 DEF Loops
      <4>2. ~Excluded(u)
        BY <1>12, <2>3, <3>3, <4>1, NotToTheInputs
      <4> QED BY <2>1, <4>2 DEF Excluded
    <3>6. CASE first[t].is = "link"
      <4>1. IsTbd(t)
        BY <1>1, <1>12, SameKind, HopsFacts
      <4>2. t \notin SparedLibs \cup PublicLinks
        BY <1>1, <4>1, PublicFacts, LibraryFacts DEF SparedLibs
      <4>3. Excluded(t)
        BY <1>3, <3>6, <4>2 DEF AtTheEnd, Absent
      <4> QED BY <1>2, <1>3, <3>6, <4>3 DEF DeletedLinks, Excluded
    <3> QED BY <3>5, <3>6
  <2> QED BY <2>2, <2>3
<1> QED BY <1>13, <1>14, <1>15

\* A way without an end that passes no old link to a stub had none at first.
LEMMA EndlessWay ==
  ASSUME AtTheEnd, NEW p \in Paths, disk[p].is = "link", Loops(disk, p)
  PROVE  \/ first[p].is = "link" /\ ~Exists(first, p)
         \/ Hops(disk, p) \cap OldStubLinks # {}
<1>1. disk \in [Paths -> Nodes] /\ first \in [Paths -> Nodes] /\ TreeOK /\ FirstOK /\ LinksKeepTo(disk)
  BY TreeFacts DEF AtTheEnd, TreeOK, FirstOK
<1>2. Hops(disk, p) \subseteq Paths /\ p \in Hops(disk, p)
  BY <1>1, HopsFacts, TreeFacts DEF Absent
<1>3. \A x \in Hops(disk, p) : disk[x].is = "link"
  BY <1>1, LastHop DEF Loops
<1>4. CASE ~IsTbd(p)
  <2>1. \A x \in Hops(disk, p) : first[x] = disk[x]
    BY <1>1, <1>2, <1>3, <1>4, SameKind, TreeFacts DEF Absent
  <2>2. Target(first, p) = Target(disk, p)
    BY <1>1, <2>1, SameWay
  <2>3. Loops(first, p)
    BY <1>1, <2>1, <2>2, HopsFacts DEF Loops
  <2> QED BY <1>2, <2>1, <2>3 DEF Exists, Contents
<1>5. CASE IsTbd(p) /\ \E x \in Hops(disk, p) : x \notin TheirTwins
  <2>1. PICK x \in Hops(disk, p) : x \notin TheirTwins
    BY <1>5
  <2>2. IsTbd(x) /\ disk[x] = first[x] /\ first[x].is = "link"
    BY <1>1, <1>2, <1>3, <1>5, <2>1, SameKind DEF AtTheEnd
  <2> QED BY <1>2, <2>1, <2>2 DEF OldStubLinks
<1>6. CASE Hops(disk, p) \subseteq TheirTwins
  <2>1. PICK q \in PublicLinks : p = Tbd(q)
    BY <1>2, <1>6 DEF TheirTwins
  <2>2. q \in Paths /\ ~Loops(first, q) /\ Target(first, q) \in SparedLibs /\ first[q].is = "link"
    BY <1>1, <2>1, PublicFacts
  <2>3. Hops(first, q) \subseteq Paths
    BY <1>1, <2>2, HopsFacts
  <2>4. ASSUME NEW z \in Hops(first, q), first[z].is = "link", z \notin PublicLinks,
               Tbd(z) \in Hops(disk, Tbd(q))
        PROVE  FALSE
    <3>1. PICK r \in PublicLinks : Tbd(z) = Tbd(r)
      BY <1>6, <2>1, <2>4 DEF TheirTwins
    <3>2. LinksKeepTo(first) /\ ~IsTbd(q)
      BY <1>1, <2>1, FirstFacts, PublicFacts
    <3>3. z \in FirstLinks /\ r \in FirstLinks
      BY <1>1, <2>2, <2>3, <2>4, <3>1, <3>2, SameKind, PublicFacts DEF FirstLinks
    <3>4. z = r
      BY <1>1, <3>1, <3>3, TwinsApart
    <3> QED BY <2>4, <3>1, <3>4
  <2>5. \A x \in Hops(first, q) : first[x].is = "link" /\ x \in PublicLinks => disk[Tbd(x)] = Link(Tbd(first[x].to))
    BY DEF AtTheEnd, Twin
  <2>6. \A y \in Hops(first, q) : first[y].is = "link" => y \in PublicLinks
    BY <1>1, <2>2, <2>4, <2>5, TwinMeets
  <2>7. \A x \in Hops(first, q) : first[x].is # "link" => x = Target(first, q)
    BY <1>1, <2>2, LastHop
  <2>8. disk[Tbd(Target(first, q))].is # "link"
    BY <2>2 DEF AtTheEnd, Stubbed
  <2>9. Target(disk, p) = Tbd(Target(first, q))
    BY <1>1, <2>1, <2>2, <2>5, <2>6, <2>7, <2>8, TwinWay
  <2> QED BY <2>8, <2>9 DEF Loops
<1> QED BY <1>4, <1>5, <1>6

LEMMA NothingDanglesInState ==
  ASSUME Inv, Layout, StoodIn, FirstRunOK
  PROVE  NothingDangles
<1> SUFFICES ASSUME pc = "done", runs = 1, opts.file = None,
                    NEW p \in Paths, disk[p].is = "link", ~Exists(disk, p)
             PROVE  \/ first[p].is = "link" /\ ~Exists(first, p)
                    \/ Target(disk, p) \in DeletedLinks \cup {Tbd(q) : q \in DeletedLinks}
                    \/ Loops(disk, p) /\ Hops(disk, p) \cap OldStubLinks # {}
  BY DEF NothingDangles
<1>1. AtTheEnd
  BY TheEnd DEF FirstRun
<1>2. CASE Loops(disk, p)
  BY <1>1, <1>2, EndlessWay
<1>3. CASE ~Loops(disk, p)
  <2>1. disk[Target(disk, p)] = Absent
    BY <1>3 DEF Exists, Contents
  <2> QED BY <1>1, <1>3, <2>1, OldWay, WayOverTwins
<1> QED BY <1>2, <1>3

\* A first run of a tidy directory that succeeds leaves no link to nothing, but for what
\* the command line asked for and for old links that a new one made too long: the twins
\* of all links come before the deletions (lines 515 and 546), and what a link recorded in
\* the scan leads to is not deleted as private (line 549).
THEOREM NoLinkDangles ==
  ASSUME TidyInputs
  PROVE  Spec => []NothingDangles
<1>1. Inv /\ Layout /\ StoodIn /\ FirstRunOK => NothingDangles
  BY NothingDanglesInState
<1> QED BY <1>1, FirstRunInvariance, PTL
=============================================================================
