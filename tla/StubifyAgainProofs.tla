------------------------- MODULE StubifyAgainProofs -------------------------
(***************************************************************************)
(* A run of Stubify that succeeds after another one that did changes       *)
(* nothing: for any tidy tree, any graph of reexports, any options, any    *)
(* faults and any number of runs.                                          *)
(***************************************************************************)
EXTENDS StubifyLinksProofs

-----------------------------------------------------------------------------
(* What a stub comes to hold *)

\* The private libraries that l reexports, directly or through others.
Needs(graph, l) ==
  {c \in Libs : \A S \in SUBSET Libs : graph[l] \ Kept \subseteq S /\ ClosedIn(graph, S) => c \in S}

\* What inlining makes of the documents of l, when the stubs hold what they do.
Gathered(graph, held, l, docs) ==
  docs \cup Needs(graph, l) \cup UNION {held[c] : c \in Needs(graph, l)}

\* Documents that inlining adds nothing to.
Full(graph, held, l, docs) ==
  Needs(graph, l) \subseteq docs /\ \A c \in Needs(graph, l) : held[c] \subseteq docs

\* It is closed, and the least such set.
LEMMA NeedsFacts ==
  ASSUME NEW graph \in [Libs -> SUBSET Libs], NEW l \in Libs
  PROVE  /\ Needs(graph, l) \subseteq Libs
         /\ graph[l] \ Kept \subseteq Needs(graph, l)
         /\ ClosedIn(graph, Needs(graph, l))
<1>1. ASSUME NEW c \in graph[l] \ Kept PROVE c \in Needs(graph, l)
  <2>1. c \in Libs
    OBVIOUS
  <2> QED BY <2>1 DEF Needs
<1>2. ASSUME NEW c \in Needs(graph, l), NEW e \in graph[c] \ Kept PROVE e \in Needs(graph, l)
  <2>1. c \in Libs /\ e \in Libs
    BY DEF Needs
  <2>2. ASSUME NEW S \in SUBSET Libs, graph[l] \ Kept \subseteq S, ClosedIn(graph, S)
        PROVE  e \in S
    <3>1. c \in S
      BY <2>2 DEF Needs
    <3> QED BY <3>1, <2>2 DEF ClosedIn
  <2> QED BY <2>1, <2>2 DEF Needs
<1> QED BY <1>1, <1>2 DEF Needs, ClosedIn

LEMMA NeedsLeast ==
  ASSUME NEW graph, NEW l, NEW S \in SUBSET Libs, graph[l] \ Kept \subseteq S, ClosedIn(graph, S)
  PROVE  Needs(graph, l) \subseteq S
BY DEF Needs

\* What a library needs is needed by those that need the library.
LEMMA NeedsOfNeeds ==
  ASSUME NEW graph \in [Libs -> SUBSET Libs], NEW l \in Libs, NEW c \in Needs(graph, l)
  PROVE  c \in Libs /\ Needs(graph, c) \subseteq Needs(graph, l)
<1>1. c \in Libs /\ graph[c] \ Kept \subseteq Needs(graph, l)
  BY NeedsFacts DEF ClosedIn
<1>2. Needs(graph, l) \in SUBSET Libs /\ ClosedIn(graph, Needs(graph, l))
  BY NeedsFacts
<1> QED BY <1>1, <1>2, NeedsLeast

\* It is a private library that some library reexports.
LEMMA NeededIsEmbedded ==
  ASSUME NEW graph \in [Libs -> SUBSET Libs], NEW l \in Libs
  PROVE  Needs(graph, l) \subseteq Embedded(graph)
<1>1. Embedded(graph) \in SUBSET Libs
  BY DEF Embedded
<1>2. graph[l] \ Kept \subseteq Embedded(graph)
  BY DEF Embedded
<1>3. ClosedIn(graph, Embedded(graph))
  BY <1>1 DEF Embedded, ClosedIn
<1> QED BY <1>1, <1>2, <1>3, NeedsLeast

\* It is reexported by the library itself, or needed by one that is.
LEMMA NeedsThrough ==
  ASSUME NEW graph \in [Libs -> SUBSET Libs], NEW l \in Libs, NEW e \in Needs(graph, l)
  PROVE  \E c \in graph[l] \ Kept : e = c \/ e \in Needs(graph, c)
<1> DEFINE S == {x \in Libs : \E c \in graph[l] \ Kept : x = c \/ x \in Needs(graph, c)}
<1>1. S \in SUBSET Libs /\ graph[l] \ Kept \subseteq S
  OBVIOUS
<1>2. ASSUME NEW x \in S, NEW y \in graph[x] \ Kept PROVE y \in S
  <2>1. x \in Libs /\ y \in Libs
    OBVIOUS
  <2>2. PICK c \in graph[l] \ Kept : x = c \/ x \in Needs(graph, c)
    OBVIOUS
  <2>3. c \in Libs
    BY <2>2
  <2>4. y \in Needs(graph, c)
    BY <2>2, <2>3, NeedsFacts DEF ClosedIn
  <2> QED BY <2>1, <2>2, <2>4
<1>3. ClosedIn(graph, S)
  BY <1>2 DEF ClosedIn
<1> HIDE DEF S
<1>4. e \in S
  BY <1>1, <1>3, NeedsLeast
<1> QED BY <1>4 DEF S

\* When everything that a library reexports has been taken in, with what that needs,
\* the library has all that it needs.
LEMMA GatheredAll ==
  ASSUME NEW graph \in [Libs -> SUBSET Libs], NEW held, NEW l \in Libs, NEW own, NEW docs,
         own \subseteq docs,
         \A c \in graph[l] \ Kept : {c} \cup Gathered(graph, held, c, held[c]) \subseteq docs
  PROVE  Gathered(graph, held, l, own) \subseteq docs
<1>1. ASSUME NEW e \in Needs(graph, l) PROVE e \in docs /\ held[e] \subseteq docs
  <2>1. PICK c \in graph[l] \ Kept : e = c \/ e \in Needs(graph, c)
    BY NeedsThrough
  <2>2. {c} \cup Gathered(graph, held, c, held[c]) \subseteq docs
    BY <2>1
  <2> QED BY <2>1, <2>2 DEF Gathered
<1> QED BY <1>1 DEF Gathered

\* What a library that l needs has gathered, l gathers.
LEMMA GatheredWithin ==
  ASSUME NEW graph \in [Libs -> SUBSET Libs], NEW held, NEW l \in Libs, NEW own, NEW c \in Needs(graph, l)
  PROVE  {c} \cup Gathered(graph, held, c, held[c]) \subseteq Gathered(graph, held, l, own)
<1>1. Needs(graph, c) \subseteq Needs(graph, l)
  BY NeedsOfNeeds
<1> QED BY <1>1 DEF Gathered

\* What has been gathered is full, and what is full gathers nothing.
LEMMA GatheredIsFull ==
  ASSUME NEW graph, NEW held, NEW l, NEW docs
  PROVE  /\ Full(graph, held, l, Gathered(graph, held, l, docs))
         /\ Full(graph, held, l, docs) <=> Gathered(graph, held, l, docs) = docs
BY DEF Full, Gathered

\* Stubs that come to hold what they would gather, or less, add nothing to documents
\* that had all that they need.
LEMMA StaysFull ==
  ASSUME NEW graph \in [Libs -> SUBSET Libs], NEW held, NEW kept,
         \A c \in Embedded(graph) : kept[c] \subseteq Gathered(graph, held, c, held[c]),
         NEW l \in Libs, NEW docs, Full(graph, held, l, docs)
  PROVE  Full(graph, kept, l, docs)
<1>1. ASSUME NEW c \in Needs(graph, l) PROVE kept[c] \subseteq docs
  <2>1. c \in Embedded(graph)
    BY NeededIsEmbedded
  <2>2. Gathered(graph, held, c, held[c]) \subseteq Gathered(graph, held, l, docs)
    BY GatheredWithin
  <2>3. Gathered(graph, held, l, docs) = docs
    BY GatheredIsFull
  <2> QED BY <2>1, <2>2, <2>3
<1> QED BY <1>1 DEF Full

-----------------------------------------------------------------------------
(* The frames of inlineFrameworks *)

\* What the call for s[i] began with; base is what the library being converted had.
Own(held, base, s, i) == IF i = 1 THEN base ELSE held[s[i].lib]

\* A private reexport is still to be done, is the library of the next call, or has left
\* all that it gathers; and there is nothing else.
GatherFrame(graph, held, base, s, i) ==
  /\ Own(held, base, s, i) \subseteq s[i].docs
  /\ s[i].docs \subseteq Gathered(graph, held, s[i].lib, Own(held, base, s, i))
  /\ \A l \in graph[s[i].lib] \ Kept :
       \/ l \in s[i].todo
       \/ i < Len(s) /\ l = s[i + 1].lib
       \/ {l} \cup Gathered(graph, held, l, held[l]) \subseteq s[i].docs
GatherFrames(graph, held, base, s) == \A i \in 1 .. Len(s) : GatherFrame(graph, held, base, s, i)

\* The frame of the first call, before it has visited anything.
LEMMA GatherFirst ==
  ASSUME NEW graph \in [Libs -> SUBSET Libs], NEW held, NEW l \in Libs, NEW docs \in SUBSET Libs
  PROVE  GatherFrames(graph, held, docs, <<[lib |-> l, todo |-> graph[l], docs |-> docs]>>)
<1> DEFINE s == <<[lib |-> l, todo |-> graph[l], docs |-> docs]>>
<1>1. Len(s) = 1 /\ s[1].lib = l /\ s[1].todo = graph[l] /\ s[1].docs = docs
  OBVIOUS
<1> HIDE DEF s
<1>2. GatherFrame(graph, held, docs, s, 1)
  BY <1>1 DEF GatherFrame, Own, Gathered
<1>3. GatherFrames(graph, held, docs, s)
  BY <1>1, <1>2 DEF GatherFrames
<1> QED BY <1>3 DEF s

\* The frame of a caller whose innermost call has less to do.
LEMMA GatherSkip ==
  ASSUME NEW graph \in [Libs -> SUBSET Libs], NEW held, NEW base, NEW s \in Seq(Frames), s # <<>>,
         GatherFrames(graph, held, base, s), NEW l \in s[Len(s)].todo, l \in Kept
  PROVE  GatherFrames(graph, held, base, WithTodo(s, s[Len(s)].todo \ {l}))
<1> DEFINE rest == s[Len(s)].todo \ {l}
           r == WithTodo(s, rest)
<1>1. Len(s) \in Nat \ {0} /\ rest \in SUBSET Libs
  <2>1. s[Len(s)] \in Frames /\ Len(s) \in Nat \ {0}
    OBVIOUS
  <2> QED BY <2>1 DEF Frames
<1>2. /\ Len(r) = Len(s)
      /\ \A i \in 1 .. Len(s) : /\ r[i].lib = s[i].lib /\ r[i].docs = s[i].docs
                                /\ r[i].todo = IF i = Len(s) THEN rest ELSE s[i].todo
  <2> HIDE DEF rest
  <2> QED BY <1>1, SetTodo
<1> HIDE DEF r
<1>3. ASSUME NEW i \in 1 .. Len(s) PROVE GatherFrame(graph, held, base, r, i)
  <2>1. /\ GatherFrame(graph, held, base, s, i) /\ r[i].lib = s[i].lib /\ r[i].docs = s[i].docs
        /\ Own(held, base, r, i) = Own(held, base, s, i)
    BY <1>1, <1>2 DEF GatherFrames, Own
  <2>2. \A c \in graph[s[i].lib] \ Kept : c \in s[i].todo => c \in r[i].todo
    BY <1>1, <1>2
  <2>3. i < Len(s) => r[i + 1].lib = s[i + 1].lib
    BY <1>1, <1>2
  <2> QED BY <2>1, <2>2, <2>3, <1>2 DEF GatherFrame
<1> QED BY <1>2, <1>3 DEF GatherFrames, r

\* A call for a private reexport begins with what the stub of it holds.
LEMMA GatherDescend ==
  ASSUME NEW graph \in [Libs -> SUBSET Libs], NEW held, NEW base, NEW s \in Seq(Frames), s # <<>>,
         GatherFrames(graph, held, base, s), NEW l \in s[Len(s)].todo, l \notin Kept,
         NEW docs \in SUBSET Libs, docs = held[l]
  PROVE  GatherFrames(graph, held, base, Append(WithTodo(s, s[Len(s)].todo \ {l}),
                                                [lib |-> l, todo |-> graph[l], docs |-> docs]))
<1> DEFINE rest == s[Len(s)].todo \ {l}
           u == WithTodo(s, rest)
           f == [lib |-> l, todo |-> graph[l], docs |-> docs]
           t == Append(u, f)
<1>1. Len(s) \in Nat \ {0} /\ rest \in SUBSET Libs /\ l \in Libs
  <2>1. s[Len(s)] \in Frames /\ Len(s) \in Nat \ {0}
    OBVIOUS
  <2> QED BY <2>1 DEF Frames
<1>2. /\ u \in Seq(Frames) /\ Len(u) = Len(s)
      /\ \A i \in 1 .. Len(s) : /\ u[i].lib = s[i].lib /\ u[i].docs = s[i].docs
                                /\ u[i].todo = IF i = Len(s) THEN rest ELSE s[i].todo
  <2> HIDE DEF rest
  <2> QED BY <1>1, SetTodo
<1>3. f \in Frames /\ f.lib = l /\ f.todo = graph[l] /\ f.docs = docs
  BY <1>1 DEF Frames
<1>4. /\ Len(t) = Len(s) + 1 /\ t[Len(s) + 1] = f
      /\ \A i \in 1 .. Len(s) : t[i] = u[i]
  <2> HIDE DEF u, f
  <2> QED BY <1>1, <1>2, <1>3
<1> HIDE DEF t, u, f
<1>5. ASSUME NEW i \in 1 .. Len(s) + 1 PROVE GatherFrame(graph, held, base, t, i)
  <2>1. CASE i = Len(s) + 1
    <3>1. i # 1 /\ t[i].lib = l /\ t[i].todo = graph[l] /\ t[i].docs = held[l]
      BY <2>1, <1>1, <1>3, <1>4
    <3>2. Own(held, base, t, i) = held[l]
      BY <3>1 DEF Own
    <3> QED BY <3>1, <3>2 DEF GatherFrame, Gathered
  <2>2. CASE i \in 1 .. Len(s)
    <3>1. /\ GatherFrame(graph, held, base, s, i) /\ t[i].lib = s[i].lib /\ t[i].docs = s[i].docs
          /\ Own(held, base, t, i) = Own(held, base, s, i)
      BY <2>2, <1>2, <1>4 DEF GatherFrames, Own
    <3>2. i < Len(s) => i + 1 \in 1 .. Len(s) /\ t[i + 1].lib = s[i + 1].lib /\ t[i].todo = s[i].todo
      BY <2>2, <1>1, <1>2, <1>4
    <3>3. i = Len(s) => t[i + 1].lib = l /\ t[i].todo = rest
      BY <2>2, <1>1, <1>2, <1>3, <1>4
    <3>4. ASSUME NEW c \in graph[s[i].lib] \ Kept
          PROVE  \/ c \in t[i].todo
                 \/ i < Len(t) /\ c = t[i + 1].lib
                 \/ {c} \cup Gathered(graph, held, c, held[c]) \subseteq s[i].docs
      <4>1. \/ c \in s[i].todo
            \/ i < Len(s) /\ c = s[i + 1].lib
            \/ {c} \cup Gathered(graph, held, c, held[c]) \subseteq s[i].docs
        BY <3>1 DEF GatherFrame
      <4>2. i < Len(t)
        BY <2>2, <1>1, <1>4
      <4>3. CASE i < Len(s)
        BY <4>1, <4>2, <4>3, <3>2
      <4>4. CASE i = Len(s)
        BY <4>1, <4>2, <4>4, <3>3
      <4> QED BY <2>2, <1>1, <4>3, <4>4
    <3> QED BY <3>1, <3>4 DEF GatherFrame
  <2> QED BY <1>1, <2>1, <2>2
<1> QED BY <1>4, <1>5 DEF GatherFrames, t, u, f

\* A call that returns leaves its caller all that it has gathered.
LEMMA GatherReturn ==
  ASSUME NEW graph \in [Libs -> SUBSET Libs], NEW held, NEW base, NEW s \in Seq(Frames),
         FramesOK(graph, s), GatherFrames(graph, held, base, s), Len(s) > 1, s[Len(s)].todo = {}
  PROVE  GatherFrames(graph, held, base,
                      WithDocs(SubSeq(s, 1, Len(s) - 1),
                               s[Len(s) - 1].docs \cup (s[Len(s)].docs \cup {s[Len(s)].lib})))
<1> DEFINE n == Len(s) - 1
           u == SubSeq(s, 1, n)
           docs == s[n].docs \cup (s[n + 1].docs \cup {s[n + 1].lib})
           r == WithDocs(u, docs)
           c == s[n + 1].lib
<1>1. n \in Nat \ {0} /\ Len(s) = n + 1 /\ s[n] \in Frames /\ s[n + 1] \in Frames
  OBVIOUS
<1>2. u \in Seq(Frames) /\ Len(u) = n /\ u # <<>> /\ \A i \in 1 .. n : u[i] = s[i]
  <2> HIDE DEF n
  <2> QED BY <1>1
<1>3. docs \in SUBSET Libs
  BY <1>1 DEF Frames
<1>4. /\ Len(r) = n
      /\ \A i \in 1 .. n : /\ r[i].lib = s[i].lib /\ r[i].todo = s[i].todo
                           /\ r[i].docs = IF i = n THEN docs ELSE s[i].docs
  <2> HIDE DEF n, u, docs
  <2> QED BY <1>2, <1>3, SetDocs
<1>5. /\ FrameOK(graph, s, n)
      /\ GatherFrame(graph, held, base, s, n) /\ GatherFrame(graph, held, base, s, n + 1)
  BY <1>1 DEF FramesOK, GatherFrames
<1>6. c \in Libs /\ s[n].lib \in Libs /\ c \in graph[s[n].lib] \ Kept
  BY <1>1, <1>5 DEF FrameOK, Frames
<1>7. c \in Needs(graph, s[n].lib)
  BY <1>6, NeedsFacts
<1>8. Own(held, base, s, n + 1) = held[c]
  BY <1>1 DEF Own
<1>9. s[n + 1].docs \subseteq Gathered(graph, held, c, held[c]) /\ Gathered(graph, held, c, held[c]) \subseteq s[n + 1].docs
  <2>1. /\ held[c] \subseteq s[n + 1].docs /\ s[n + 1].docs \subseteq Gathered(graph, held, c, held[c])
        /\ \A l \in graph[c] \ Kept :
             \/ l \in s[n + 1].todo
             \/ n + 1 < Len(s) /\ l = s[n + 1 + 1].lib
             \/ {l} \cup Gathered(graph, held, l, held[l]) \subseteq s[n + 1].docs
    BY <1>5, <1>8 DEF GatherFrame
  <2>2. \A l \in graph[c] \ Kept : {l} \cup Gathered(graph, held, l, held[l]) \subseteq s[n + 1].docs
    BY <2>1, <1>1
  <2>3. Gathered(graph, held, c, held[c]) \subseteq s[n + 1].docs
    BY <2>1, <2>2, <1>6, GatheredAll
  <2> QED BY <2>1, <2>3
<1>10. docs \subseteq Gathered(graph, held, s[n].lib, Own(held, base, s, n))
  <2>1. {c} \cup Gathered(graph, held, c, held[c]) \subseteq Gathered(graph, held, s[n].lib, Own(held, base, s, n))
    BY <1>6, <1>7, GatheredWithin
  <2>2. s[n].docs \subseteq Gathered(graph, held, s[n].lib, Own(held, base, s, n))
    BY <1>5 DEF GatherFrame
  <2> QED BY <2>1, <2>2, <1>9
<1>11. {c} \cup Gathered(graph, held, c, held[c]) \subseteq docs /\ s[n].docs \subseteq docs
  BY <1>9
<1>12. s[n + 1].lib = c
  OBVIOUS
<1> HIDE DEF n, u, r, c, docs
<1>13. ASSUME NEW i \in 1 .. n PROVE GatherFrame(graph, held, base, r, i)
  <2>1. /\ GatherFrame(graph, held, base, s, i) /\ r[i].lib = s[i].lib /\ r[i].todo = s[i].todo
        /\ Own(held, base, r, i) = Own(held, base, s, i)
    BY <1>1, <1>4 DEF GatherFrames, Own
  <2>2. CASE i = n
    <3>1. r[i].docs = docs /\ s[i].docs \subseteq docs
      BY <2>2, <1>4, <1>11
    <3>2. \A l \in graph[s[i].lib] \ Kept :
            l \in s[i].todo \/ {l} \cup Gathered(graph, held, l, held[l]) \subseteq docs
      <4>1. \A l \in graph[s[i].lib] \ Kept :
              \/ l \in s[i].todo \/ l = s[n + 1].lib
              \/ {l} \cup Gathered(graph, held, l, held[l]) \subseteq s[i].docs
        BY <2>1, <2>2 DEF GatherFrame
      <4> QED BY <4>1, <3>1, <1>11, <1>12
    <3>3. Own(held, base, s, i) \subseteq docs /\ docs \subseteq Gathered(graph, held, s[i].lib, Own(held, base, s, i))
      BY <2>1, <2>2, <1>10, <3>1 DEF GatherFrame
    <3> QED BY <2>1, <3>1, <3>2, <3>3 DEF GatherFrame
  <2>3. CASE i < n
    <3>1. i + 1 \in 1 .. n /\ r[i].docs = s[i].docs /\ i < Len(s) /\ i < Len(r)
      BY <2>3, <1>1, <1>4
    <3>2. r[i + 1].lib = s[i + 1].lib
      BY <3>1, <1>4
    <3> QED BY <2>1, <3>1, <3>2 DEF GatherFrame
  <2> QED BY <1>1, <2>2, <2>3
<1> QED BY <1>1, <1>4, <1>13 DEF GatherFrames, n, u, r, docs

\* A call that has nothing more to do has gathered everything.
LEMMA GatherReturns ==
  ASSUME NEW graph \in [Libs -> SUBSET Libs], NEW held, NEW base, NEW s \in Seq(Frames),
         GatherFrames(graph, held, base, s), Len(s) = 1, s[1].todo = {}
  PROVE  s[1].docs = Gathered(graph, held, s[1].lib, base)
<1>1. s[1] \in Frames /\ s[1].lib \in Libs
  <2>1. s[1] \in Frames
    OBVIOUS
  <2> QED BY <2>1 DEF Frames
<1>2. GatherFrame(graph, held, base, s, 1) /\ Own(held, base, s, 1) = base
  BY DEF GatherFrames, Own
<1>3. /\ base \subseteq s[1].docs /\ s[1].docs \subseteq Gathered(graph, held, s[1].lib, base)
      /\ \A l \in graph[s[1].lib] \ Kept : {l} \cup Gathered(graph, held, l, held[l]) \subseteq s[1].docs
  BY <1>2 DEF GatherFrame
<1>4. Gathered(graph, held, s[1].lib, base) \subseteq s[1].docs
  <2>1. PICK l, docs : l = s[1].lib /\ docs = s[1].docs
    OBVIOUS
  <2>2. /\ l \in Libs /\ base \subseteq docs
        /\ \A c \in graph[l] \ Kept : {c} \cup Gathered(graph, held, c, held[c]) \subseteq docs
    BY <1>1, <1>3, <2>1
  <2>3. Gathered(graph, held, l, base) \subseteq docs
    BY <2>2, GatheredAll
  <2> QED BY <2>1, <2>3
<1> QED BY <1>3, <1>4

\* One step of the recursion.
LEMMA GatherStep ==
  ASSUME Inv, Inl!Step, NEW base, GatherFrames(reexports, Held, base, stack)
  PROVE  /\ GatherFrames(reexports, Held, base, stack') \/ pc' \in Ended
         /\ pc' = "write" => stack'[1].docs = Gathered(reexports, Held, stack'[1].lib, base)
<1>1. /\ reexports \in [Libs -> SUBSET Libs] /\ stack \in Seq(Frames) /\ FramesOK(reexports, stack)
      /\ pc = "inline" /\ stack # <<>>
  BY InlineStep DEF Inv, TypeOK, StackOK
<1>2. Inl!top = stack[Len(stack)] /\ Inl!top \in Frames
  BY <1>1 DEF Inl!top
<1>3. CASE Inl!Skip
  <2>1. PICK l \in stack[Len(stack)].todo : l \in Kept /\ stack' = Inl!Done(l)
    BY <1>2, <1>3 DEF Inl!Skip, Inl!Followed
  <2>2. stack' = WithTodo(stack, stack[Len(stack)].todo \ {l})
    BY <2>1 DEF Inl!Done, WithTodo
  <2>3. GatherFrames(reexports, Held, base, stack')
    BY <1>1, <2>1, <2>2, GatherSkip
  <2> QED BY <2>3, <1>1, <1>3 DEF Inl!Skip
<1>4. CASE Inl!Descend
  <2>1. PICK l \in stack[Len(stack)].todo : l \notin Kept /\ stack' = Append(Inl!Done(l), Inl!Frame(l))
    BY <1>2, <1>4 DEF Inl!Descend, Inl!Followed
  <2>2. l \in Libs /\ Held[l] \in SUBSET Libs
    BY <1>2, <2>1, HeldOK DEF Frames
  <2>3. stack' = Append(WithTodo(stack, stack[Len(stack)].todo \ {l}),
                        [lib |-> l, todo |-> reexports[l], docs |-> Held[l]])
    BY <2>1 DEF Inl!Done, Inl!Frame, WithTodo
  <2>4. PICK held : held = Held
    OBVIOUS
  <2>5. PICK docs : docs = held[l]
    OBVIOUS
  <2>6. GatherFrames(reexports, held, base, stack')
    <3>1. docs \in SUBSET Libs /\ GatherFrames(reexports, held, base, stack)
      BY <2>2, <2>4, <2>5
    <3>2. stack' = Append(WithTodo(stack, stack[Len(stack)].todo \ {l}),
                          [lib |-> l, todo |-> reexports[l], docs |-> docs])
      BY <2>3, <2>4, <2>5
    <3> QED BY <1>1, <2>1, <2>5, <3>1, <3>2, GatherDescend
  <2> QED BY <2>4, <2>6, <1>1, <1>4 DEF Inl!Descend
<1>5. CASE Inl!inlineLibrary
  <2>1. Len(stack) > 1 /\ stack[Len(stack)].todo = {}
    BY <1>2, <1>5 DEF Inl!inlineLibrary
  <2>2. stack' = [SubSeq(stack, 1, Len(stack) - 1) EXCEPT
                    ![Len(stack) - 1].docs = @ \cup (stack[Len(stack)].docs \cup {stack[Len(stack)].lib})]
    BY <1>2, <1>5 DEF Inl!inlineLibrary, Inl!MovedUp
  <2>3. /\ Len(SubSeq(stack, 1, Len(stack) - 1)) = Len(stack) - 1
        /\ SubSeq(stack, 1, Len(stack) - 1)[Len(stack) - 1] = stack[Len(stack) - 1]
    BY <1>1, <2>1
  <2>4. stack' = WithDocs(SubSeq(stack, 1, Len(stack) - 1),
                          stack[Len(stack) - 1].docs \cup (stack[Len(stack)].docs \cup {stack[Len(stack)].lib}))
    BY <2>2, <2>3 DEF WithDocs
  <2>5. GatherFrames(reexports, Held, base, stack')
    BY <1>1, <2>1, <2>4, GatherReturn
  <2> QED BY <2>5, <1>1, <1>5 DEF Inl!inlineLibrary
<1>6. CASE Inl!CannotFind \/ Inl!CannotConvert \/ Inl!Overflow
  BY <1>6 DEF Inl!CannotFind, Inl!CannotConvert, Inl!Overflow, Ended
<1>7. CASE Inl!Return
  <2>1. Len(stack) = 1 /\ stack[1].todo = {} /\ stack' = stack
    BY <1>2, <1>7 DEF Inl!Return
  <2>2. stack[1].docs = Gathered(reexports, Held, stack[1].lib, base)
    BY <1>1, <2>1, GatherReturns
  <2> QED BY <2>1, <2>2
<1> QED BY <1>3, <1>4, <1>5, <1>6, <1>7 DEF Inl!Step

-----------------------------------------------------------------------------
(* What a step does to the files *)

\* What StubifyProofs, StubifyTreeProofs and StubifyLinksProofs establish of every state.
Known == Inv /\ Layout /\ StoodIn /\ FirstRunOK

LEMMA KnownStep ==
  ASSUME Known, [Next]_vars
  PROVE  Known'
<1>1. Inv' /\ Layout'
  BY InvStep, LayoutStep DEF Known
<1>2. StoodIn'
  BY StoodInSkips, StoodInScan, StoodInConvert, StoodInAllConverted, StoodInReadInput, StoodInWriteFile,
     StoodInRelink, StoodInDelete, StoodInDeleteInput, NextCases DEF Known
<1>3. FirstRunOK'
  BY FirstRunBegin, FirstRunScan, FirstRunConvert, FirstRunWriteFile, FirstRunRemoveLink,
     FirstRunCreateLink, FirstRunAllConverted, FirstRunDelete, FirstRunEnds, FirstRunOneFile,
     FirstRunStutters, NextCases DEF Known
<1> QED BY <1>1, <1>2, <1>3 DEF Known

LEMMA KnownTypes ==
  ASSUME Known
  PROVE  /\ disk \in [Paths -> Nodes] /\ first \in [Paths -> Nodes] /\ FirstOK /\ TreeOK
         /\ reexports \in [Libs -> SUBSET Libs] /\ opts \in Options
         /\ dylibs \in [Stems -> Nodes] /\ originalNames \in [Stems -> Paths \cup {None}]
         /\ symlinks \subseteq Symlinks /\ todo \subseteq Paths /\ left \subseteq Stems
         /\ toDelete \subseteq Paths \X BOOLEAN
BY DEF Known, Inv, TypeOK, Layout, TreeOK, FirstOK

\* The write changes the stub of the library being converted, and no link is in its place.
LEMMA WriteStep ==
  ASSUME Known, WriteFile
  PROVE  /\ pc = "write" /\ current \in Stems /\ output = StubOf(current) /\ output \in Paths
         /\ Stem(output) = current /\ IsTbd(output) /\ disk[output].is # "link" /\ Contents(disk, output) = disk[output]
         /\ UNCHANGED <<opts, reexports, runs, todo, symlinks, dylibs, originalNames, left, current>>
         /\ UNCHANGED <<stack, link, first, after>>
         /\ stub \in Nodes /\ stub = Text(stack[1].lib, stack[1].docs)
         /\ disk[output] = stub => disk' = disk
         /\ \/ pc' \in {"failed", "crashed"} /\ UNCHANGED <<links, toDelete>>
            \/ disk' = [disk EXCEPT ![output] = stub] /\ AfterWrite
         /\ disk' = disk \/ \E n \in {stub, Part(stack[1].lib), Damaged, Other} :
                              n \in Nodes /\ disk' = [disk EXCEPT ![output] = n]
<1>1. /\ pc = "write" /\ disk \in [Paths -> Nodes] /\ Inv /\ Layout
      /\ UNCHANGED <<opts, reexports, runs, todo, symlinks, dylibs, originalNames, left, current>>
      /\ UNCHANGED <<stack, link, first, after>>
  BY DEF WriteFile, input, scan, Known, Inv, TypeOK
<1>2. /\ current \in Stems /\ output \in Paths /\ IsTbd(output) /\ Stem(output) = current
      /\ Written = {output} /\ Contents(disk, output) = disk[output]
      /\ \A n \in {stub, Part(stack[1].lib), Damaged, Other} : n \in Nodes
  BY <1>1, OutputFacts
<1>3. disk[output].is # "link"
  BY <1>1 DEF Layout, CurrentOK, Home, output
<1>4. \/ /\ IF disk[output] = stub THEN UNCHANGED disk ELSE disk' = [disk EXCEPT ![output] = stub]
         /\ AfterWrite
      \/ disk' = disk /\ pc' = "failed" /\ UNCHANGED <<links, toDelete>>
      \/ /\ disk[output] # stub /\ pc' = "crashed" /\ UNCHANGED <<links, toDelete>>
         /\ \E n \in {Part(stack[1].lib), Damaged, Other} : disk' = [disk EXCEPT ![output] = n]
  BY <1>2 DEF WriteFile, WriteFailed, Fail
<1>5. disk[output] = stub => disk = [disk EXCEPT ![output] = stub]
  BY <1>1, <1>2
<1>6. \/ pc' \in {"failed", "crashed"} /\ UNCHANGED <<links, toDelete>>
      \/ disk' = [disk EXCEPT ![output] = stub] /\ AfterWrite
  BY <1>4, <1>5
<1>7. disk[output] = stub => disk' = disk
  BY <1>4
<1>8. disk' = disk \/ \E n \in {stub, Part(stack[1].lib), Damaged, Other} :
                        n \in Nodes /\ disk' = [disk EXCEPT ![output] = n]
  BY <1>2, <1>4
<1> QED BY <1>1, <1>2, <1>3, <1>6, <1>7, <1>8 DEF output, stub

\* A twin that is removed or made is that of a public link of the first tree.
LEMMA RelinkStep ==
  ASSUME Known, RemoveLink \/ CreateLink
  PROVE  /\ pc \in {"relink", "link"} /\ opts.file = None
         /\ UNCHANGED <<opts, reexports, runs, todo, symlinks, dylibs, originalNames, left, current>>
         /\ UNCHANGED <<stack, first, after>>
         /\ \/ pc' = "failed" /\ UNCHANGED <<disk, toDelete>>
            \/ \E y \in symlinks :
                 /\ y.target = originalNames[current] /\ y.src \in PublicLinks /\ y.to = first[y.src].to
                 /\ \/ /\ pc = "relink" /\ pc' = "link" /\ link' = y /\ toDelete' = toDelete
                       /\ disk' = [disk EXCEPT ![Tbd(y.src)] = Absent]
                    \/ /\ pc = "link" /\ pc' = "relink" /\ link = y
                       /\ disk' = [disk EXCEPT ![Tbd(y.src)] = Link(Tbd(y.to))]
                       /\ toDelete' = IF opts.deleteInput THEN toDelete \cup {<<y.src, TRUE>>} ELSE toDelete
<1>1. /\ pc \in {"relink", "link"} /\ opts.file = None /\ Inv /\ Layout
      /\ UNCHANGED <<opts, reexports, runs, todo, symlinks, dylibs, originalNames, left, current>>
      /\ UNCHANGED <<stack, first, after>>
  BY DEF RemoveLink, CreateLink, input, scan, history, Known, Layout, CurrentOK
<1>2. CASE RemoveLink
  <2>1. CASE pc' = "failed" /\ UNCHANGED <<disk, toDelete>>
    BY <1>1, <2>1
  <2>2. CASE pc' # "failed"
    <3>1. PICK y \in links : /\ disk' = [disk EXCEPT ![Tbd(y.src)] = Absent]
                             /\ link' = y /\ pc' = "link" /\ pc = "relink" /\ toDelete' = toDelete
      BY <1>2, <2>2 DEF RemoveLink, Fail
    <3>2. y \in symlinks /\ y.target = originalNames[current]
      BY <1>1, <3>1 DEF Inv, TypeOK, Layout, CurrentOK
    <3>3. y.src \in PublicLinks /\ y.to = first[y.src].to
      BY <1>1, <3>2, RelinkedIsPublic
    <3> QED BY <1>1, <3>1, <3>2, <3>3
  <2> QED BY <1>2, <2>1, <2>2 DEF RemoveLink, Fail
<1>3. CASE CreateLink
  <2>1. CASE pc' = "failed" /\ UNCHANGED <<disk, toDelete>>
    BY <1>1, <2>1
  <2>2. CASE pc' # "failed"
    <3>1. PICK y : y = link
      OBVIOUS
    <3>2. /\ disk' = [disk EXCEPT ![Tbd(y.src)] = Link(Tbd(y.to))] /\ pc' = "relink" /\ pc = "link"
          /\ toDelete' = IF opts.deleteInput THEN toDelete \cup {<<y.src, TRUE>>} ELSE toDelete
      BY <1>3, <2>2, <3>1 DEF CreateLink, Fail, TwinTarget
    <3>3. y \in symlinks /\ y.target = originalNames[current]
      BY <1>1, <3>1, <3>2 DEF Inv, TypeOK, Layout, CurrentOK
    <3>4. y.src \in PublicLinks /\ y.to = first[y.src].to
      BY <1>1, <3>3, RelinkedIsPublic
    <3> QED BY <1>1, <3>1, <3>2, <3>3, <3>4
  <2> QED BY <1>3, <2>1, <2>2 DEF CreateLink, Fail
<1> QED BY <1>2, <1>3

\* A deletion takes away an input that is not a stub, or a private file.
LEMMA DeleteStep ==
  ASSUME Known, Delete
  PROVE  /\ pc = "delete" /\ opts.file = None
         /\ UNCHANGED <<opts, reexports, runs, todo, symlinks, dylibs, originalNames, left, current>>
         /\ UNCHANGED <<stack, links, link, first, after>>
         /\ \/ pc' = "failed" /\ UNCHANGED <<disk, toDelete>>
            \/ \E p \in Paths, b \in BOOLEAN :
                 /\ pc' = "delete" /\ <<p, b>> \in toDelete /\ toDelete' = toDelete \ {<<p, b>>}
                 /\ IF b THEN ~IsTbd(p) ELSE Excluded(p)
                 /\ IF Protected(p, b) THEN disk' = disk ELSE disk' = [disk EXCEPT ![p] = Absent]
<1>1. /\ pc = "delete" /\ opts.file = None /\ Inv /\ Layout
      /\ UNCHANGED <<opts, reexports, runs, todo, symlinks, dylibs, originalNames, left, current>>
      /\ UNCHANGED <<stack, links, link, first, after>>
  BY DEF Delete, input, scan, history, Known, Layout, CurrentOK
<1>2. CASE pc' = "failed" /\ UNCHANGED <<disk, toDelete>>
  BY <1>1, <1>2
<1>3. CASE pc' # "failed"
  <2>1. PICK d \in toDelete : /\ toDelete' = toDelete \ {d} /\ pc' = "delete"
                              /\ IF Protected(d[1], d[2]) THEN disk' = disk ELSE disk' = [disk EXCEPT ![d[1]] = Absent]
    BY <1>1, <1>3 DEF Delete, Fail, tree
  <2>2. PICK p, b : p = d[1] /\ b = d[2]
    OBVIOUS
  <2>3. d = <<p, b>> /\ p \in Paths /\ b \in BOOLEAN
    BY <1>1, <2>2 DEF Inv, TypeOK
  <2>4. IF b THEN ~IsTbd(p) ELSE Excluded(p)
    BY <1>1, <2>2 DEF Layout, RecordsOK, Excluded
  <2>5. /\ toDelete' = toDelete \ {<<p, b>>} /\ <<p, b>> \in toDelete
        /\ IF Protected(p, b) THEN disk' = disk ELSE disk' = [disk EXCEPT ![p] = Absent]
    BY <2>1, <2>2, <2>3
  <2> QED BY <1>1, <2>1, <2>3, <2>4, <2>5
<1> QED BY <1>2, <1>3 DEF Delete, Fail, tree

Quiet == Begin \/ Crash \/ Scan \/ Scanned \/ Convert \/ inlineFrameworks \/ Converted \/ AllConverted
           \/ Deleted \/ ReadInput \/ UNCHANGED Seen

LEMMA QuietStep ==
  ASSUME Quiet
  PROVE  UNCHANGED <<disk, opts, reexports, first>>
BY DEF Quiet, Begin, Crash, Scan, Scanned, Convert, inlineFrameworks, Converted, AllConverted, Deleted,
       ReadInput, Seen, tree, input, history

\* A stub is written in its place, a twin is removed or made, or a file is deleted.
WritesStub(p) == pc = "write" /\ p = output /\ disk'[p] \in {stub, Part(stack[1].lib), Damaged, Other}
Relinks(p) == /\ pc \in {"relink", "link"} /\ opts.file = None
              /\ \E q \in PublicLinks : p = Tbd(q) /\ disk'[p] \in {Absent, Link(Tbd(first[q].to))}
Deletes(p) == pc \in {"delete", "deleteInput"} /\ disk'[p] = Absent

\* Every change of a file is one of these.
LEMMA FileChanges ==
  ASSUME Known, [Next]_vars
  PROVE  /\ UNCHANGED <<opts, first, reexports>>
         /\ \A p \in Paths : disk'[p] = disk[p] \/ WritesStub(p) \/ Relinks(p) \/ Deletes(p)
<1>0. disk \in [Paths -> Nodes] /\ Inv /\ Layout
  BY DEF Known, Inv, TypeOK
<1>1. CASE Quiet
  BY <1>1, QuietStep
<1>2. CASE WriteFile
  <2>1. /\ pc = "write" /\ UNCHANGED <<opts, first, reexports>>
        /\ disk' = disk \/ \E n \in {stub, Part(stack[1].lib), Damaged, Other} :
                             n \in Nodes /\ disk' = [disk EXCEPT ![output] = n]
    BY <1>2, WriteStep
  <2> QED BY <1>0, <2>1 DEF WritesStub
<1>3. CASE RemoveLink \/ CreateLink
  <2>1. UNCHANGED <<opts, first, reexports>> /\ pc \in {"relink", "link"} /\ opts.file = None
    BY <1>3, RelinkStep
  <2>2. disk' = disk \/ \E q \in PublicLinks : \/ disk' = [disk EXCEPT ![Tbd(q)] = Absent]
                                               \/ disk' = [disk EXCEPT ![Tbd(q)] = Link(Tbd(first[q].to))]
    BY <1>3, RelinkStep
  <2>3. CASE disk' = disk
    BY <2>1, <2>3
  <2>4. CASE disk' # disk
    <3>1. PICK q \in PublicLinks : \/ disk' = [disk EXCEPT ![Tbd(q)] = Absent]
                                   \/ disk' = [disk EXCEPT ![Tbd(q)] = Link(Tbd(first[q].to))]
      BY <2>2, <2>4
    <3>2. PICK n : n \in {Absent, Link(Tbd(first[q].to))} /\ disk' = [disk EXCEPT ![Tbd(q)] = n]
      BY <3>1
    <3>3. \A p \in Paths : disk'[p] = disk[p] \/ (p = Tbd(q) /\ disk'[p] = n)
      BY <1>0, <3>2
    <3> QED BY <2>1, <3>2, <3>3 DEF Relinks
  <2> QED BY <2>3, <2>4
<1>4. CASE Delete
  <2>1. /\ UNCHANGED <<opts, first, reexports>> /\ pc = "delete"
        /\ disk' = disk \/ \E p \in Paths : disk' = [disk EXCEPT ![p] = Absent]
    BY <1>4, DeleteStep
  <2> QED BY <1>0, <2>1 DEF Deletes
<1>5. CASE DeleteInput
  <2>1. /\ UNCHANGED <<opts, first, reexports>> /\ pc = "deleteInput"
        /\ disk' = disk \/ \E p : disk' = [disk EXCEPT ![p] = Absent]
    BY <1>5 DEF DeleteInput, input, history
  <2> QED BY <1>0, <2>1 DEF Deletes
<1> QED BY <1>1, <1>2, <1>3, <1>4, <1>5, NextCases DEF Quiet

-----------------------------------------------------------------------------
(* The places of the libraries *)

\* What a run embeds is where its install name points: that is what the tool expects of
\* the trees that it may begin with, besides that they are tidy.
PlacedInputs == \A i \in Inputs : i.opts.inline => PlacedTree(i.disk, i.reexports)

\* And so they stay: no file of another library comes to the place of an embedded one.
PlaceOK == opts.inline =>
  \A l \in Embedded(reexports) :
    /\ \A p \in Paths : Stem(p) = Stem(Place(l)) =>
         first[p].is # "link" /\ (disk[p].is \in Interface => disk[p].lib = l)
    /\ dylibs[Stem(Place(l))] # Absent => dylibs[Stem(Place(l))].lib = l
    /\ current = Stem(Place(l)) /\ pc \in {"inline", "write"} => stack[1].lib = l

LEMMA PlaceFacts ==
  ASSUME NEW l \in Libs
  PROVE  /\ Place(l) \in Paths /\ Stem(Place(l)) \in Stems /\ Real(Place(l)) = Place(l)
         /\ Tbd(Place(l)) = StubOf(Stem(Place(l))) /\ Tbd(Place(l)) \in Paths
         /\ Real(Tbd(Place(l))) = Tbd(Place(l)) /\ IsTbd(Tbd(Place(l)))
         /\ Stem(Tbd(Place(l))) = Stem(Place(l))
<1>1. LibPath[l] \in Paths
  BY TreeAssumption
<1>2. Place(l) \in Paths /\ Real(Place(l)) = Place(l)
  BY <1>1, PathFacts, TbdFacts DEF Place
<1> QED BY <1>2, PathFacts, TbdFacts

LEMMA EmbeddedAreLibs ==
  ASSUME Known
  PROVE  Embedded(reexports) \subseteq Libs
BY KnownTypes DEF Embedded

\* A file that is not a link is what every path to it leads to.
LEMMA ThroughAlias ==
  ASSUME NEW d \in [Paths -> Nodes], NEW p \in Paths, d[Real(p)].is # "link"
  PROVE  Contents(d, p) = d[Real(p)]
<1>1. Real(p) \in Hops(d, p)
  BY HopsFacts
<1>2. Target(d, p) = Real(p)
  BY <1>1, LastHop
<1> QED BY <1>2 DEF Contents, Loops

\* The stub of an embedded library holds what inlining reads of the library.
LEMMA HeldFacts ==
  ASSUME Known, PlaceOK, opts.inline, NEW l \in Embedded(reexports)
  PROVE  Held[l] = Docs(disk[Tbd(Place(l))])
<1>1. l \in Libs /\ disk \in [Paths -> Nodes] /\ TreeOK /\ NewLinksOK /\ FirstOK
  BY EmbeddedAreLibs, KnownTypes DEF Known, FirstRunOK
<1>2. /\ Place(l) \in Paths /\ Real(Place(l)) = Place(l) /\ Tbd(Place(l)) \in Paths
      /\ Stem(Tbd(Place(l))) = Stem(Place(l)) /\ LibPath[l] \in Paths /\ Tbd(LibPath[l]) \in Paths
      /\ Real(Tbd(LibPath[l])) = Tbd(Place(l)) /\ Real(LibPath[l]) = Place(l)
  BY <1>1, PlaceFacts, TreeAssumption, PathFacts, TbdFacts DEF Place
<1>3. \A p \in Paths : Stem(p) = Stem(Place(l)) => first[p].is # "link"
  BY DEF PlaceOK
<1>4. disk[Tbd(Place(l))].is # "link"
  <2>1. SUFFICES ASSUME disk[Tbd(Place(l))].is = "link" PROVE FALSE
    OBVIOUS
  <2>2. disk[Tbd(Place(l))] # first[Tbd(Place(l))]
    BY <2>1, <1>2, <1>3
  <2>3. PICK q \in PublicLinks : Tbd(Place(l)) = Tbd(q)
    BY <2>1, <2>2, <1>1, <1>2 DEF NewLinksOK
  <2>4. q \in Paths /\ first[q].is = "link"
    BY <1>1, PublicFacts
  <2>5. Stem(q) = Stem(Place(l))
    BY <2>3, <2>4, <1>2, SameTwin
  <2> QED BY <2>4, <2>5, <1>3
<1>5. Contents(disk, Tbd(LibPath[l])) = disk[Tbd(Place(l))]
  BY <1>1, <1>2, <1>4, ThroughAlias
<1>6. CASE disk[Tbd(Place(l))] # Absent
  <2>1. LibFile(l) = disk[Tbd(Place(l))]
    BY <1>5, <1>6 DEF LibFile, Exists
  <2> QED BY <1>1, <2>1 DEF Held, Docs
<1>7. CASE disk[Tbd(Place(l))] = Absent
  <2>1. LibFile(l) = Contents(disk, LibPath[l])
    BY <1>5, <1>7 DEF LibFile, Exists
  <2>2. disk[Place(l)].is # "link" /\ disk[Place(l)].is \notin Textual
    <3>1. CASE IsTbd(Place(l))
      <4>1. Tbd(Place(l)) = Place(l)
        BY <3>1, <1>2, TbdFacts
      <4> QED BY <4>1, <1>7 DEF Absent, Textual
    <3>2. CASE ~IsTbd(Place(l))
      <4>1. disk[Place(l)] \in {first[Place(l)], Absent} /\ disk[Place(l)].is \notin Textual
        BY <3>2, <1>1, <1>2, TreeFacts
      <4> QED BY <4>1, <1>2, <1>3 DEF Absent
    <3> QED BY <3>1, <3>2
  <2>3. LibFile(l) = disk[Place(l)]
    BY <2>1, <2>2, <1>1, <1>2, ThroughAlias
  <2>4. Held[l] = {}
    BY <1>1, <2>2, <2>3 DEF Held
  <2>5. Docs(disk[Tbd(Place(l))]) = {}
    BY <1>7 DEF Docs, Absent, Textual
  <2> QED BY <2>4, <2>5
<1> QED BY <1>6, <1>7

\* And so it does after a step.
HeldPlaced == opts.inline => \A l \in Embedded(reexports) : Held[l] = Docs(disk[Tbd(Place(l))])

LEMMA HeldPlacedNow ==
  Known /\ PlaceOK => HeldPlaced
BY HeldFacts DEF HeldPlaced

LEMMA HeldPlacedNext ==
  Known' /\ PlaceOK' => HeldPlaced'
BY HeldPlacedNow, PTL

\* What the tree has at the places of libraries, as long as no file of another library
\* comes there.
LEMMA PlaceFilesStep ==
  ASSUME Known, PlaceOK, [Next]_vars, opts.inline, NEW l \in Embedded(reexports), NEW p \in Paths,
         Stem(p) = Stem(Place(l))
  PROVE  first'[p].is # "link" /\ (disk'[p].is \in Interface => disk'[p].lib = l)
<1>1. /\ UNCHANGED <<opts, first, reexports>>
      /\ disk'[p] = disk[p] \/ WritesStub(p) \/ Relinks(p) \/ Deletes(p)
  BY FileChanges
<1>2. first[p].is # "link" /\ (disk[p].is \in Interface => disk[p].lib = l)
  BY DEF PlaceOK
<1>3. CASE WritesStub(p)
  <2>1. pc = "write" /\ Stem(p) = current
    BY <1>3, OutputFacts DEF WritesStub, Known
  <2>2. stack[1].lib = l
    BY <2>1 DEF PlaceOK
  <2>3. disk'[p].is \in Interface => disk'[p].lib = stack[1].lib
    BY <1>3 DEF WritesStub, stub, Text, Part, Damaged, Other, Interface, Textual
  <2> QED BY <1>1, <1>2, <2>2, <2>3
<1>4. CASE Relinks(p) \/ Deletes(p)
  <2>1. disk'[p].is \notin Interface
    BY <1>4 DEF Relinks, Deletes, Absent, Link, Interface, Textual
  <2> QED BY <1>1, <1>2, <2>1
<1> QED BY <1>1, <1>2, <1>3, <1>4

\* The library being converted, from step to step.
LEMMA MapsStep ==
  ASSUME Known, [Next]_vars
  PROVE  /\ \A s \in Stems : \/ dylibs'[s] = dylibs[s] \/ dylibs'[s] = Absent
                             \/ /\ pc = "scan" /\ todo # {} /\ opts.file = None
                                /\ \E p \in Paths : /\ s = Stem(p) /\ ~Excluded(p) /\ disk[p].is \in Interface
                                                    /\ dylibs'[s] = disk[p]
         /\ pc' \in {"inline", "write"} =>
              \/ /\ current' = current /\ pc \in {"inline", "write"} /\ stack'[1].lib = stack[1].lib
                 /\ dylibs' = dylibs
              \/ /\ pc = "next" /\ dylibs' = dylibs
                 /\ current' \in left /\ stack'[1].lib = dylibs[current'].lib
              \/ /\ pc = "read" /\ current' = Stem(Target(disk, opts.file))
                 /\ Contents(disk, opts.file).is \in Interface
                 /\ stack'[1].lib = Contents(disk, opts.file).lib
<1>1. Inv /\ Layout /\ dylibs \in [Stems -> Nodes] /\ todo \subseteq Paths
  BY KnownTypes DEF Known
<1>2. CASE Begin \/ Crash
  <2>1. dylibs' = [s \in Stems |-> Absent] /\ pc' \in {"scan", "read", "crashed"}
    BY <1>2 DEF Begin, Crash, Fresh
  <2> QED BY <2>1
<1>3. CASE Scan
  <2>1. PICK p \in todo : ScanPrivate(p) \/ ScanLink(p) \/ ScanFile(p) \/ ScanOther(p) \/ ScanError(p)
    BY <1>3 DEF Scan
  <2>2. pc = "scan" /\ p \in Paths /\ pc' \in {"scan", "failed"} /\ opts.file = None
    <3>1. pc = "scan" /\ p \in Paths
      BY <1>1, <1>3, <2>1 DEF Scan
    <3> QED BY <1>1, <2>1, <3>1, ScanEntry DEF Layout, CurrentOK
  <2>3. CASE ScanFile(p)
    <3>1. /\ disk[p].is \in Interface /\ ~Excluded(p)
          /\ dylibs' = dylibs \/ dylibs' = [dylibs EXCEPT ![Stem(p)] = disk[p]]
      BY <2>3 DEF ScanFile, Excluded
    <3>2. \A s \in Stems : dylibs'[s] = dylibs[s] \/ (s = Stem(p) /\ dylibs'[s] = disk[p])
      BY <1>1, <3>1
    <3> QED BY <2>1, <2>2, <3>1, <3>2
  <2>4. CASE dylibs' = dylibs
    BY <2>2, <2>4
  <2> QED BY <2>1, <2>3, <2>4 DEF ScanPrivate, ScanLink, ScanOther, ScanError, scan
<1>4. CASE Convert
  <2>1. dylibs' = dylibs /\ pc = "next"
    BY <1>4 DEF Convert, scan
  <2>2. pc' \in {"inline", "write"} => current' \in left /\ stack'[1].lib = dylibs[current'].lib
    <3>1. PICK s \in left : /\ current' = s
                            /\ CallInline(dylibs[s].lib, Docs(dylibs[s])) \/ (Fail /\ UNCHANGED stack)
      BY <1>4 DEF Convert
    <3>2. CallInline(dylibs[s].lib, Docs(dylibs[s])) => stack'[1].lib = dylibs[s].lib
      BY CalledFor
    <3> QED BY <3>1, <3>2 DEF Fail
  <2> QED BY <2>1, <2>2
<1>5. CASE inlineFrameworks
  <2>1. dylibs' = dylibs /\ current' = current /\ pc = "inline"
    BY <1>5, <1>1, InlineStep DEF inlineFrameworks, scan
  <2>2. stack'[1].lib = stack[1].lib
    BY <1>5, <1>1, SameLibrary DEF inlineFrameworks
  <2> QED BY <2>1, <2>2
<1>6. CASE ReadInput
  <2>1. dylibs' = dylibs /\ pc = "read" /\ current' = Stem(Target(disk, opts.file))
    BY <1>6 DEF ReadInput
  <2>2. PICK node : node = Contents(disk, opts.file)
    OBVIOUS
  <2>3. \/ node.is \in Interface /\ CallInline(node.lib, Docs(node))
        \/ Fail
    BY <1>6, <2>2 DEF ReadInput
  <2>4. CallInline(node.lib, Docs(node)) => stack'[1].lib = node.lib
    BY CalledFor
  <2>5. pc' \in {"inline", "write"} => node.is \in Interface /\ stack'[1].lib = node.lib
    BY <2>3, <2>4 DEF Fail
  <2> QED BY <2>1, <2>2, <2>5
<1>7. CASE UNCHANGED Seen
  BY <1>7 DEF Seen, scan
<1>8. CASE WriteFile
  <2>1. dylibs' = dylibs
    BY <1>8, WriteStep
  <2>2. pc' \in {"failed", "crashed", "relink", "deleteInput", "done"}
    BY <1>8, WriteStep DEF AfterWrite
  <2> QED BY <2>1, <2>2
<1>9. CASE RemoveLink \/ CreateLink
  BY <1>9, RelinkStep
<1>10. CASE Delete
  BY <1>10, DeleteStep
<1>11. CASE Scanned \/ Converted \/ AllConverted \/ Deleted \/ DeleteInput
  BY <1>11 DEF Scanned, Converted, AllConverted, Deleted, DeleteInput, Fail, scan
<1> QED BY <1>2, <1>3, <1>4, <1>5, <1>6, <1>7, <1>8, <1>9, <1>10, <1>11, NextCases

\* The places are kept.
LEMMA PlaceStep ==
  ASSUME Known, PlaceOK, [Next]_vars
  PROVE  PlaceOK'
<1>1. UNCHANGED <<opts, first, reexports>>
  BY FileChanges
<1>2. SUFFICES ASSUME opts.inline, NEW l \in Embedded(reexports)
      PROVE  /\ \A p \in Paths : Stem(p) = Stem(Place(l)) =>
                  first'[p].is # "link" /\ (disk'[p].is \in Interface => disk'[p].lib = l)
             /\ dylibs'[Stem(Place(l))] # Absent => dylibs'[Stem(Place(l))].lib = l
             /\ current' = Stem(Place(l)) /\ pc' \in {"inline", "write"} => stack'[1].lib = l
  BY <1>1 DEF PlaceOK
<1>3. \A p \in Paths : Stem(p) = Stem(Place(l)) =>
        first'[p].is # "link" /\ (disk'[p].is \in Interface => disk'[p].lib = l)
  BY <1>2, PlaceFilesStep
<1>4. l \in Libs /\ Stem(Place(l)) \in Stems /\ Inv /\ disk \in [Paths -> Nodes]
  BY <1>2, EmbeddedAreLibs, PlaceFacts, KnownTypes DEF Known
<1>5. PICK s \in Stems : s = Stem(Place(l))
  BY <1>4
<1>6. /\ \A p \in Paths : Stem(p) = s /\ disk[p].is \in Interface => disk[p].lib = l
      /\ dylibs[s] # Absent => dylibs[s].lib = l
      /\ current = s /\ pc \in {"inline", "write"} => stack[1].lib = l
  BY <1>2, <1>5 DEF PlaceOK
<1>7. dylibs'[s] # Absent => dylibs'[s].lib = l
  <2>1. \/ dylibs'[s] = dylibs[s] \/ dylibs'[s] = Absent
        \/ \E p \in Paths : s = Stem(p) /\ disk[p].is \in Interface /\ dylibs'[s] = disk[p]
    BY MapsStep
  <2> QED BY <1>6, <2>1
<1>8. current' = s /\ pc' \in {"inline", "write"} => stack'[1].lib = l
  <2>1. SUFFICES ASSUME current' = s, pc' \in {"inline", "write"} PROVE stack'[1].lib = l
    OBVIOUS
  <2>2. \/ current' = current /\ pc \in {"inline", "write"} /\ stack'[1].lib = stack[1].lib
        \/ current' \in left /\ stack'[1].lib = dylibs[current'].lib
        \/ /\ pc = "read" /\ current' = Stem(Target(disk, opts.file))
           /\ Contents(disk, opts.file).is \in Interface /\ stack'[1].lib = Contents(disk, opts.file).lib
    BY <2>1, MapsStep
  <2>3. CASE current' \in left /\ stack'[1].lib = dylibs[current'].lib
    BY <1>4, <1>6, <2>1, <2>3 DEF Inv, MapsOK
  <2>4. CASE /\ pc = "read" /\ current' = Stem(Target(disk, opts.file))
             /\ Contents(disk, opts.file).is \in Interface /\ stack'[1].lib = Contents(disk, opts.file).lib
    <3>1. opts.file \in Paths
      BY <1>4, <2>4 DEF Inv, MapsOK
    <3>2. Target(disk, opts.file) \in Paths /\ Contents(disk, opts.file) = disk[Target(disk, opts.file)]
      BY <1>4, <2>4, <3>1, TargetFacts DEF Absent, Interface, Textual
    <3> QED BY <1>6, <2>1, <2>4, <3>2
  <2> QED BY <1>6, <2>1, <2>2, <2>3, <2>4
<1> QED BY <1>3, <1>5, <1>7, <1>8

-----------------------------------------------------------------------------
(* What is converted *)

\* Nothing private is converted, and private files are only ever deleted.
PublicOK == opts.file = None =>
  /\ \A s \in Stems : dylibs[s] # Absent => ~Excluded(StubOf(s))
  /\ \A p \in Paths : Excluded(p) => disk[p] \in {first[p], Absent}

\* What the scan has recorded of a text stub is still what is there when it is converted.
Waiting(s) == pc = "scan" \/ s \in left \/ (s = current /\ pc \in {"inline", "write"})
RecordedText == opts.file = None /\ pc \in {"scan", "next"} \cup Converting =>
  \A s \in Stems :
    /\ Waiting(s) /\ dylibs[s].is \in Textual => dylibs[s] = disk[StubOf(s)]
    /\ s = current /\ pc \in {"inline", "write"} /\ disk[StubOf(s)].is \in Textual =>
         dylibs[s] = disk[StubOf(s)]

\* The recursion gathers what is written, no more and no less, from what the interface that
\* is converted has and what the stubs hold.
Given == IF opts.file = None THEN dylibs[current] ELSE Contents(disk, opts.file)
GatherOK == pc \in {"inline", "write"} =>
  /\ stack[1].lib = Given.lib
  /\ pc = "inline" => opts.inline /\ GatherFrames(reexports, Held, Docs(Given), stack)
  /\ pc = "write" => stack[1].docs = IF opts.inline
                                     THEN Gathered(reexports, Held, stack[1].lib, Docs(Given))
                                     ELSE Docs(Given)

LEMMA SameExclusion ==
  ASSUME NEW p \in Paths
  PROVE  /\ Excluded(StubOf(Stem(p))) <=> Excluded(p)
         /\ Excluded(Tbd(p)) <=> Excluded(p)
BY TbdFacts DEF Excluded

\* The deletions are the only steps that touch a private file.
LEMMA PublicStep ==
  ASSUME Known, PublicOK, [Next]_vars
  PROVE  PublicOK'
<1>1. UNCHANGED <<opts, first, reexports>> /\ disk \in [Paths -> Nodes] /\ FirstOK /\ Inv /\ Layout
  BY FileChanges, KnownTypes DEF Known
<1>2. SUFFICES ASSUME opts.file = None
      PROVE  /\ \A s \in Stems : dylibs'[s] # Absent => ~Excluded(StubOf(s))
             /\ \A p \in Paths : Excluded(p) => disk'[p] \in {first[p], Absent}
  BY <1>1 DEF PublicOK, Excluded
<1>3. ASSUME NEW s \in Stems, dylibs'[s] # Absent PROVE ~Excluded(StubOf(s))
  <2>1. \/ dylibs'[s] = dylibs[s]
        \/ \E p \in Paths : s = Stem(p) /\ ~Excluded(p)
    BY <1>3, MapsStep
  <2> QED BY <1>2, <1>3, <2>1, SameExclusion DEF PublicOK
<1>4. ASSUME NEW p \in Paths, Excluded(p) PROVE disk'[p] \in {first[p], Absent}
  <2>1. disk'[p] = disk[p] \/ WritesStub(p) \/ Relinks(p) \/ Deletes(p)
    BY FileChanges
  <2>2. ~WritesStub(p)
    <3>1. SUFFICES ASSUME WritesStub(p) PROVE FALSE
      OBVIOUS
    <3>2. pc = "write" /\ p = StubOf(current)
      BY <3>1 DEF WritesStub, output
    <3>3. current \in Stems /\ dylibs[current] # Absent
      BY <1>1, <1>2, <3>2 DEF Layout, CurrentOK, Converting
    <3> QED BY <1>2, <1>4, <3>2, <3>3 DEF PublicOK
  <2>3. ~Relinks(p)
    BY <1>1, <1>4, PublicFacts DEF Relinks
  <2> QED BY <1>2, <1>4, <2>1, <2>2, <2>3 DEF PublicOK, Deletes
<1> QED BY <1>3, <1>4

\* The stub of what has been recorded changes when it is written, not before.
LEMMA StubStays ==
  ASSUME Known, [Next]_vars, NEW s \in Stems, dylibs[s] # Absent, opts.file = None,
         s # current \/ pc # "write", PublicOK
  PROVE  disk'[StubOf(s)] = disk[StubOf(s)]
<1>1. /\ StubOf(s) \in Paths /\ Stem(StubOf(s)) = s /\ Inv /\ Layout /\ FirstOK
      /\ disk \in [Paths -> Nodes] /\ IsTbd(StubOf(s))
  BY StemFacts, KnownTypes DEF Known
<1>2. Home(s)
  BY <1>1 DEF Layout, RecordsOK
<1>3. ~WritesStub(StubOf(s))
  BY <1>1, OutputFacts DEF WritesStub
<1>4. ~Relinks(StubOf(s))
  <2>1. ASSUME NEW q \in PublicLinks, StubOf(s) = Tbd(q) PROVE FALSE
    <3>1. q \in FirstLinks /\ q \in Paths
      BY <1>1, PublicFacts
    <3>2. Stem(q) = s
      BY <1>1, <2>1, <3>1, TbdFacts
    <3> QED BY <1>2, <3>1, <3>2 DEF Home
  <2> QED BY <2>1 DEF Relinks
<1>5. CASE pc \in {"delete", "deleteInput"}
  <2>1. pc # "write" /\ pc \notin {"relink", "link"} /\ ~Excluded(StubOf(s))
    BY <1>5 DEF PublicOK
  <2>2. CASE Delete
    <3>1. disk' = disk \/ \E p \in Paths, b \in BOOLEAN : /\ IF b THEN ~IsTbd(p) ELSE Excluded(p)
                                                          /\ disk' = [disk EXCEPT ![p] = Absent]
      BY <2>2, DeleteStep
    <3>2. CASE disk' = disk
      BY <3>2
    <3>3. CASE disk' # disk
      <4>1. PICK p \in Paths, b \in BOOLEAN : /\ IF b THEN ~IsTbd(p) ELSE Excluded(p)
                                              /\ disk' = [disk EXCEPT ![p] = Absent]
        BY <3>1, <3>3
      <4>2. p # StubOf(s)
        BY <4>1, <1>1, <2>1
      <4> QED BY <4>1, <4>2, <1>1
    <3> QED BY <3>2, <3>3
  <2>3. CASE Quiet
    BY <2>3, QuietStep
  <2>4. CASE DeleteInput
    BY <2>4, <1>1 DEF DeleteInput, Layout, CurrentOK
  <2>5. CASE WriteFile \/ RemoveLink \/ CreateLink
    BY <2>5, <1>5 DEF WriteFile, RemoveLink, CreateLink
  <2> QED BY <2>2, <2>3, <2>4, <2>5, NextCases DEF Quiet
<1>6. CASE pc \notin {"delete", "deleteInput"}
  BY <1>1, <1>3, <1>4, <1>6, FileChanges DEF Deletes
<1> QED BY <1>5, <1>6

\* What is still to be converted was so before, but for what the scan comes to.
LEMMA WaitingStep ==
  ASSUME Known, [Next]_vars, opts.file = None, pc' \in {"scan", "next"} \cup Converting,
         NEW s \in Stems, dylibs'[s] # Absent, Waiting(s)'
  PROVE  /\ pc \in {"scan", "next"} \cup Converting
         /\ Waiting(s) /\ (s # current \/ pc # "write" \/ UNCHANGED <<disk, pc>>)
<1>1. Inv /\ Layout /\ dylibs \in [Stems -> Nodes] /\ left \subseteq Stems
  BY KnownTypes DEF Known
<1>2. CASE Begin \/ Crash
  <2>1. dylibs' = [t \in Stems |-> Absent]
    BY <1>2 DEF Begin, Crash, Fresh
  <2> QED BY <2>1
<1>3. CASE Scan \/ Scanned
  BY <1>3 DEF Scan, Scanned, Waiting
<1>4. CASE Convert
  <2>1. pc = "next" /\ left' \subseteq left /\ current' \in left
    BY <1>4 DEF Convert
  <2>2. pc' # "scan"
    BY <1>4 DEF Convert, CallInline, Fail
  <2> QED BY <2>1, <2>2 DEF Waiting
<1>5. CASE inlineFrameworks
  <2>1. /\ pc = "inline" /\ UNCHANGED <<left, current>> /\ pc' \in {"inline", "write", "failed", "overflow"}
    BY <1>1, <1>5, InlineStep DEF inlineFrameworks, Fail
  <2> QED BY <2>1 DEF Waiting, Converting
<1>6. CASE WriteFile
  <2>1. pc = "write" /\ left' = left /\ pc' \in {"failed", "crashed", "relink", "deleteInput", "done"}
    BY <1>6, WriteStep DEF AfterWrite
  <2>2. current \notin left
    BY <1>1, <2>1 DEF Layout, CurrentOK, Converting
  <2> QED BY <2>1, <2>2 DEF Waiting, Converting
<1>7. CASE RemoveLink \/ CreateLink
  <2>1. pc \in {"relink", "link"} /\ left' = left /\ pc' \in {"failed", "relink", "link"}
    BY <1>7, RelinkStep
  <2> QED BY <2>1 DEF Waiting, Converting
<1>8. CASE Converted
  BY <1>8 DEF Converted, Waiting, Converting
<1>9. CASE AllConverted \/ Delete \/ Deleted \/ DeleteInput \/ ReadInput
  <2>1. opts.file = None => pc \notin {"read", "deleteInput"}
    BY <1>1 DEF Layout, CurrentOK
  <2>2. pc' \in {"delete", "done", "failed"}
    BY <1>9, <2>1 DEF AllConverted, Delete, Deleted, DeleteInput, ReadInput, Fail
  <2> QED BY <2>2 DEF Converting
<1>10. CASE UNCHANGED Seen
  BY <1>10 DEF Seen, tree, Waiting
<1> QED BY <1>2, <1>3, <1>4, <1>5, <1>6, <1>7, <1>8, <1>9, <1>10, NextCases

\* A stub is converted before it is written, and each only once.
LEMMA RecordedStep ==
  ASSUME Known, TextOK, PublicOK, RecordedText, [Next]_vars
  PROVE  RecordedText'
<1>1. /\ UNCHANGED <<opts, first, reexports>> /\ disk \in [Paths -> Nodes] /\ TreeOK /\ Inv /\ Layout
      /\ left \subseteq Stems
  BY FileChanges, KnownTypes DEF Known
<1>2. SUFFICES ASSUME opts.file = None, pc' \in {"scan", "next"} \cup Converting, NEW s \in Stems
      PROVE  /\ Waiting(s)' /\ dylibs'[s].is \in Textual => dylibs'[s] = disk'[StubOf(s)]
             /\ s = current' /\ pc' \in {"inline", "write"} /\ disk'[StubOf(s)].is \in Textual =>
                  dylibs'[s] = disk'[StubOf(s)]
  BY <1>1 DEF RecordedText
<1>3. \/ dylibs'[s] = dylibs[s] \/ dylibs'[s] = Absent
      \/ pc = "scan" /\ \E p \in Paths : s = Stem(p) /\ disk[p].is \in Interface /\ dylibs'[s] = disk[p]
  BY MapsStep
<1>4. ASSUME Waiting(s)', dylibs'[s].is \in Textual PROVE dylibs'[s] = disk'[StubOf(s)]
  <2>1. dylibs'[s] # Absent
    BY <1>4 DEF Absent, Textual
  <2>2. /\ pc \in {"scan", "next"} \cup Converting
        /\ Waiting(s) /\ (s # current \/ pc # "write" \/ UNCHANGED <<disk, pc>>)
    BY <1>2, <1>4, <2>1, WaitingStep
  <2>3. CASE dylibs'[s] = dylibs[s]
    <3>1. dylibs[s] = disk[StubOf(s)]
      BY <1>2, <1>4, <2>2, <2>3 DEF RecordedText
    <3>2. disk'[StubOf(s)] = disk[StubOf(s)]
      BY <1>2, <2>1, <2>2, <2>3, StubStays
    <3> QED BY <2>3, <3>1, <3>2
  <2>4. CASE pc = "scan" /\ \E p \in Paths : s = Stem(p) /\ disk[p].is \in Interface /\ dylibs'[s] = disk[p]
    <3>1. PICK p \in Paths : s = Stem(p) /\ disk[p].is \in Interface /\ dylibs'[s] = disk[p]
      BY <2>4
    <3>2. p = StubOf(s)
      BY <1>1, <1>4, <3>1, ScannedFile
    <3>3. disk'[p] = disk[p]
      <4>1. ~WritesStub(p) /\ ~Relinks(p) /\ ~Deletes(p)
        BY <2>4 DEF WritesStub, Relinks, Deletes
      <4> QED BY <4>1, FileChanges
    <3> QED BY <3>1, <3>2, <3>3
  <2> QED BY <1>3, <2>1, <2>3, <2>4
<1>5. ASSUME s = current', pc' \in {"inline", "write"}, disk'[StubOf(s)].is \in Textual
      PROVE  dylibs'[s] = disk'[StubOf(s)]
  <2>1. \/ current' = current /\ pc \in {"inline", "write"} /\ dylibs' = dylibs
        \/ pc = "next" /\ dylibs' = dylibs /\ current' \in left
        \/ pc = "read"
    BY <1>5, MapsStep
  <2>2. pc # "read"
    BY <1>1, <1>2 DEF Layout, CurrentOK
  <2>3. CASE current' = current /\ pc \in {"inline", "write"} /\ dylibs' = dylibs
    <3>1. disk' = disk
      <4>1. CASE WriteFile
        BY <4>1, <1>5, WriteStep DEF AfterWrite
      <4>2. CASE Quiet
        BY <4>2, QuietStep
      <4>3. CASE RemoveLink \/ CreateLink \/ Delete \/ DeleteInput
        BY <4>3, <2>3 DEF RemoveLink, CreateLink, Delete, DeleteInput
      <4> QED BY <4>1, <4>2, <4>3, NextCases DEF Quiet
    <3> QED BY <1>2, <1>5, <2>3, <3>1 DEF RecordedText, Converting
  <2>4. CASE pc = "next" /\ dylibs' = dylibs /\ current' \in left
    <3>1. dylibs[s] # Absent /\ s \in left
      BY <1>1, <1>5, <2>4 DEF Inv, MapsOK
    <3>2. ~Excluded(StubOf(s))
      BY <1>2, <3>1 DEF PublicOK
    <3>3. disk'[StubOf(s)] = disk[StubOf(s)]
      BY <1>2, <2>4, <3>1, StubStays
    <3> QED BY <1>2, <1>5, <2>4, <3>1, <3>2, <3>3 DEF TextOK, Excluded
  <2> QED BY <2>1, <2>2, <2>3, <2>4
<1> QED BY <1>4, <1>5

\* A call begins with the documents of what is converted.
LEMMA GatherBegins ==
  ASSUME Known, NEW n \in Nodes, n.is \in Interface, CallInline(n.lib, Docs(n)),
         n.is \in Textual => ClosedIn(reexports, n.docs)
  PROVE  /\ stack'[1].lib = n.lib
         /\ pc' = "inline" => opts.inline /\ GatherFrames(reexports, Held, Docs(n), stack')
         /\ pc' = "write" => ~opts.inline /\ stack'[1].docs = Docs(n)
         /\ pc' \in {"inline", "write"}
<1>1. PICK l, docs, held : l = n.lib /\ docs = Docs(n) /\ held = Held
  OBVIOUS
<1>2. l \in Libs /\ docs \in SUBSET Libs /\ reexports \in [Libs -> SUBSET Libs]
  BY <1>1, DocsOK, KnownTypes
<1>3. /\ stack' = <<[lib |-> l, todo |-> reexports[l], docs |-> docs]>>
      /\ pc' = IF opts.inline THEN "inline" ELSE "write"
  BY <1>1 DEF CallInline
<1>4. GatherFrames(reexports, held, docs, stack')
  BY <1>2, <1>3, GatherFirst
<1>5. stack'[1].lib = l /\ stack'[1].docs = docs
  BY <1>3
<1> QED BY <1>1, <1>3, <1>4, <1>5

LEMMA SameHeld ==
  ASSUME UNCHANGED disk
  PROVE  Held' = Held
BY DEF Held, LibFile

\* The bounds of the frames hold from the first call to the last return.
LEMMA GatherInvariant ==
  ASSUME Known, GatherOK, [Next]_vars
  PROVE  GatherOK'
<1>1. /\ UNCHANGED <<opts, first, reexports>> /\ disk \in [Paths -> Nodes] /\ Inv /\ Layout
      /\ dylibs \in [Stems -> Nodes] /\ left \subseteq Stems
  BY FileChanges, KnownTypes DEF Known
<1>2. SUFFICES ASSUME pc' \in {"inline", "write"}
      PROVE  /\ stack'[1].lib = Given'.lib
             /\ pc' = "inline" => opts.inline /\ GatherFrames(reexports, Held', Docs(Given'), stack')
             /\ pc' = "write" => stack'[1].docs = IF opts.inline
                                       THEN Gathered(reexports, Held', stack'[1].lib, Docs(Given'))
                                       ELSE Docs(Given')
  BY <1>1 DEF GatherOK, Docs
<1>3. CASE Convert
  <2>1. pc = "next" /\ opts.file = None /\ dylibs' = dylibs /\ disk' = disk
    BY <1>1, <1>3 DEF Convert, scan, tree, Layout, CurrentOK
  <2>2. PICK s \in left : current' = s /\ CallInline(dylibs[s].lib, Docs(dylibs[s]))
    BY <1>2, <1>3 DEF Convert, Fail
  <2>3. PICK n : n = dylibs[s]
    OBVIOUS
  <2>4. n \in Nodes /\ n.is \in Interface /\ (n.is \in Textual => ClosedIn(reexports, n.docs))
    BY <1>1, <2>3 DEF Inv, MapsOK
  <2>5. Given' = n
    BY <1>1, <2>1, <2>2, <2>3 DEF Given
  <2>6. /\ stack'[1].lib = n.lib
        /\ pc' = "inline" => opts.inline /\ GatherFrames(reexports, Held, Docs(n), stack')
        /\ pc' = "write" => ~opts.inline /\ stack'[1].docs = Docs(n)
    BY <2>2, <2>3, <2>4, GatherBegins
  <2> QED BY <2>1, <2>5, <2>6, SameHeld
<1>4. CASE ReadInput
  <2>1. opts.file \in Paths /\ opts.file # None /\ disk' = disk
    BY <1>1, <1>4, TreeAssumption DEF ReadInput, tree, Inv, MapsOK
  <2>2. PICK n : n = Contents(disk, opts.file)
    OBVIOUS
  <2>3. n.is \in Interface /\ CallInline(n.lib, Docs(n))
    BY <1>2, <1>4, <2>2 DEF ReadInput, Fail
  <2>4. n \in Nodes /\ (n.is \in Textual => ClosedIn(reexports, n.docs))
    BY <1>1, <2>1, <2>2, ContentsOK
  <2>5. Given' = n
    BY <1>1, <2>1, <2>2 DEF Given
  <2>6. /\ stack'[1].lib = n.lib
        /\ pc' = "inline" => opts.inline /\ GatherFrames(reexports, Held, Docs(n), stack')
        /\ pc' = "write" => ~opts.inline /\ stack'[1].docs = Docs(n)
    BY <2>3, <2>4, GatherBegins
  <2> QED BY <2>1, <2>5, <2>6, SameHeld
<1>5. CASE inlineFrameworks
  <2>1. Inl!Step /\ UNCHANGED <<disk, dylibs, current>>
    BY <1>2, <1>5 DEF inlineFrameworks, Fail, tree, scan
  <2>2. pc = "inline" /\ stack'[1].lib = stack[1].lib /\ opts.inline /\ stack[1].lib = Given.lib
    BY <1>1, <2>1, InlineStep, SameLibrary DEF GatherOK
  <2>3. PICK base : base = Docs(Given)
    OBVIOUS
  <2>4. GatherFrames(reexports, Held, base, stack)
    BY <2>2, <2>3 DEF GatherOK
  <2>5. /\ GatherFrames(reexports, Held, base, stack') \/ pc' \in Ended
        /\ pc' = "write" => stack'[1].docs = Gathered(reexports, Held, stack'[1].lib, base)
    BY <1>1, <2>1, <2>4, GatherStep
  <2>6. Given' = Given
    BY <1>1, <2>1 DEF Given
  <2> QED BY <1>2, <2>1, <2>2, <2>3, <2>5, <2>6, SameHeld DEF Ended
<1>6. CASE UNCHANGED Seen
  <2>1. UNCHANGED <<disk, opts, reexports, dylibs, current, stack, pc>>
    BY <1>6 DEF Seen, tree, input, scan
  <2>2. Given' = Given
    BY <2>1 DEF Given
  <2> QED BY <1>2, <2>1, <2>2, SameHeld DEF GatherOK
<1>7. ~(WriteFile \/ RemoveLink \/ CreateLink \/ Delete)
  BY <1>2, WriteStep, RelinkStep, DeleteStep DEF AfterWrite
<1>8. ~(Begin \/ Crash \/ Scan \/ Scanned \/ Converted \/ AllConverted \/ Deleted \/ DeleteInput)
  <2>1. CASE Scan
    <3>1. PICK p \in todo : ScanPrivate(p) \/ ScanLink(p) \/ ScanFile(p) \/ ScanOther(p) \/ ScanError(p)
      BY <2>1 DEF Scan
    <3>2. p \in Paths /\ pc = "scan"
      BY <2>1, KnownTypes DEF Scan
    <3>3. pc' \in {"scan", "failed"}
      BY <1>1, <3>1, <3>2, ScanEntry
    <3> QED BY <1>2, <3>3
  <2> QED BY <1>2, <2>1 DEF Begin, Crash, Scanned, Converted, AllConverted, Deleted, DeleteInput, Fail
<1> QED BY <1>3, <1>4, <1>5, <1>6, <1>7, <1>8, NextCases

-----------------------------------------------------------------------------
(* What the stubs of the embedded libraries hold *)

\* The single file that is given is still where it was read.
InputOK == opts.file # None /\ pc \in {"inline", "write", "deleteInput"} =>
  /\ opts.file \in Paths /\ Contents(disk, opts.file).is \in Interface
  /\ current = Stem(Target(disk, opts.file)) /\ originalNames[current] = Target(disk, opts.file)

\* The stub that is written does not move the input.
LEMMA InputStep ==
  ASSUME Known, InputOK, [Next]_vars
  PROVE  InputOK'
<1>1. /\ UNCHANGED <<opts, first, reexports>> /\ disk \in [Paths -> Nodes] /\ Inv /\ Layout
      /\ originalNames \in [Stems -> Paths \cup {None}]
  BY FileChanges, KnownTypes DEF Known
<1>2. SUFFICES ASSUME opts.file # None, pc' \in {"inline", "write", "deleteInput"}
      PROVE  /\ opts.file \in Paths /\ Contents(disk', opts.file).is \in Interface
             /\ current' = Stem(Target(disk', opts.file)) /\ originalNames'[current'] = Target(disk', opts.file)
  BY <1>1 DEF InputOK
<1>3. pc \notin {"scan", "next", "relink", "link", "delete"}
  BY <1>1, <1>2 DEF Layout, CurrentOK
<1>4. CASE ReadInput
  <2>1. opts.file \in Paths /\ disk' = disk /\ current' = Stem(Target(disk, opts.file))
    BY <1>1, <1>4 DEF ReadInput, tree, Inv, MapsOK
  <2>2. Contents(disk, opts.file).is \in Interface
    BY <1>2, <1>4 DEF ReadInput, Fail
  <2>3. originalNames' = [originalNames EXCEPT ![current'] = Target(disk, opts.file)]
    BY <1>4 DEF ReadInput
  <2>4. current' \in Stems
    BY <1>1, <2>1, TargetFacts, PathFacts
  <2> QED BY <1>1, <2>1, <2>2, <2>3, <2>4
<1>5. CASE inlineFrameworks
  <2>1. pc = "inline" /\ UNCHANGED <<disk, current, originalNames>>
    BY <1>1, <1>5, InlineStep DEF inlineFrameworks, tree, scan
  <2> QED BY <1>1, <1>2, <2>1 DEF InputOK
<1>6. CASE WriteFile
  <2>1. /\ pc = "write" /\ UNCHANGED <<current, originalNames>> /\ disk[output].is # "link" /\ output \in Paths
        /\ disk' = [disk EXCEPT ![output] = stub] /\ stub \in Nodes /\ stub.is = "text"
    BY <1>2, <1>6, WriteStep DEF Text
  <2>2. /\ opts.file \in Paths /\ Contents(disk, opts.file).is \in Interface
        /\ current = Stem(Target(disk, opts.file)) /\ originalNames[current] = Target(disk, opts.file)
    BY <1>2, <2>1 DEF InputOK
  <2>3. PICK n, q : n = stub /\ q = output
    OBVIOUS
  <2>4. disk' \in [Paths -> Nodes] /\ \A x \in Paths : disk'[x] = IF x = q THEN n ELSE disk[x]
    BY <1>1, <2>1, <2>3
  <2>5. \A x \in Hops(disk, opts.file) : disk[x].is = "link" \/ disk'[x].is = "link" => disk'[x] = disk[x]
    BY <1>1, <2>1, <2>2, <2>3, <2>4, HopsFacts
  <2>6. Target(disk', opts.file) = Target(disk, opts.file) /\ Target(disk, opts.file) \in Paths
    BY <1>1, <2>2, <2>4, <2>5, SameLinks, TargetFacts
  <2>7. Contents(disk, opts.file) = disk[Target(disk, opts.file)]
    BY <2>2 DEF Contents, Absent, Interface, Textual
  <2>8. disk'[Target(disk, opts.file)].is \in Interface
    BY <2>1, <2>2, <2>3, <2>4, <2>6, <2>7 DEF Interface, Textual
  <2>9. Contents(disk', opts.file).is \in Interface
    BY <2>6, <2>8 DEF Contents, Loops, Interface, Textual
  <2> QED BY <2>1, <2>2, <2>6, <2>9
<1>7. CASE UNCHANGED Seen
  BY <1>1, <1>2, <1>7 DEF Seen, tree, scan, InputOK
<1>8. CASE Scan \/ Scanned \/ Convert \/ RemoveLink \/ CreateLink \/ Converted \/ AllConverted \/ Delete \/ Deleted
  BY <1>3, <1>8 DEF Scan, Scanned, Convert, RemoveLink, CreateLink, Converted, AllConverted, Delete, Deleted
<1>9. CASE Begin \/ Crash \/ DeleteInput
  BY <1>2, <1>9 DEF Begin, Crash, DeleteInput, Fail
<1> QED BY <1>4, <1>5, <1>6, <1>7, <1>8, <1>9, NextCases

\* What is converted has no more documents than the stub in its place.
LEMMA GivenDocs ==
  ASSUME Known, RecordedText, InputOK, pc = "write"
  PROVE  Given.is \in Textual => Given = disk[StubOf(current)]
<1>1. /\ disk \in [Paths -> Nodes] /\ TreeOK /\ Inv /\ Layout /\ current \in Stems
  BY KnownTypes DEF Known, Inv, TypeOK
<1>2. CASE opts.file = None
  BY <1>1, <1>2 DEF Given, RecordedText, Waiting, Converting
<1>3. CASE opts.file # None
  <2>1. SUFFICES ASSUME Given.is \in Textual PROVE Given = disk[StubOf(current)]
    OBVIOUS
  <2>2. /\ opts.file \in Paths /\ Contents(disk, opts.file).is \in Textual
        /\ Given = Contents(disk, opts.file) /\ current = Stem(Target(disk, opts.file))
    BY <1>3, <2>1 DEF InputOK, Given
  <2>3. PICK t : t = Target(disk, opts.file)
    OBVIOUS
  <2>4. t \in Paths /\ Contents(disk, opts.file) = disk[t]
    BY <1>1, <2>2, <2>3, TargetFacts DEF Absent, Textual
  <2>5. t = StubOf(Stem(t))
    BY <1>1, <2>2, <2>4, ScannedFile DEF Interface
  <2> QED BY <2>2, <2>3, <2>4, <2>5
<1> QED BY <1>2, <1>3

\* Whatever a step does, a stub holds nothing that it would not have gathered before.
LEMMA HeldGrows ==
  ASSUME Known, PlaceOK, RecordedText, InputOK, GatherOK, [Next]_vars, opts.inline,
         NEW c \in Embedded(reexports)
  PROVE  Held'[c] \subseteq Gathered(reexports, Held, c, Held[c])
<1>1. /\ UNCHANGED <<opts, first, reexports>> /\ disk \in [Paths -> Nodes] /\ Inv /\ Layout
      /\ c \in Libs /\ Known' /\ PlaceOK'
  BY FileChanges, KnownTypes, EmbeddedAreLibs, KnownStep, PlaceStep DEF Known
<1>2. PICK t : t = Tbd(Place(c))
  OBVIOUS
<1>3. t \in Paths /\ Stem(t) = Stem(Place(c))
  BY <1>1, <1>2, PlaceFacts
<1>4. Held[c] = Docs(disk[t])
  BY <1>2, HeldFacts
<1>5. Held'[c] = Docs(disk'[t])
  <2>1. HeldPlaced'
    BY <1>1, HeldPlacedNext
  <2>2. Held'[c] = Docs(disk'[Tbd(Place(c))])
    BY <1>1, <2>1 DEF HeldPlaced, Docs
  <2> QED BY <2>2, <1>2
<1>6. disk'[t] = disk[t] \/ WritesStub(t) \/ Relinks(t) \/ Deletes(t)
  BY <1>3, FileChanges
<1>7. CASE disk'[t] = disk[t]
  BY <1>4, <1>5, <1>7 DEF Gathered
<1>8. CASE Relinks(t) \/ Deletes(t)
  BY <1>5, <1>8 DEF Relinks, Deletes, Docs, Absent, Link, Textual
<1>9. CASE WritesStub(t)
  <2>1. pc = "write" /\ t = StubOf(current) /\ Stem(t) = current
    BY <1>1, <1>9, OutputFacts DEF WritesStub, output
  <2>2. stack[1].lib = c
    BY <1>3, <2>1 DEF PlaceOK
  <2>3. stack[1].docs = Gathered(reexports, Held, c, Docs(Given))
    BY <2>1, <2>2 DEF GatherOK
  <2>4. Docs(Given) \subseteq Held[c]
    BY <2>1, <1>4, GivenDocs DEF Docs
  <2>5. Docs(disk'[t]) \in {stack[1].docs, {}}
    BY <1>9 DEF WritesStub, stub, Text, Part, Damaged, Other, Docs, Textual
  <2> QED BY <1>5, <2>3, <2>4, <2>5 DEF Gathered
<1> QED BY <1>6, <1>7, <1>8, <1>9

-----------------------------------------------------------------------------
(* The stubs that a run leaves, and the next one leaves alone *)

\* A directory is taken up again after a success; a run of a directory.
Again == after # None /\ opts.file = None
InRun == opts.file = None /\ pc \in {"scan", "next"} \cup Converting \cup Deleting

\* A stub that inlining adds nothing to.
Settled(s) == /\ disk[StubOf(s)].is = "text"
              /\ opts.inline => Full(reexports, Held, disk[StubOf(s)].lib, disk[StubOf(s)].docs)

\* Each name recorded is still to be converted, or its stub is settled.
SettledOK == InRun =>
  /\ pc # "scan" => todo = {}
  /\ pc \in Deleting => left = {}
  /\ \A p \in Paths : disk[p].is \in Interface /\ ~Excluded(p) => p \in todo \/ dylibs[Stem(p)] # Absent
  /\ \A s \in Stems : dylibs[s] # Absent => Waiting(s) \/ Settled(s)

\* After a success every stub is.
AgainSettled == Again =>
  /\ \A p \in Paths : disk[p].is \in Interface /\ ~Excluded(p) => Settled(Stem(p))
  /\ \A s \in Stems : dylibs[s] # Absent => Settled(s)

\* What holds while libraries are converted.
Conversion == PlaceOK /\ PublicOK /\ RecordedText /\ InputOK /\ GatherOK

\* A text stub is what its library and its documents make it.
LEMMA TextNode ==
  ASSUME NEW n \in Nodes, n.is = "text"
  PROVE  n = Text(n.lib, n.docs) /\ n.lib \in Libs /\ n.docs \in SUBSET Libs
BY DEF Nodes, Absent, Damaged, Other, Dylib, Text, Part, Link

\* Other stubs may be written meanwhile.
LEMMA StaysSettled ==
  ASSUME Known, Conversion, [Next]_vars, NEW s \in Stems, Settled(s), disk'[StubOf(s)] = disk[StubOf(s)]
  PROVE  Settled(s)'
<1>1. /\ UNCHANGED <<opts, first, reexports>> /\ disk \in [Paths -> Nodes]
      /\ reexports \in [Libs -> SUBSET Libs] /\ StubOf(s) \in Paths
  BY FileChanges, KnownTypes, StemFacts
<1>2. PICK f, l, docs : f = disk[StubOf(s)] /\ l = f.lib /\ docs = f.docs
  OBVIOUS
<1>3. f \in Nodes /\ f.is = "text" /\ l \in Libs
  BY <1>1, <1>2, TextNode DEF Settled
<1>4. ASSUME opts.inline PROVE Full(reexports, Held', l, docs)
  <2>1. PICK held, kept : held = Held /\ kept = Held'
    OBVIOUS
  <2>2. \A c \in Embedded(reexports) : kept[c] \subseteq Gathered(reexports, held, c, held[c])
    BY <1>4, <2>1, HeldGrows DEF Conversion
  <2>3. Full(reexports, held, l, docs)
    BY <1>2, <1>4, <2>1 DEF Settled
  <2>4. Full(reexports, kept, l, docs)
    BY <1>1, <1>3, <2>2, <2>3, StaysFull
  <2> QED BY <2>1, <2>4
<1> QED BY <1>1, <1>2, <1>3, <1>4 DEF Settled

\* What has just been written has everything.
LEMMA WrittenSettled ==
  ASSUME Known, Conversion, WriteFile, disk' = [disk EXCEPT ![output] = stub]
  PROVE  Settled(current)'
<1>1. /\ UNCHANGED <<opts, first, reexports, current>> /\ disk \in [Paths -> Nodes] /\ [Next]_vars
      /\ reexports \in [Libs -> SUBSET Libs] /\ pc = "write" /\ StubOf(current) \in Paths
      /\ disk'[StubOf(current)] = Text(stack[1].lib, stack[1].docs) /\ stub \in Nodes
  <2>1. [Next]_vars
    BY DEF Next, Step
  <2>2. /\ pc = "write" /\ output \in Paths /\ output = StubOf(current) /\ current' = current
        /\ stub \in Nodes /\ stub = Text(stack[1].lib, stack[1].docs)
    BY WriteStep
  <2> QED BY <2>1, <2>2, FileChanges, KnownTypes
<1>2. PICK l, docs : l = stack[1].lib /\ docs = stack[1].docs
  OBVIOUS
<1>3. l \in Libs
  BY <1>1, <1>2, StubOK DEF Known
<1>4. ASSUME opts.inline PROVE Full(reexports, Held', l, docs)
  <2>1. PICK held, kept : held = Held /\ kept = Held'
    OBVIOUS
  <2>2. \A c \in Embedded(reexports) : kept[c] \subseteq Gathered(reexports, held, c, held[c])
    BY <1>1, <1>4, <2>1, HeldGrows DEF Conversion
  <2>3. docs = Gathered(reexports, held, l, Docs(Given))
    BY <1>1, <1>2, <1>4, <2>1 DEF Conversion, GatherOK
  <2>4. Full(reexports, held, l, docs)
    BY <2>3, GatheredIsFull
  <2>5. Full(reexports, kept, l, docs)
    BY <1>1, <1>3, <2>2, <2>4, StaysFull
  <2> QED BY <2>1, <2>5
<1>5. disk'[StubOf(current)] = Text(l, docs)
  BY <1>1, <1>2
<1> QED BY <1>1, <1>4, <1>5 DEF Settled, Text

LEMMA SameSettled ==
  ASSUME UNCHANGED <<disk, opts, reexports>>, NEW s, Settled(s)
  PROVE  Settled(s)'
BY SameHeld DEF Settled

\* Every step keeps that up: what is no longer waiting has been written.
LEMMA SettledStep ==
  ASSUME Known, Conversion, SettledOK, [Next]_vars
  PROVE  SettledOK'
<1>1. /\ UNCHANGED <<opts, first, reexports>> /\ disk \in [Paths -> Nodes] /\ Inv /\ Layout
      /\ dylibs \in [Stems -> Nodes] /\ left \subseteq Stems /\ todo \subseteq Paths
  BY FileChanges, KnownTypes DEF Known
<1>2. SUFFICES ASSUME opts.file = None, pc' \in {"scan", "next"} \cup Converting \cup Deleting
      PROVE  /\ pc' # "scan" => todo' = {}
             /\ pc' \in Deleting => left' = {}
             /\ \A p \in Paths : disk'[p].is \in Interface /\ ~Excluded(p) => p \in todo' \/ dylibs'[Stem(p)] # Absent
             /\ \A s \in Stems : dylibs'[s] # Absent => Waiting(s)' \/ Settled(s)'
  BY <1>1 DEF SettledOK, InRun, Excluded
<1>3. CASE Begin
  <2>1. dylibs' = [s \in Stems |-> Absent] /\ pc' = "scan" /\ todo' = {p \in Paths : disk[p] # Absent} /\ disk' = disk
    BY <1>2, <1>3 DEF Begin, Fresh, tree
  <2> QED BY <2>1 DEF Deleting, Absent, Interface, Textual
<1>4. CASE Crash
  BY <1>2, <1>4 DEF Crash, Converting, Deleting
<1>5. CASE Scan
  <2>1. PICK p \in todo : /\ ScanPrivate(p) \/ ScanLink(p) \/ ScanFile(p) \/ ScanOther(p) \/ ScanError(p)
                          /\ todo' = todo \ {p}
    BY <1>5 DEF Scan
  <2>2. /\ pc = "scan" /\ pc' = "scan" /\ disk' = disk /\ p \in Paths
        /\ \A s \in Stems : dylibs[s] # Absent => dylibs'[s] # Absent
    <3>1. pc = "scan" /\ disk' = disk /\ p \in Paths
      BY <1>1, <1>5, <2>1 DEF Scan, tree
    <3>2. pc' \in {"scan", "failed"} /\ \A s \in Stems : dylibs[s] # Absent => dylibs'[s] # Absent
      BY <1>1, <2>1, <3>1, ScanEntry
    <3> QED BY <1>2, <3>1, <3>2 DEF Converting, Deleting
  <2>3. ASSUME disk[p].is \in Interface, ~Excluded(p) PROVE dylibs'[Stem(p)] # Absent
    <3>1. ScanFile(p)
      BY <2>1, <2>2, <2>3 DEF ScanPrivate, ScanLink, ScanOther, ScanError, Excluded, Fail, Interface, Textual
    <3>2. PICK n : n = disk[p]
      OBVIOUS
    <3>3. Stem(p) \in Stems /\ n # Absent
      BY <2>2, <2>3, <3>2, PathFacts DEF Absent, Interface, Textual
    <3> QED BY <1>1, <3>1, <3>2, <3>3 DEF ScanFile, Takes
  <2>4. InRun
    BY <1>2, <2>2 DEF InRun
  <2>5. ASSUME NEW q \in Paths, disk'[q].is \in Interface, ~Excluded(q)
        PROVE  q \in todo' \/ dylibs'[Stem(q)] # Absent
    <3>1. q \in todo \/ dylibs[Stem(q)] # Absent
      BY <2>2, <2>4, <2>5 DEF SettledOK
    <3>2. Stem(q) \in Stems
      BY PathFacts
    <3> QED BY <2>1, <2>2, <2>3, <2>5, <3>1, <3>2
  <2> QED BY <2>2, <2>5 DEF Waiting, Deleting
<1>6. ASSUME pc # "scan", todo' = todo, dylibs' = dylibs, InRun
      PROVE  /\ todo = {} /\ todo' = {}
             /\ \A p \in Paths : disk'[p].is \in Interface /\ ~Excluded(p) => p \in todo' \/ dylibs'[Stem(p)] # Absent
  <2>1. todo = {}
    BY <1>6 DEF SettledOK
  <2>2. ASSUME NEW p \in Paths, disk'[p].is \in Interface, ~Excluded(p) PROVE dylibs'[Stem(p)] # Absent
    <3>1. disk'[p] = disk[p] \/ WritesStub(p) \/ Relinks(p) \/ Deletes(p)
      BY FileChanges
    <3>2. ~Relinks(p) /\ ~Deletes(p)
      BY <2>2 DEF Relinks, Deletes, Absent, Link, Interface, Textual
    <3>3. CASE disk'[p] = disk[p]
      BY <1>6, <2>1, <2>2, <3>3 DEF SettledOK
    <3>4. CASE WritesStub(p)
      <4>1. pc = "write" /\ Stem(p) = current
        BY <1>1, <3>4, OutputFacts DEF WritesStub
      <4>2. dylibs[current] # Absent
        BY <1>1, <1>2, <4>1 DEF Layout, CurrentOK, Converting
      <4> QED BY <1>6, <4>1, <4>2
    <3> QED BY <3>1, <3>2, <3>3, <3>4
  <2> QED BY <1>6, <2>1, <2>2
<1>7. CASE Scanned
  <2>1. /\ pc = "scan" /\ todo = {} /\ pc' = "next" /\ UNCHANGED <<disk, todo, dylibs>>
        /\ left' = {s \in Stems : dylibs[s] # Absent}
    BY <1>7 DEF Scanned, tree, scan
  <2> QED BY <1>2, <2>1 DEF SettledOK, InRun, Waiting, Deleting
<1>8. ASSUME pc \in {"next"} \cup Converting \cup Deleting, UNCHANGED <<todo, dylibs, left>>,
             pc' \in Deleting => left = {}, pc # "write",
             \A s \in Stems : Waiting(s) => Waiting(s)'
      PROVE  /\ todo' = {}
             /\ pc' \in Deleting => left' = {}
             /\ \A p \in Paths : disk'[p].is \in Interface /\ ~Excluded(p) => p \in todo' \/ dylibs'[Stem(p)] # Absent
             /\ \A s \in Stems : dylibs'[s] # Absent => Waiting(s)' \/ Settled(s)'
  <2>1. InRun /\ pc # "scan"
    BY <1>2, <1>8 DEF InRun, Converting, Deleting
  <2>2. ASSUME NEW s \in Stems, dylibs[s] # Absent, ~Waiting(s) PROVE Settled(s)'
    <3>1. Settled(s)
      BY <2>1, <2>2 DEF SettledOK
    <3>2. disk'[StubOf(s)] = disk[StubOf(s)]
      BY <1>2, <1>8, <2>2, StubStays DEF Conversion
    <3> QED BY <3>1, <3>2, StaysSettled
  <2> QED BY <1>6, <1>8, <2>1, <2>2
<1>9. CASE Convert
  <2>1. pc = "next" /\ UNCHANGED <<disk, todo, dylibs>>
    BY <1>9 DEF Convert, tree, scan
  <2>2. PICK s \in left : current' = s /\ left' = left \ {s} /\ pc' \in {"inline", "write", "failed"}
    BY <1>9 DEF Convert, CallInline, Fail
  <2>3. InRun
    BY <1>2, <2>1 DEF InRun
  <2>4. ASSUME NEW r \in Stems, dylibs'[r] # Absent PROVE Waiting(r)' \/ Settled(r)'
    <3>1. r \in left \/ Settled(r)
      BY <2>1, <2>3, <2>4 DEF SettledOK, Waiting
    <3>2. r \in left => Waiting(r)'
      BY <1>2, <2>2 DEF Waiting, Converting, Deleting
    <3> QED BY <1>1, <2>1, <3>1, <3>2, SameSettled
  <2> QED BY <1>2, <1>6, <2>1, <2>2, <2>3, <2>4 DEF Deleting
<1>10. CASE inlineFrameworks
  <2>1. pc = "inline" /\ UNCHANGED <<todo, dylibs, left, current>> /\ pc' \in {"inline", "write", "failed", "overflow"}
    BY <1>1, <1>10, InlineStep DEF inlineFrameworks, scan, Fail
  <2>2. pc' \in {"inline", "write"}
    BY <1>2, <2>1 DEF Converting, Deleting
  <2> QED BY <1>2, <1>8, <2>1, <2>2 DEF Waiting, Converting, Deleting
<1>11. CASE WriteFile
  <2>1. /\ pc = "write" /\ UNCHANGED <<todo, dylibs, left, current>> /\ pc' = "relink"
        /\ disk' = [disk EXCEPT ![output] = stub]
    BY <1>2, <1>11, WriteStep DEF AfterWrite, Converting, Deleting
  <2>2. InRun
    BY <1>2, <2>1 DEF InRun, Converting
  <2>3. ASSUME NEW r \in Stems, dylibs[r] # Absent, r \notin left PROVE Settled(r)'
    <3>1. CASE r = current
      BY <1>11, <2>1, <3>1, WrittenSettled
    <3>2. CASE r # current
      <4>1. Settled(r)
        BY <2>1, <2>2, <2>3, <3>2 DEF SettledOK, Waiting
      <4>2. disk'[StubOf(r)] = disk[StubOf(r)]
        BY <1>2, <2>3, <3>2, StubStays DEF Conversion
      <4> QED BY <4>1, <4>2, StaysSettled
    <3> QED BY <3>1, <3>2
  <2> QED BY <1>6, <2>1, <2>2, <2>3 DEF Waiting, Deleting
<1>12. CASE RemoveLink \/ CreateLink
  <2>1. pc \in {"relink", "link"} /\ UNCHANGED <<todo, dylibs, left, current>> /\ pc' \in {"relink", "link", "failed"}
    BY <1>12, RelinkStep
  <2> QED BY <1>2, <1>8, <2>1 DEF Waiting, Converting, Deleting
<1>13. CASE Delete
  <2>1. pc = "delete" /\ UNCHANGED <<todo, dylibs, left, current>> /\ pc' \in {"delete", "failed"}
    BY <1>13, DeleteStep
  <2>2. left = {}
    BY <1>2, <2>1 DEF SettledOK, InRun, Deleting
  <2> QED BY <1>2, <1>8, <2>1, <2>2 DEF Waiting, Converting, Deleting
<1>14. CASE Converted \/ AllConverted \/ Deleted
  <2>1. /\ UNCHANGED <<todo, dylibs, left, current>>
        /\ \/ pc = "relink" /\ pc' = "next"
           \/ pc = "next" /\ left = {} /\ pc' = "delete"
           \/ pc = "delete" /\ pc' = "done"
    BY <1>14 DEF Converted, AllConverted, Deleted, scan
  <2>2. pc' \in Deleting => left = {}
    BY <1>2, <2>1 DEF SettledOK, InRun, Deleting
  <2> QED BY <1>2, <1>8, <2>1, <2>2 DEF Waiting, Converting, Deleting
<1>15. CASE ReadInput \/ DeleteInput
  BY <1>1, <1>2, <1>15 DEF ReadInput, DeleteInput, Layout, CurrentOK
<1>16. CASE UNCHANGED Seen
  <2>1. UNCHANGED <<disk, opts, reexports, pc, todo, dylibs, left, current>>
    BY <1>16 DEF Seen, tree, input, scan
  <2>2. InRun
    BY <1>2, <2>1 DEF InRun
  <2>3. \A s \in Stems : Waiting(s) => Waiting(s)'
    BY <2>1 DEF Waiting
  <2> QED BY <1>2, <2>1, <2>2, <2>3, SameSettled DEF SettledOK
<1> QED BY <1>3, <1>4, <1>5, <1>7, <1>9, <1>10, <1>11, <1>12, <1>13, <1>14, <1>15, <1>16, NextCases

\* A stub that is settled is written as it is.
LEMMA FixedPoint ==
  ASSUME Known, Conversion, AgainSettled, Again, pc = "write"
  PROVE  disk[StubOf(current)] = stub
<1>1. /\ disk \in [Paths -> Nodes] /\ Inv /\ Layout /\ current \in Stems /\ opts.file = None
  BY KnownTypes DEF Known, Inv, TypeOK, Again
<1>2. dylibs[current] # Absent /\ StubOf(current) \in Paths
  BY <1>1, StemFacts DEF Layout, CurrentOK, Converting
<1>3. Settled(current)
  BY <1>1, <1>2 DEF AgainSettled
<1>4. PICK f : f = disk[StubOf(current)]
  OBVIOUS
<1>5. f \in Nodes /\ f.is = "text" /\ f = Text(f.lib, f.docs) /\ f.lib \in Libs /\ f.docs \in SUBSET Libs
  BY <1>1, <1>2, <1>3, <1>4, TextNode DEF Settled
<1>6. Given = f
  BY <1>1, <1>4, <1>5 DEF Given, Conversion, RecordedText, Waiting, Converting, Textual
<1>7. stack[1].lib = f.lib /\ Docs(Given) = f.docs
  BY <1>5, <1>6 DEF Conversion, GatherOK, Docs, Textual
<1>8. stack[1].docs = f.docs
  <2>1. PICK l, docs, held : l = f.lib /\ docs = f.docs /\ held = Held
    OBVIOUS
  <2>2. stack[1].docs = IF opts.inline THEN Gathered(reexports, held, l, docs) ELSE docs
    BY <1>7, <2>1 DEF Conversion, GatherOK
  <2>3. opts.inline => Full(reexports, held, l, docs)
    BY <1>3, <1>4, <2>1 DEF Settled
  <2>4. opts.inline => Gathered(reexports, held, l, docs) = docs
    BY <2>3, GatheredIsFull
  <2> QED BY <2>1, <2>2, <2>4
<1> QED BY <1>4, <1>5, <1>7, <1>8 DEF stub

\* So a second run writes nothing.
LEMMA NothingWritten ==
  ASSUME Known, Conversion, AgainSettled, Again, WriteFile
  PROVE  disk' = disk
<1>1. pc = "write" /\ output = StubOf(current) /\ (disk[output] = stub => disk' = disk)
  BY WriteStep
<1> QED BY <1>1, FixedPoint

\* The tree that counts is that of the last success.
LEMMA AfterStep ==
  ASSUME Known, [Next]_vars
  PROVE  after' = after \/ (Begin /\ pc = "done" /\ after' = disk)
<1>1. (RemoveLink \/ CreateLink \/ WriteFile \/ Delete) => after' = after
  BY RelinkStep, WriteStep, DeleteStep
<1> QED BY <1>1, NextCases DEF Begin, Crash, Scan, Scanned, Convert, inlineFrameworks, Converted,
                   AllConverted, Deleted, ReadInput, DeleteInput, Seen, history

\* A success leaves settled stubs, and no later step unsettles one.
LEMMA AgainSettledStep ==
  ASSUME Known, Conversion, SettledOK, AgainSettled, [Next]_vars
  PROVE  AgainSettled'
<1>1. /\ UNCHANGED <<opts, first, reexports>> /\ disk \in [Paths -> Nodes] /\ Inv /\ Layout
      /\ dylibs \in [Stems -> Nodes] /\ left \subseteq Stems /\ todo \subseteq Paths
  BY FileChanges, KnownTypes DEF Known
<1>2. SUFFICES ASSUME Again'
      PROVE  /\ \A p \in Paths : disk'[p].is \in Interface /\ ~Excluded(p) => Settled(Stem(p))'
             /\ \A s \in Stems : dylibs'[s] # Absent => Settled(s)'
  BY <1>1 DEF AgainSettled, Excluded
<1>3. opts.file = None
  BY <1>1, <1>2 DEF Again
<1>4. CASE Begin \/ Crash
  <2>1. disk' = disk /\ dylibs' = [s \in Stems |-> Absent]
    BY <1>4 DEF Begin, Crash, Fresh, tree
  <2>2. ASSUME NEW p \in Paths, disk[p].is \in Interface, ~Excluded(p) PROVE Settled(Stem(p))
    <3>1. CASE after' = after
      BY <1>2, <1>3, <2>2, <3>1 DEF Again, AgainSettled
    <3>2. CASE after' # after
      <4>1. pc = "done" /\ Stem(p) \in Stems
        BY <3>2, AfterStep, PathFacts
      <4> QED BY <1>3, <2>2, <4>1 DEF SettledOK, InRun, Waiting, Deleting
    <3> QED BY <3>1, <3>2
  <2>3. ASSUME NEW p \in Paths, disk'[p].is \in Interface, ~Excluded(p) PROVE Settled(Stem(p))'
    BY <1>1, <2>1, <2>2, <2>3, SameSettled
  <2> QED BY <2>1, <2>3
<1>5. CASE ~(Begin \/ Crash)
  <2>1. Again
    BY <1>2, <1>3, <1>5, AfterStep DEF Again
  <2>2. \A p \in Paths : disk'[p].is \in Interface => disk'[p] = disk[p]
    <3>1. ASSUME NEW p \in Paths, disk'[p].is \in Interface, disk'[p] # disk[p] PROVE FALSE
      <4>1. WritesStub(p)
        BY <3>1, FileChanges DEF Relinks, Deletes, Absent, Link, Interface, Textual
      <4>2. WriteFile
        <5>1. pc = "write"
          BY <4>1 DEF WritesStub
        <5>2. CASE Quiet
          BY <3>1, <5>2, QuietStep
        <5>3. CASE RemoveLink \/ CreateLink \/ Delete \/ DeleteInput
          BY <5>1, <5>3 DEF RemoveLink, CreateLink, Delete, DeleteInput
        <5> QED BY <5>2, <5>3, NextCases DEF Quiet
      <4> QED BY <2>1, <3>1, <4>2, NothingWritten
    <3> QED BY <3>1
  <2>3. ASSUME NEW s \in Stems, Settled(s), pc = "scan" \/ dylibs[s] # Absent PROVE Settled(s)'
    <3>1. CASE WriteFile
      BY <1>1, <2>1, <2>3, <3>1, NothingWritten, SameSettled
    <3>2. CASE Quiet
      BY <1>1, <2>3, <3>2, QuietStep, SameSettled
    <3>3. CASE RemoveLink \/ CreateLink \/ Delete \/ DeleteInput
      <4>1. dylibs[s] # Absent /\ pc # "write"
        BY <2>3, <3>3 DEF RemoveLink, CreateLink, Delete, DeleteInput
      <4>2. disk'[StubOf(s)] = disk[StubOf(s)]
        BY <1>3, <4>1, StubStays DEF Conversion
      <4> QED BY <2>3, <4>2, StaysSettled
    <3> QED BY <3>1, <3>2, <3>3, NextCases DEF Quiet
  <2>4. ASSUME NEW p \in Paths, disk'[p].is \in Interface, ~Excluded(p) PROVE Settled(Stem(p))'
    <3>1. disk[p].is \in Interface /\ disk'[p] = disk[p] /\ Stem(p) \in Stems
      BY <2>2, <2>4, PathFacts
    <3>2. Settled(Stem(p))
      BY <2>1, <2>4, <3>1 DEF AgainSettled
    <3>3. CASE pc = "scan" \/ dylibs[Stem(p)] # Absent
      BY <2>3, <3>1, <3>2, <3>3
    <3>4. CASE pc # "scan" /\ dylibs[Stem(p)] = Absent
      <4>1. ~InRun
        BY <2>4, <3>1, <3>4 DEF SettledOK
      <4>2. Quiet
        BY <1>1, <1>3, <4>1, NextCases DEF Quiet, InRun, Converting, Deleting, WriteFile, RemoveLink, CreateLink,
                                 Delete, DeleteInput, Layout, CurrentOK
      <4> QED BY <1>1, <3>2, <4>2, QuietStep, SameSettled
    <3> QED BY <3>3, <3>4
  <2>5. ASSUME NEW s \in Stems, dylibs'[s] # Absent PROVE Settled(s)'
    <3>1. \/ dylibs'[s] = dylibs[s]
          \/ /\ pc = "scan"
             /\ \E p \in Paths : s = Stem(p) /\ ~Excluded(p) /\ disk[p].is \in Interface /\ dylibs'[s] = disk[p]
      BY <2>5, MapsStep
    <3>2. CASE dylibs'[s] = dylibs[s]
      BY <2>1, <2>3, <2>5, <3>2 DEF AgainSettled
    <3>3. CASE /\ pc = "scan"
               /\ \E p \in Paths : s = Stem(p) /\ ~Excluded(p) /\ disk[p].is \in Interface /\ dylibs'[s] = disk[p]
      BY <2>1, <2>3, <3>3 DEF AgainSettled
    <3> QED BY <3>1, <3>2, <3>3
  <2> QED BY <2>4, <2>5
<1> QED BY <1>4, <1>5

-----------------------------------------------------------------------------
(* What is marked for deletion *)

\* A run begins with a scan, and goes on.
LEMMA GoesOn ==
  ASSUME Known, [Next]_vars, InRun', ~Begin
  PROVE  InRun /\ (pc' = "scan" => pc = "scan") /\ opts.file = None
<1>1. Inv /\ Layout /\ opts' = opts
  BY FileChanges DEF Known
<1>2. opts.file = None /\ pc' \in {"scan", "next"} \cup Converting \cup Deleting
  BY <1>1 DEF InRun
<1>3. pc \notin {"read", "deleteInput"}
  BY <1>1, <1>2 DEF Layout, CurrentOK
<1>4. CASE Scan
  <2>1. PICK p \in todo : ScanPrivate(p) \/ ScanLink(p) \/ ScanFile(p) \/ ScanOther(p) \/ ScanError(p)
    BY <1>4 DEF Scan
  <2>2. pc = "scan"
    BY <1>4 DEF Scan
  <2> QED BY <1>2, <2>2 DEF InRun
<1>5. CASE inlineFrameworks
  <2>1. pc = "inline" /\ pc' \in {"inline", "write", "failed", "overflow"}
    BY <1>1, <1>5, InlineStep DEF inlineFrameworks, Fail
  <2> QED BY <1>2, <2>1 DEF InRun, Converting
<1>6. CASE WriteFile \/ RemoveLink \/ CreateLink
  <2>1. pc \in Converting
    BY <1>6 DEF WriteFile, RemoveLink, CreateLink, Converting
  <2>2. WriteFile => pc' # "scan"
    BY <1>2, WriteStep DEF AfterWrite
  <2>3. RemoveLink \/ CreateLink => pc' # "scan"
    BY RelinkStep
  <2> QED BY <1>2, <1>6, <2>1, <2>2, <2>3 DEF InRun
<1>7. CASE Delete
  BY <1>2, <1>7, DeleteStep DEF InRun, Deleting
<1>8. CASE Scanned \/ Convert \/ Converted \/ AllConverted \/ Deleted
  BY <1>2, <1>8 DEF Scanned, Convert, CallInline, Fail, Converted, AllConverted, Deleted, InRun, Converting, Deleting
<1>9. CASE Crash
  BY <1>2, <1>9 DEF Crash, Converting, Deleting
<1>10. CASE ReadInput \/ DeleteInput
  BY <1>3, <1>10 DEF ReadInput, DeleteInput
<1>11. CASE UNCHANGED Seen
  BY <1>2, <1>11 DEF Seen, InRun
<1> QED BY <1>4, <1>5, <1>6, <1>7, <1>8, <1>9, <1>10, <1>11, NextCases

\* Where marks come from, and where they go.
LEMMA MarksStep ==
  ASSUME Known, [Next]_vars, InRun', ~Begin
  PROVE  /\ \A d \in toDelete' :
              \/ d \in toDelete
              \/ pc = "scan" /\ ~d[2]
              \/ /\ WriteFile /\ opts.deleteInput /\ originalNames[current] # None
                 /\ d = <<originalNames[current], TRUE>> /\ originalNames[current] \in SparedLibs
              \/ /\ CreateLink /\ opts.deleteInput /\ link \in symlinks /\ link.target = originalNames[current]
                 /\ d = <<link.src, TRUE>> /\ link.src \in PublicLinks
         /\ \A p \in Paths, b \in BOOLEAN : <<p, b>> \in toDelete =>
              \/ <<p, b>> \in toDelete'
              \/ Delete /\ (disk'[p] = Absent \/ (Protected(p, b) /\ disk' = disk))
<1>1. /\ Inv /\ Layout /\ opts.file = None /\ toDelete \subseteq Paths \X BOOLEAN /\ disk \in [Paths -> Nodes]
      /\ InRun /\ opts' = opts
  BY KnownTypes, GoesOn, FileChanges DEF Known
<1>2. CASE toDelete' = toDelete
  BY <1>2
<1>3. CASE Scan
  <2>1. PICK p \in todo : ScanPrivate(p) \/ ScanLink(p) \/ ScanFile(p) \/ ScanOther(p) \/ ScanError(p)
    BY <1>3 DEF Scan
  <2>2. toDelete' = toDelete \/ toDelete' = toDelete \cup {<<p, FALSE>>}
    BY <2>1 DEF ScanPrivate, ScanLink, ScanFile, ScanOther, ScanError
  <2>3. pc = "scan" /\ toDelete \subseteq toDelete'
    BY <1>3, <2>2 DEF Scan
  <2>4. ASSUME NEW d \in toDelete', d \notin toDelete PROVE ~d[2]
    <3>1. d = <<p, FALSE>>
      BY <2>2, <2>4
    <3> QED BY <3>1
  <2> QED BY <2>3, <2>4
<1>4. CASE WriteFile
  <2>1. \/ toDelete' = toDelete
        \/ /\ opts.deleteInput /\ originalNames[current] # None
           /\ toDelete' = toDelete \cup {<<originalNames[current], TRUE>>}
    BY <1>1, <1>4, WriteStep DEF AfterWrite
  <2>2. current \in Stems
    BY <1>4, WriteStep
  <2>3. originalNames[current] # None => originalNames[current] \in SparedLibs
    BY <1>1, <2>2 DEF Layout, RecordsOK
  <2> QED BY <1>4, <2>1, <2>3
<1>5. CASE RemoveLink \/ CreateLink
  <2>1. CASE RemoveLink
    BY <2>1, <1>2 DEF RemoveLink
  <2>2. CASE CreateLink
    <3>1. pc = "link" /\ link \in symlinks /\ link.target = originalNames[current]
      BY <1>1, <2>2 DEF CreateLink, Layout, CurrentOK, Inv, TypeOK
    <3>2. link.src \in PublicLinks
      BY <1>1, <3>1, RelinkedIsPublic
    <3>3. toDelete' = toDelete \/ (opts.deleteInput /\ toDelete' = toDelete \cup {<<link.src, TRUE>>})
      BY <2>2 DEF CreateLink
    <3> QED BY <2>2, <3>1, <3>2, <3>3
  <2> QED BY <1>5, <2>1, <2>2
<1>6. CASE Delete
  <2>1. \/ UNCHANGED toDelete
        \/ \E p \in Paths, b \in BOOLEAN :
             /\ toDelete' = toDelete \ {<<p, b>>}
             /\ IF Protected(p, b) THEN disk' = disk ELSE disk' = [disk EXCEPT ![p] = Absent]
    BY <1>6, DeleteStep
  <2>2. CASE toDelete' # toDelete
    <3>1. PICK p \in Paths, b \in BOOLEAN :
             /\ toDelete' = toDelete \ {<<p, b>>}
             /\ IF Protected(p, b) THEN disk' = disk ELSE disk' = [disk EXCEPT ![p] = Absent]
      BY <2>1, <2>2
    <3>2. ~Protected(p, b) => disk'[p] = Absent
      BY <1>1, <3>1
    <3> QED BY <1>6, <3>1, <3>2
  <2> QED BY <1>2, <2>2
<1>7. ~Crash /\ ~ReadInput /\ ~DeleteInput
  BY <1>1 DEF InRun, Crash, ReadInput, DeleteInput, Converting, Deleting
<1> QED BY <1>2, <1>3, <1>4, <1>5, <1>6, <1>7, NextCases DEF Scanned, Convert, inlineFrameworks, Converted,
                                                AllConverted, Deleted, Seen

\* The inputs that are marked are libraries and links that have been stood in for.
MarkedInputs == InRun =>
  \A d \in toDelete : d[2] => opts.deleteInput /\ d[1] \in SparedLibs \cup PublicLinks

LEMMA SameSets ==
  ASSUME Known, [Next]_vars
  PROVE  /\ UNCHANGED <<opts, first, reexports>>
         /\ FirstLinks' = FirstLinks /\ SparedLibs' = SparedLibs /\ PublicLinks' = PublicLinks
         /\ \A q : Excluded(q)' <=> Excluded(q)
BY FileChanges, SameFirst

LEMMA MarkedInputsStep ==
  ASSUME Known, MarkedInputs, [Next]_vars
  PROVE  MarkedInputs'
<1>1. UNCHANGED <<opts, first>> /\ SparedLibs' = SparedLibs /\ PublicLinks' = PublicLinks
  BY SameSets
<1>2. SUFFICES ASSUME InRun', NEW d \in toDelete', d[2]
      PROVE  opts.deleteInput /\ d[1] \in SparedLibs \cup PublicLinks
  BY <1>1 DEF MarkedInputs
<1>3. CASE Begin
  BY <1>2, <1>3 DEF Begin, Fresh
<1>4. CASE ~Begin
  <2>1. \/ d \in toDelete
        \/ opts.deleteInput /\ originalNames[current] \in SparedLibs /\ d = <<originalNames[current], TRUE>>
        \/ opts.deleteInput /\ link.src \in PublicLinks /\ d = <<link.src, TRUE>>
    BY <1>2, <1>4, MarksStep
  <2>2. InRun
    BY <1>2, <1>4, GoesOn
  <2>3. CASE d \in toDelete
    BY <1>2, <2>2, <2>3 DEF MarkedInputs
  <2>4. \A x : <<x, TRUE>>[1] = x
    OBVIOUS
  <2>5. CASE d \notin toDelete
    BY <2>1, <2>4, <2>5
  <2> QED BY <2>3, <2>5
<1> QED BY <1>3, <1>4

\* Every private file is still to be scanned, or marked, or some link leads to it.
SweptOK == InRun =>
  /\ pc = "done" => toDelete = {}
  /\ \A p \in FirstLinks : Excluded(p) /\ ~Loops(first, p) /\ disk[p] # Absent =>
       p \in todo \/ <<p, FALSE>> \in toDelete
  /\ \A p \in Paths : Excluded(p) /\ disk[p] # Absent /\ disk[p].is # "link" =>
       p \in todo \/ <<p, FALSE>> \in toDelete \/ Protected(p, FALSE)
  /\ \A y \in symlinks : ~IsTbd(y.src) => first[y.target].is # "link"

\* What the scan adds to the links.
LEMMA LinksStep ==
  ASSUME Known, [Next]_vars, InRun', ~Begin
  PROVE  /\ symlinks \subseteq symlinks'
         /\ \A y \in symlinks' :
              \/ y \in symlinks
              \/ \E p \in todo : /\ pc = "scan" /\ ScanLink(p) /\ disk[p].is = "link" /\ Exists(disk, p)
                                 /\ y = [target |-> Target(disk, p), src |-> p, to |-> disk[p].to]
         /\ symlinks' = symlinks \/ Scan
<1>1. InRun /\ Inv /\ Layout /\ opts.file = None
  BY GoesOn DEF Known
<1>2. CASE Scan
  <2>1. PICK p \in todo : ScanPrivate(p) \/ ScanLink(p) \/ ScanFile(p) \/ ScanOther(p) \/ ScanError(p)
    BY <1>2 DEF Scan
  <2>2. pc = "scan"
    BY <1>2 DEF Scan
  <2>3. CASE ScanLink(p)
    BY <1>2, <2>2, <2>3 DEF ScanLink
  <2>4. CASE symlinks' = symlinks
    BY <2>4
  <2> QED BY <2>1, <2>3, <2>4 DEF ScanPrivate, ScanFile, ScanOther, ScanError, scan
<1>3. ~Crash
  BY DEF InRun, Crash, Converting, Deleting
<1>4. symlinks' = symlinks \/ Scan \/ Begin \/ Crash
  BY WriteStep, RelinkStep, DeleteStep, NextCases DEF Scanned, Convert, inlineFrameworks, Converted, AllConverted,
     Deleted, ReadInput, DeleteInput, Seen, scan
<1> QED BY <1>2, <1>3, <1>4

\* A private link that led to something, or to nothing, still does not go around in circles.
LEMMA StillEnds ==
  ASSUME disk \in [Paths -> Nodes], TreeOK, NEW p \in Paths, ~IsTbd(p), ~Loops(first, p)
  PROVE  ~Loops(disk, p)
<1>1. first \in [Paths -> Nodes] /\ LinksKeepTo(first)
  BY FirstFacts DEF TreeOK, FirstOK
<1>2. \A x \in Hops(first, p) : disk[x] \in {first[x], Absent}
  BY <1>1, SameKind, HopsFacts, TreeFacts
<1>3. CASE Intact(p)
  <2>1. Target(disk, p) = Target(first, p) /\ Target(first, p) \in Hops(first, p)
    BY <1>1, <1>3, LeadsAsFirst, HopsFacts
  <2> QED BY <1>3, <2>1 DEF Intact, Loops
<1>4. CASE ~Intact(p)
  <2>1. disk[Target(disk, p)] = Absent
    BY <1>1, <1>2, <1>4, WayLost DEF Intact
  <2> QED BY <2>1 DEF Loops, Absent
<1> QED BY <1>3, <1>4

\* Private files do not change but that they go.
LEMMA PrivateStays ==
  ASSUME Known, PublicOK, [Next]_vars, InRun', NEW p \in Paths, Excluded(p) \/ ~IsTbd(p), disk'[p] # Absent
  PROVE  disk'[p] = disk[p]
<1>1. disk'[p] = disk[p] \/ WritesStub(p) \/ Relinks(p) \/ Deletes(p)
  BY FileChanges
<1>2. Known' /\ disk \in [Paths -> Nodes] /\ FirstOK /\ opts' = opts /\ Inv /\ Layout
  BY KnownStep, KnownTypes, FileChanges DEF Known
<1>3. ~Relinks(p)
  BY <1>2, PublicFacts DEF Relinks
<1>4. ~WritesStub(p)
  <2>1. SUFFICES ASSUME WritesStub(p) PROVE FALSE
    OBVIOUS
  <2>2. pc = "write" /\ p = StubOf(current) /\ current \in Stems /\ IsTbd(p)
    BY <1>2, <2>1, OutputFacts DEF WritesStub, output
  <2>3. opts.file = None
    BY <1>2 DEF InRun
  <2>4. dylibs[current] # Absent
    BY <1>2, <2>2, <2>3 DEF Layout, CurrentOK, Converting
  <2> QED BY <2>2, <2>3, <2>4 DEF PublicOK
<1> QED BY <1>1, <1>3, <1>4 DEF Deletes

\* Only the scan takes something off its list.
LEMMA LeavesTodo ==
  ASSUME Known, [Next]_vars, InRun', ~Begin
  PROVE  todo' = todo \/ Scan
<1>1. ~Crash
  BY DEF InRun, Crash, Converting, Deleting
<1>2. (WriteFile \/ RemoveLink \/ CreateLink \/ Delete) => todo' = todo
  BY WriteStep, RelinkStep, DeleteStep
<1> QED BY <1>1, <1>2, NextCases DEF Scanned, Convert, inlineFrameworks, Converted, AllConverted,
     Deleted, ReadInput, DeleteInput, Seen

LEMMA ScanDone ==
  ASSUME Known, Scan
  PROVE  pc' \in {"scan", "failed"}
<1>1. PICK p \in todo : ScanPrivate(p) \/ ScanLink(p) \/ ScanFile(p) \/ ScanOther(p) \/ ScanError(p)
  BY DEF Scan
<1>2. pc = "scan" /\ p \in Paths /\ Inv
  BY KnownTypes DEF Scan, Known
<1> QED BY <1>1, <1>2, ScanEntry

\* Every step keeps that up.
LEMMA SweptStep ==
  ASSUME Known, PublicOK, SettledOK, SweptOK, [Next]_vars
  PROVE  SweptOK'
<1>1. /\ UNCHANGED <<opts, first, reexports>> /\ disk \in [Paths -> Nodes] /\ Inv /\ Layout /\ TreeOK
      /\ FirstLinks' = FirstLinks /\ \A q : Excluded(q)' <=> Excluded(q)
  BY SameSets, KnownTypes DEF Known
<1>2. SUFFICES ASSUME InRun'
      PROVE  /\ pc' = "done" => toDelete' = {}
             /\ \A p \in FirstLinks : Excluded(p) /\ ~Loops(first, p) /\ disk'[p] # Absent =>
                  p \in todo' \/ <<p, FALSE>> \in toDelete'
             /\ \A p \in Paths : Excluded(p) /\ disk'[p] # Absent /\ disk'[p].is # "link" =>
                  p \in todo' \/ <<p, FALSE>> \in toDelete' \/ Protected(p, FALSE)'
             /\ \A y \in symlinks' : ~IsTbd(y.src) => first[y.target].is # "link"
  BY <1>1 DEF SweptOK, Loops
<1>3. CASE Begin
  <2>1. /\ pc' = "scan" /\ todo' = {p \in Paths : disk[p] # Absent} /\ symlinks' = {} /\ disk' = disk
    BY <1>1, <1>2, <1>3 DEF Begin, Fresh, InRun, tree
  <2> QED BY <2>1 DEF FirstLinks
<1>4. CASE ~Begin
  <2>1. InRun /\ symlinks \subseteq symlinks' /\ opts.file = None
    BY <1>2, <1>4, GoesOn, LinksStep
  <2>2. pc' = "done" => toDelete' = {}
    <3>1. SUFFICES ASSUME pc' = "done" PROVE toDelete' = {}
      OBVIOUS
    <3>2. Deleted \/ UNCHANGED Seen
      <4>1. WriteFile => pc' # "done"
        BY <2>1, WriteStep DEF AfterWrite
      <4>2. Scan \/ inlineFrameworks => pc' # "done"
        BY <1>1, ScanDone, InlineStep DEF inlineFrameworks, Fail
      <4>3. RemoveLink \/ CreateLink \/ Delete => pc' # "done"
        BY RelinkStep, DeleteStep
      <4>4. ~ReadInput /\ ~DeleteInput
        BY <1>1, <2>1 DEF ReadInput, DeleteInput, Layout, CurrentOK
      <4> QED BY <3>1, <1>4, <4>1, <4>2, <4>3, <4>4, NextCases
              DEF Crash, Scanned, Convert, CallInline, Fail, Converted, AllConverted
    <3>3. CASE Deleted
      BY <3>3 DEF Deleted
    <3>4. CASE UNCHANGED Seen
      BY <2>1, <3>1, <3>4 DEF Seen, SweptOK
    <3> QED BY <3>2, <3>3, <3>4
  <2>3. ASSUME NEW p \in Paths, Excluded(p), disk[p] # Absent, p \in todo, p \notin todo',
               disk[p].is = "link" => ~Loops(disk, p)
        PROVE  <<p, FALSE>> \in toDelete'
    <3>1. Scan
      BY <1>2, <1>4, <2>3, LeavesTodo
    <3>2. PICK q \in todo : /\ ScanPrivate(q) \/ ScanLink(q) \/ ScanFile(q) \/ ScanOther(q) \/ ScanError(q)
                            /\ todo' = todo \ {q}
      BY <3>1 DEF Scan
    <3>3. q = p
      BY <2>3, <3>2
    <3>4. ScanPrivate(p)
      BY <2>3, <3>2, <3>3 DEF ScanLink, ScanFile, ScanOther, ScanError, Excluded
    <3> QED BY <3>4 DEF ScanPrivate
  <2>4. ASSUME NEW p \in FirstLinks, Excluded(p), ~Loops(first, p), disk'[p] # Absent
        PROVE  p \in todo' \/ <<p, FALSE>> \in toDelete'
    <3>1. p \in Paths /\ ~IsTbd(p) /\ first[p].is = "link"
      BY <2>4 DEF FirstLinks
    <3>2. disk'[p] = disk[p] /\ disk[p] # Absent
      BY <1>2, <2>4, <3>1, PrivateStays
    <3>3. p \in todo \/ <<p, FALSE>> \in toDelete
      BY <2>1, <2>4, <3>2 DEF SweptOK
    <3>4. ~Loops(disk, p)
      BY <1>1, <2>4, <3>1, StillEnds
    <3>5. ~Protected(p, FALSE)
      <4>1. ASSUME NEW y \in symlinks, y.target = p PROVE FALSE
        <5>1. Recorded(y)
          BY <1>1 DEF Layout, RecordsOK
        <5>2. ~IsTbd(y.src)
          BY <3>1, <4>1, <5>1 DEF Recorded
        <5> QED BY <2>1, <3>1, <4>1, <5>2 DEF SweptOK
      <4> QED BY <4>1 DEF Protected
    <3>6. CASE p \in todo
      BY <2>3, <2>4, <3>1, <3>2, <3>4, <3>6
    <3>7. CASE <<p, FALSE>> \in toDelete
      BY <1>2, <1>4, <2>4, <3>1, <3>5, <3>7, MarksStep
    <3> QED BY <3>3, <3>6, <3>7
  <2>5. ASSUME NEW p \in Paths, Excluded(p), disk'[p] # Absent, disk'[p].is # "link"
        PROVE  p \in todo' \/ <<p, FALSE>> \in toDelete' \/ Protected(p, FALSE)'
    <3>1. disk'[p] = disk[p]
      BY <1>2, <2>5, PrivateStays
    <3>2. p \in todo \/ <<p, FALSE>> \in toDelete \/ Protected(p, FALSE)
      BY <2>1, <2>5, <3>1 DEF SweptOK
    <3>3. Protected(p, FALSE) => Protected(p, FALSE)'
      BY <2>1 DEF Protected
    <3>4. CASE p \in todo
      BY <2>3, <2>5, <3>1, <3>4
    <3>5. CASE <<p, FALSE>> \in toDelete
      BY <1>2, <1>4, <2>5, <3>3, <3>5, MarksStep
    <3> QED BY <3>2, <3>3, <3>4, <3>5
  <2>6. ASSUME NEW y \in symlinks', ~IsTbd(y.src) PROVE first[y.target].is # "link"
    <3>1. CASE y \in symlinks
      BY <2>1, <2>6, <3>1 DEF SweptOK
    <3>2. CASE y \notin symlinks
      <4>1. PICK p \in todo : /\ ScanLink(p) /\ disk[p].is = "link" /\ Exists(disk, p)
                              /\ y = [target |-> Target(disk, p), src |-> p, to |-> disk[p].to]
        BY <1>2, <1>4, <3>2, LinksStep
      <4>2. p \in Paths /\ ~IsTbd(p) /\ y.target = Target(disk, p) /\ first \in [Paths -> Nodes]
        BY <1>1, <2>6, <4>1, KnownTypes
      <4>3. Contents(disk, p) # Absent
        BY <4>1 DEF Exists
      <4>4. Target(disk, p) = Target(first, p) /\ Contents(first, p) # Absent
        BY <1>1, <4>2, <4>3, LeadsAsFirst
      <4> QED BY <4>2, <4>4 DEF Contents, Loops
    <3> QED BY <3>1, <3>2
  <2> QED BY <2>2, <2>4, <2>5, <2>6
<1> QED BY <1>3, <1>4

\* A library that is still there is marked, or its stub is still to be written.
MarkOK == InRun /\ opts.deleteInput =>
  \A b \in SparedLibs : disk[b] # Absent => <<b, TRUE>> \in toDelete \/ Waiting(Stem(b))

\* Every step keeps that up: a library is marked when its stub is written.
LEMMA MarkStep ==
  ASSUME Known, PublicOK, SettledOK, MarkOK, [Next]_vars
  PROVE  MarkOK'
<1>1. /\ UNCHANGED <<opts, first, reexports>> /\ disk \in [Paths -> Nodes] /\ Inv /\ Layout /\ TreeOK
      /\ SparedLibs' = SparedLibs /\ FirstOK /\ ScannedOK
  BY SameSets, KnownTypes DEF Known, StoodIn
<1>2. SUFFICES ASSUME InRun', opts.deleteInput, NEW b \in SparedLibs, disk'[b] # Absent
      PROVE  <<b, TRUE>> \in toDelete' \/ Waiting(Stem(b))'
  BY <1>1 DEF MarkOK
<1>3. CASE Begin
  <2>1. pc' = "scan"
    BY <1>1, <1>2, <1>3 DEF Begin, InRun
  <2> QED BY <2>1 DEF Waiting
<1>4. CASE ~Begin
  <2>1. InRun /\ (pc' = "scan" => pc = "scan") /\ opts.file = None
    BY <1>2, <1>4, GoesOn
  <2>2. b \in Libraries /\ b \in Paths /\ ~IsTbd(b) /\ Stem(b) \in Stems
    BY <1>1, LibraryFacts DEF SparedLibs
  <2>3. disk[b] = disk'[b] /\ disk[b] = first[b]
    <3>1. disk'[b] = disk[b]
      BY <1>2, <2>2, PrivateStays
    <3> QED BY <1>1, <1>2, <2>2, <3>1, TreeFacts
  <2>4. CASE <<b, TRUE>> \in toDelete
    <3>1. ~Protected(b, TRUE) /\ TRUE \in BOOLEAN
      BY DEF Protected
    <3> QED BY <1>2, <1>4, <2>2, <2>4, <3>1, MarksStep
  <2>5. CASE Waiting(Stem(b)) /\ <<b, TRUE>> \notin toDelete
    <3>1. CASE Scan
      <4>1. pc' = "scan"
        BY <1>2, <3>1, ScanDone DEF InRun, Converting, Deleting
      <4> QED BY <4>1 DEF Waiting
    <3>2. CASE Scanned
      <4>1. pc = "scan" /\ todo = {} /\ left' = {s \in Stems : dylibs[s] # Absent}
        BY <3>2 DEF Scanned
      <4>2. dylibs[Stem(b)] # Absent
        BY <1>1, <2>1, <2>3, <4>1 DEF ScannedOK
      <4> QED BY <2>2, <4>1, <4>2 DEF Waiting
    <3>3. CASE Convert
      <4>1. pc = "next" /\ \E s \in left : current' = s /\ left' = left \ {s}
        BY <3>3 DEF Convert
      <4>2. pc' \in {"inline", "write"}
        BY <1>2, <3>3 DEF Convert, CallInline, Fail, InRun, Converting, Deleting
      <4> QED BY <2>5, <4>1, <4>2 DEF Waiting
    <3>4. CASE inlineFrameworks
      <4>1. pc = "inline" /\ UNCHANGED <<left, current>> /\ pc' \in {"inline", "write", "failed", "overflow"}
        BY <1>1, <3>4, InlineStep DEF inlineFrameworks, Fail
      <4> QED BY <1>2, <2>5, <4>1 DEF Waiting, InRun, Converting, Deleting
    <3>5. CASE WriteFile
      <4>1. /\ pc = "write" /\ UNCHANGED <<left, current>> /\ AfterWrite /\ current \in Stems
        BY <1>2, <3>5, WriteStep DEF InRun, Converting, Deleting
      <4>2. CASE Stem(b) \in left
        BY <4>1, <4>2 DEF Waiting
      <4>3. CASE Stem(b) = current
        <5>1. originalNames[current] = b
          BY <1>1, <2>1, <2>3, <4>1, <4>3 DEF ScannedOK, SettledOK, Converting
        <5>2. b # None
          BY <2>2, TreeAssumption
        <5> QED BY <1>2, <2>1, <4>1, <5>1, <5>2 DEF AfterWrite
      <4> QED BY <2>5, <4>1, <4>2, <4>3 DEF Waiting
    <3>6. CASE RemoveLink \/ CreateLink \/ Delete
      <4>1. pc \in {"relink", "link", "delete"} /\ left' = left
        BY <3>6, RelinkStep, DeleteStep
      <4> QED BY <2>5, <4>1 DEF Waiting
    <3>7. CASE Converted \/ AllConverted \/ Deleted \/ UNCHANGED Seen
      BY <2>5, <3>7 DEF Converted, AllConverted, Deleted, Seen, Waiting
    <3>8. ~Crash /\ ~ReadInput /\ ~DeleteInput
      BY <1>2, <2>1 DEF InRun, Crash, ReadInput, DeleteInput, Converting, Deleting
    <3> QED BY <1>4, <3>1, <3>2, <3>3, <3>4, <3>5, <3>6, <3>7, <3>8, NextCases
  <2> QED BY <1>2, <2>1, <2>3, <2>4, <2>5 DEF MarkOK
<1> QED BY <1>3, <1>4

\* A second run finds no input to delete: the stubs are not taken for originals.
AgainMarks == Again =>
  /\ \A d \in toDelete : ~d[2]
  /\ opts.deleteInput => (\A b \in SparedLibs : disk[b] = Absent) /\ \A s \in Stems : originalNames[s] = None

\* What has been deleted of the inputs does not come back.
LEMMA StaysGone ==
  ASSUME Known, [Next]_vars, NEW p \in Paths, ~IsTbd(p), disk[p] = Absent
  PROVE  disk'[p] = Absent
<1>1. disk'[p] = disk[p] \/ WritesStub(p) \/ Relinks(p) \/ Deletes(p)
  BY FileChanges
<1>2. ~WritesStub(p)
  BY OutputFacts DEF WritesStub, Known
<1>3. ~Relinks(p)
  BY PublicFacts, KnownTypes DEF Relinks
<1> QED BY <1>1, <1>2, <1>3 DEF Deletes

\* A run that fails at a step marks nothing by it.
LEMMA MarksKept ==
  ASSUME Known, [Next]_vars, ~InRun', opts.file = None, ~(Begin \/ Crash)
  PROVE  toDelete' \subseteq toDelete
<1>1. /\ Inv /\ Layout /\ opts' = opts
  BY FileChanges DEF Known
<1>2. CASE Scan
  <2>1. PICK p \in todo : ScanPrivate(p) \/ ScanLink(p) \/ ScanFile(p) \/ ScanOther(p) \/ ScanError(p)
    BY <1>2 DEF Scan
  <2>2. pc' # "scan" /\ pc = "scan"
    BY <1>1, <1>2 DEF InRun, Scan
  <2> QED BY <2>1, <2>2 DEF ScanPrivate, ScanLink, ScanFile, ScanOther, ScanError
<1>3. CASE WriteFile
  <2>1. AfterWrite => pc' = "relink"
    BY DEF AfterWrite
  <2> QED BY <1>1, <1>3, <2>1, WriteStep DEF InRun, Converting
<1>4. CASE RemoveLink \/ CreateLink
  <2>1. pc' \notin {"relink", "link"}
    BY <1>1 DEF InRun, Converting
  <2> QED BY <1>4, <2>1, RelinkStep
<1>5. CASE Delete
  BY <1>5, DeleteStep
<1>6. ~ReadInput /\ ~DeleteInput
  BY <1>1 DEF ReadInput, DeleteInput, Layout, CurrentOK
<1> QED BY <1>2, <1>3, <1>4, <1>5, <1>6, NextCases DEF Scanned, Convert, inlineFrameworks, Converted, AllConverted,
                                            Deleted, Seen

\* A success has deleted the inputs, so that later scans find none.
LEMMA AgainMarksStep ==
  ASSUME Known, PublicOK, SettledOK, SweptOK, MarkOK, MarkedInputs, AgainMarks, [Next]_vars
  PROVE  AgainMarks'
<1>1. /\ UNCHANGED <<opts, first, reexports>> /\ disk \in [Paths -> Nodes] /\ Inv /\ Layout /\ TreeOK
      /\ SparedLibs' = SparedLibs /\ FirstOK /\ originalNames \in [Stems -> Paths \cup {None}]
  BY SameSets, KnownTypes DEF Known
<1>2. SUFFICES ASSUME Again'
      PROVE  /\ \A d \in toDelete' : ~d[2]
             /\ opts.deleteInput => (\A b \in SparedLibs : disk'[b] = Absent) /\ \A s \in Stems : originalNames'[s] = None
  BY <1>1 DEF AgainMarks
<1>3. opts.file = None
  BY <1>1, <1>2 DEF Again
<1>4. \A b \in SparedLibs : b \in Paths /\ ~IsTbd(b) /\ Stem(b) \in Stems
  BY <1>1, LibraryFacts DEF SparedLibs
<1>5. CASE Begin \/ Crash
  <2>1. disk' = disk /\ toDelete' = {} /\ originalNames' = [s \in Stems |-> None]
    BY <1>5 DEF Begin, Crash, Fresh, tree
  <2>2. ASSUME opts.deleteInput, NEW b \in SparedLibs PROVE disk[b] = Absent
    <3>1. CASE after' = after
      BY <1>2, <1>3, <2>2, <3>1 DEF Again, AgainMarks
    <3>2. CASE after' # after
      <4>1. pc = "done"
        BY <3>2, AfterStep
      <4>2. InRun
        BY <1>3, <4>1 DEF InRun, Deleting
      <4>3. toDelete = {} /\ left = {}
        BY <4>1, <4>2 DEF SweptOK, SettledOK, Deleting
      <4> QED BY <2>2, <4>1, <4>2, <4>3 DEF MarkOK, Waiting
    <3> QED BY <3>1, <3>2
  <2> QED BY <2>1, <2>2
<1>6. CASE ~(Begin \/ Crash)
  <2>1. Again
    BY <1>2, <1>3, <1>6, AfterStep DEF Again
  <2>2. CASE opts.deleteInput
    <3>1. \A b \in SparedLibs : disk[b] = Absent /\ disk'[b] = Absent
      BY <1>4, <2>1, <2>2, StaysGone DEF AgainMarks
    <3>2. \A s \in Stems : originalNames[s] = None
      BY <2>1, <2>2 DEF AgainMarks
    <3>3. originalNames' = originalNames
      <4>1. CASE Scan
        <5>1. PICK p \in todo : ScanPrivate(p) \/ ScanLink(p) \/ ScanFile(p) \/ ScanOther(p) \/ ScanError(p)
          BY <4>1 DEF Scan
        <5>2. p \in Paths
          BY KnownTypes
        <5>3. CASE ScanFile(p)
          <6>1. disk[p].is \in Interface /\ ~Excluded(p) /\ (originalNames' = originalNames \/ disk[p].is = "dylib")
            BY <5>3 DEF ScanFile, Original, Excluded
          <6>2. disk[p].is = "dylib" => p \in SparedLibs
            BY <1>1, <5>2, <6>1, ScannedFile DEF SparedLibs, Excluded
          <6> QED BY <3>1, <6>1, <6>2 DEF Absent
        <5> QED BY <5>1, <5>3 DEF ScanPrivate, ScanLink, ScanOther, ScanError, scan
      <4>2. CASE WriteFile \/ RemoveLink \/ CreateLink \/ Delete
        BY <4>2, WriteStep, RelinkStep, DeleteStep
      <4>3. ~ReadInput /\ ~DeleteInput
        BY <1>1, <1>3 DEF ReadInput, DeleteInput, Layout, CurrentOK
      <4> QED BY <1>6, <4>1, <4>2, <4>3, NextCases DEF Scanned, Convert, inlineFrameworks, Converted, AllConverted,
                                            Deleted, Seen, scan
    <3>4. ASSUME NEW d \in toDelete' PROVE ~d[2]
      <4>1. CASE InRun'
        <5>1. \/ d \in toDelete \/ ~d[2]
              \/ WriteFile /\ originalNames[current] # None
              \/ CreateLink /\ link \in symlinks /\ link.target = originalNames[current]
          BY <1>6, <3>4, <4>1, MarksStep
        <5>2. ~(WriteFile /\ originalNames[current] # None)
          BY <3>2, WriteStep
        <5>3. ~(CreateLink /\ link \in symlinks /\ link.target = originalNames[current])
          <6>1. CreateLink => pc = "link"
            BY DEF CreateLink
          <6>2. pc = "link" => current \in Stems
            BY <1>1, <1>3 DEF Layout, CurrentOK, Converting
          <6>3. link \in symlinks => link.target \in Paths
            BY KnownTypes DEF Symlinks
          <6> QED BY <3>2, <6>1, <6>2, <6>3, TreeAssumption
        <5> QED BY <2>1, <5>1, <5>2, <5>3 DEF AgainMarks
      <4>2. CASE ~InRun'
        BY <1>3, <1>6, <2>1, <3>4, <4>2, MarksKept DEF AgainMarks
      <4> QED BY <4>1, <4>2
    <3> QED BY <3>1, <3>2, <3>3, <3>4
  <2>3. CASE ~opts.deleteInput
    <3>1. ASSUME NEW d \in toDelete' PROVE ~d[2]
      <4>1. CASE InRun'
        BY <1>1, <2>3, <3>1, <4>1, MarkedInputsStep DEF MarkedInputs
      <4>2. CASE ~InRun'
        BY <1>3, <1>6, <2>1, <3>1, <4>2, MarksKept DEF AgainMarks
      <4> QED BY <4>1, <4>2
    <3> QED BY <2>3, <3>1
  <2> QED BY <2>2, <2>3
<1> QED BY <1>5, <1>6

-----------------------------------------------------------------------------
(* The ways to private files that last *)

\* A link that a run neither deletes nor replaces by another.
Lasting(d, h) == ~Excluded(h) /\ \A q \in FirstLinks : h = Tbd(q) => d[h] = Link(Tbd(first[q].to))

\* A way of such links, to a file.
Lasts(d, x, p) ==
  /\ Real(x) = x /\ d[x].is = "link" /\ Target(d, x) = p /\ d[p] # Absent /\ d[p].is # "link"
  /\ \A h \in Hops(d, x) : d[h].is = "link" => Lasting(d, h)

\* The files, as if the twin that has just been removed had been made again.
Mended == IF pc = "link" THEN [disk EXCEPT ![Tbd(link.src)] = Link(Tbd(link.to))] ELSE disk

\* As long as nothing on the way to a private file is replaced, a way to it stays, that the
\* next run will find again.
ProtectOK == InRun =>
  \A y \in symlinks : Excluded(y.target) /\ ~Unprotected(y.target) =>
    \E x \in Paths : Lasts(Mended, x, y.target)

LEMMA SameUnprotected ==
  ASSUME UNCHANGED <<opts, first>>
  PROVE  /\ DeletedLinks' = DeletedLinks /\ FirstLinks' = FirstLinks
         /\ \A p : /\ Unprotected(p)' <=> Unprotected(p)
                   /\ Excluded(p)' <=> Excluded(p)
         /\ \A d, h : Lasting(d, h)' <=> Lasting(d', h)
<1>1. DeletedLinks' = DeletedLinks /\ RenewedLinks' = RenewedLinks /\ FirstLinks' = FirstLinks
  BY DEF DeletedLinks, RenewedLinks, FirstLinks
<1>2. \A p : Unprotected(p)' <=> Unprotected(p)
  BY <1>1 DEF Unprotected
<1>3. \A p : Excluded(p)' <=> Excluded(p)
  BY DEF Excluded
<1> QED BY <1>1, <1>2, <1>3 DEF Lasting

\* A way that does not change lasts.
LEMMA LastsSame ==
  ASSUME NEW d \in [Paths -> Nodes], NEW e \in [Paths -> Nodes], NEW x \in Paths, NEW p,
         Lasts(d, x, p), e[p] = d[p], \A h \in Hops(d, x) : d[h].is = "link" => e[h] = d[h]
  PROVE  Lasts(e, x, p)
<1>1. x \in Hops(d, x) /\ p \in Hops(d, x)
  BY HopsFacts DEF Lasts
<1>2. \A h \in Hops(d, x) : e[h] = d[h]
  <2>1. ASSUME NEW h \in Hops(d, x), d[h].is # "link" PROVE h = p
    BY <2>1, LastHop DEF Lasts
  <2> QED BY <2>1
<1>3. Target(e, x) = Target(d, x) /\ Hops(e, x) = Hops(d, x)
  BY <1>2, SameWay
<1> QED BY <1>1, <1>2, <1>3 DEF Lasts, Lasting

\* A link that points at a file goes nowhere else.
LEMMA OneHop ==
  ASSUME NEW d \in [Paths -> Nodes], NEW w \in Paths, NEW p \in Paths, Real(w) = w, d[w].is = "link",
         Real(d[w].to) = p, d[p].is # "link"
  PROVE  Hops(d, w) \subseteq {w, p}
<1>1. PICK f : /\ f[0] = w /\ \A k \in 0 .. MaxLinks : f[k] \in Paths
               /\ \A k \in 1 .. MaxLinks : f[k] = Hop(d, f[k - 1])
               /\ Hops(d, w) = {Real(f[k]) : k \in 0 .. MaxLinks}
  BY TheChain
<1>2. MaxLinks \in Nat
  BY TreeAssumption
<1>3. ASSUME NEW k \in 1 .. MaxLinks PROVE Real(f[k]) = p
  <2>1. 1 \in 1 .. MaxLinks /\ 1 \in 0 .. MaxLinks /\ k \in 1 .. MaxLinks
    BY <1>2
  <2>2. f[1] = Hop(d, f[0])
    BY <1>1, <2>1
  <2>3. Real(f[1]) = p
    BY <1>1, <2>2, RealHop
  <2>4. Real(f[k]) = Real(f[1])
    BY <1>1, <2>1, <2>3, ChainEnds
  <2> QED BY <2>3, <2>4
<1>4. ASSUME NEW k \in 0 .. MaxLinks PROVE Real(f[k]) \in {w, p}
  <2>1. k = 0 \/ k \in 1 .. MaxLinks
    BY <1>2
  <2> QED BY <1>1, <1>3, <2>1
<1> QED BY <1>1, <1>4

\* From a link that the scan records, some way to what it leads to lasts; or what it leads
\* to is not protected.
LEMMA LastingWay ==
  ASSUME Known, PublicOK, opts.file = None, NEW x \in Paths, Real(x) = x, disk[x].is = "link", Exists(disk, x),
         NEW p \in Paths, p = Target(disk, x), Excluded(p), ~Unprotected(p)
  PROVE  \E w \in Paths : Lasts(disk, w, p)
<1>1. disk \in [Paths -> Nodes] /\ first \in [Paths -> Nodes] /\ FirstOK /\ TreeOK /\ NewLinksOK
  BY KnownTypes DEF Known, FirstRunOK
<1>2. ~Loops(disk, x) /\ disk[p] # Absent /\ disk[p].is # "link"
  BY DEF Exists, Contents, Loops
<1>3. disk[p] = first[p]
  BY <1>2 DEF PublicOK
<1> DEFINE Bad == {h \in Paths : disk[h].is = "link" /\ ~Lasting(disk, h)}
<1>4. CASE Bad \cap Hops(disk, x) = {}
  <2>1. \A h \in Hops(disk, x) : disk[h].is = "link" => Lasting(disk, h)
    BY <1>1, <1>4, HopsFacts
  <2>2. Lasts(disk, x, p)
    BY <1>2, <2>1 DEF Lasts
  <2> QED BY <2>2
<1>5. CASE Bad \cap Hops(disk, x) # {}
  <2>1. PICK S : S = Bad
    OBVIOUS
  <2>2. \A h \in S : h \in Paths /\ disk[h].is = "link" /\ ~Lasting(disk, h)
    BY <2>1
  <2>3. \A h \in Paths : disk[h].is = "link" /\ ~Lasting(disk, h) => h \in S
    BY <2>1
  <2>4. PICK w \in S \cap Hops(disk, x) : /\ Real(disk[w].to) \in Hops(disk, x)
                                          /\ Hops(disk, Real(disk[w].to)) \cap S = {}
    BY <1>1, <1>2, <1>5, <2>1, <2>2, LastOfThem
  <2>5. PICK u : u = Real(disk[w].to)
    OBVIOUS
  <2>6. u \in Paths /\ Real(u) = u /\ Real(w) = w /\ w \in Paths /\ disk[w].is = "link" /\ ~Lasting(disk, w)
    BY <1>1, <2>2, <2>4, <2>5, HopsFacts
  <2>7. Target(disk, u) = p /\ Target(disk, w) = p
    BY <1>1, <1>2, <2>4, <2>5, WayFrom
  <2>8. CASE disk[u].is = "link"
    <3>1. \A h \in Hops(disk, u) : disk[h].is = "link" => Lasting(disk, h)
      <4>1. Hops(disk, u) \subseteq Paths /\ Hops(disk, u) \cap S = {}
        BY <1>1, <2>4, <2>5, <2>6, HopsFacts
      <4> QED BY <2>3, <4>1
    <3>2. Lasts(disk, u, p)
      BY <1>2, <2>6, <2>7, <2>8, <3>1 DEF Lasts
    <3> QED BY <2>6, <3>2
  <2>9. CASE disk[u].is # "link"
    <3>1. u = p
      BY <1>1, <2>6, <2>7, <2>9, NotALink
    <3>2. Hops(disk, w) \subseteq {w, p}
      BY <1>1, <2>5, <2>6, <2>9, <3>1, OneHop
    <3>3. CASE disk[w] = first[w]
      <4>1. Target(first, w) = p
        <5>1. \A h \in Hops(disk, w) : first[h] = disk[h]
          BY <1>3, <3>2, <3>3
        <5> QED BY <1>1, <2>6, <2>7, <5>1, SameWay
      <4>2. w \in Hops(first, w) /\ first[w].is = "link"
        BY <1>1, <2>6, <3>3, HopsFacts
      <4>3. CASE Excluded(w)
        <5>1. w \in DeletedLinks
          BY <2>6, <4>2, <4>3 DEF DeletedLinks, Excluded
        <5> QED BY <2>6, <4>1, <4>2, <5>1 DEF Unprotected, Excluded
      <4>4. CASE ~Excluded(w)
        <5>1. PICK q \in FirstLinks : w = Tbd(q) /\ disk[w] # Link(Tbd(first[q].to))
          BY <2>6, <4>4 DEF Lasting
        <5>2. w \in RenewedLinks
          BY <3>3, <4>2, <5>1 DEF FirstLinks, RenewedLinks
        <5> QED BY <2>6, <4>1, <4>2, <5>2 DEF Unprotected, Excluded
      <4> QED BY <4>3, <4>4
    <3>4. CASE disk[w] # first[w]
      <4>1. PICK q \in PublicLinks : w = Tbd(q) /\ Twin(q)
        BY <1>1, <2>6, <3>4 DEF NewLinksOK
      <4>2. q \in FirstLinks /\ ~Excluded(w)
        BY <1>1, <4>1, PublicFacts
      <4>3. \A r \in FirstLinks : w = Tbd(r) => r = q
        BY <1>1, <4>1, <4>2, TwinsApart
      <4> QED BY <2>6, <4>1, <4>2, <4>3 DEF Lasting, Twin
    <3> QED BY <3>3, <3>4
  <2> QED BY <2>8, <2>9
<1> QED BY <1>4, <1>5

\* No deletion takes a link from a way that lasts, nor the file at its end.
LEMMA DeletedNotOnWay ==
  ASSUME Known, PublicOK, MarkedInputs, InRun, NEW x \in Paths, NEW p \in Paths, Lasts(disk, x, p), Excluded(p),
         NEW g \in Paths, NEW b \in BOOLEAN, <<g, b>> \in toDelete, IF b THEN ~IsTbd(g) ELSE Excluded(g),
         b \/ g # p
  PROVE  g # p /\ \A h \in Hops(disk, x) : disk[h].is = "link" => h # g
<1>1. disk \in [Paths -> Nodes] /\ first \in [Paths -> Nodes] /\ FirstOK /\ TreeOK
  BY KnownTypes
<1>2. CASE b
  <2>1. g \in SparedLibs \cup PublicLinks
    <3>1. PICK d \in toDelete : d = <<g, b>>
      OBVIOUS
    <3>2. d[2] /\ d[1] = g
      BY <1>2, <3>1
    <3>3. d[1] \in SparedLibs \cup PublicLinks
      BY <3>1, <3>2 DEF MarkedInputs
    <3> QED BY <3>2, <3>3
  <2>2. ~Excluded(g)
    BY <1>1, <2>1, PublicFacts DEF SparedLibs, Excluded
  <2>3. ASSUME g \in Hops(disk, x), disk[g].is = "link" PROVE FALSE
    <3>1. ~Loops(disk, x) /\ disk[p] # Absent /\ disk[p].is # "link"
      BY DEF Lasts, Loops
    <3>2. Target(disk, g) = p
      BY <1>1, <2>3, <3>1, WayFrom DEF Lasts
    <3>3. Contents(disk, g) # Absent
      BY <3>1, <3>2 DEF Contents, Loops
    <3>4. Target(first, g) = p
      BY <1>1, <1>2, <3>2, <3>3, LeadsAsFirst
    <3>5. disk[g] = first[g]
      <4>1. disk[g] # Absent
        BY <2>3 DEF Absent
      <4> QED BY <1>1, <1>2, <4>1, TreeFacts
    <3>6. g \in PublicLinks
      BY <2>1, <2>3, <3>5 DEF SparedLibs, Libraries
    <3>7. p \in SparedLibs
      BY <1>1, <3>4, <3>6, PublicFacts
    <3> QED BY <3>7 DEF SparedLibs, Excluded
  <2> QED BY <2>2, <2>3
<1>3. CASE ~b
  BY <1>3 DEF Lasts, Lasting
<1> QED BY <1>2, <1>3

\* Which of the two it is.
LEMMA RemoveOrCreate ==
  /\ RemoveLink => pc = "relink"
  /\ CreateLink => pc = "link"
BY DEF RemoveLink, CreateLink

\* Neither the twins that are made again nor the deletions cut off such a way.
LEMMA ProtectStep ==
  ASSUME Known, PublicOK, MarkedInputs, ProtectOK, [Next]_vars
  PROVE  ProtectOK'
<1>1. /\ UNCHANGED <<opts, first, reexports>> /\ disk \in [Paths -> Nodes] /\ disk' \in [Paths -> Nodes]
      /\ FirstOK /\ Inv /\ Layout /\ \A p : (Unprotected(p)' <=> Unprotected(p)) /\ (Excluded(p)' <=> Excluded(p))
  <2>1. UNCHANGED <<opts, first, reexports>> /\ Known'
    BY FileChanges, KnownStep
  <2>2. disk' \in [Paths -> Nodes]
    BY <2>1 DEF Known, Inv, TypeOK
  <2> QED BY <2>1, <2>2, SameUnprotected, KnownTypes DEF Known
<1>2. SUFFICES ASSUME InRun', NEW y \in symlinks', Excluded(y.target), ~Unprotected(y.target)
      PROVE  \E x \in Paths : Lasts(Mended, x, y.target)'
  BY <1>1 DEF ProtectOK
<1>3. PICK p : p = y.target
  OBVIOUS
<1>4. p \in Paths /\ Excluded(p) /\ ~Unprotected(p)
  <2>1. symlinks' \subseteq Symlinks
    BY KnownStep DEF Known, Inv, TypeOK
  <2> QED BY <1>2, <1>3, <2>1 DEF Symlinks
<1>5. ASSUME NEW x \in Paths, Lasts(Mended', x, p) PROVE Lasts(Mended, x, y.target)'
  BY <1>1, <1>3, <1>5, SameUnprotected DEF Lasts
<1>6. CASE Begin
  BY <1>2, <1>6 DEF Begin, Fresh
<1>7. CASE ~Begin
  <2>1. InRun /\ opts.file = None
    BY <1>2, <1>7, GoesOn
  <2>2. CASE y \notin symlinks
    <3>1. PICK x \in todo : /\ pc = "scan" /\ ScanLink(x) /\ disk[x].is = "link" /\ Exists(disk, x)
                            /\ y = [target |-> Target(disk, x), src |-> x, to |-> disk[x].to]
      BY <1>2, <1>7, <2>2, LinksStep
    <3>2. Scan
      BY <1>2, <1>7, <2>2, LinksStep
    <3>3. disk' = disk /\ pc' = "scan" /\ Mended' = disk
      BY <1>2, <3>2, ScanDone DEF Scan, tree, InRun, Converting, Deleting, Mended
    <3>4. x \in Paths /\ p = Target(disk, x) /\ Real(x) = x
      <4>1. x \in Paths /\ disk[x] # Absent /\ TreeOK
        BY <3>1, KnownTypes DEF Absent
      <4> QED BY <1>1, <1>3, <3>1, <4>1, TreeFacts
    <3>5. \E w \in Paths : Lasts(disk, w, p)
      BY <1>4, <2>1, <3>1, <3>4, LastingWay
    <3> QED BY <1>5, <3>3, <3>5
  <2>3. CASE y \in symlinks
    <3>1. PICK x \in Paths : Lasts(Mended, x, p)
      BY <1>3, <1>4, <2>1, <2>3 DEF ProtectOK
    <3>2. CASE Mended' = Mended
      BY <1>5, <3>1, <3>2
    <3>3. CASE WriteFile
      <4>1. /\ pc = "write" /\ output \in Paths /\ disk[output].is # "link" /\ pc' = "relink"
            /\ disk' = [disk EXCEPT ![output] = stub] /\ output = StubOf(current) /\ current \in Stems
        BY <1>2, <2>1, <3>3, WriteStep DEF AfterWrite, InRun, Converting, Deleting
      <4>2. Mended = disk /\ Mended' = disk'
        BY <4>1 DEF Mended
      <4>3. ~Excluded(output)
        <5>1. dylibs[current] # Absent
          BY <1>1, <2>1, <4>1 DEF Layout, CurrentOK, Converting
        <5> QED BY <2>1, <4>1, <5>1 DEF PublicOK
      <4>4. disk'[p] = disk[p] /\ \A h \in Hops(disk, x) : disk[h].is = "link" => disk'[h] = disk[h]
        BY <1>1, <1>4, <4>1, <4>3, HopsFacts
      <4>5. Lasts(disk', x, p)
        BY <1>1, <3>1, <4>2, <4>4, LastsSame
      <4> QED BY <1>5, <4>2, <4>5
    <3>4. CASE RemoveLink
      <4>1. PICK z \in symlinks : /\ z.src \in PublicLinks /\ z.to = first[z.src].to
                                  /\ pc = "relink" /\ pc' = "link" /\ link' = z
                                  /\ disk' = [disk EXCEPT ![Tbd(z.src)] = Absent]
        BY <1>2, <3>4, RelinkStep, RemoveOrCreate DEF InRun, Converting, Deleting
      <4>2. PICK q, t : q = z.src /\ t = Tbd(q)
        OBVIOUS
      <4>3. /\ q \in FirstLinks /\ t \in Paths /\ ~Excluded(t)
            /\ first[q].to \in Paths /\ Tbd(first[q].to) \in Paths
        BY <1>1, <4>1, <4>2, PublicFacts, PathFacts
      <4>4. PICK e : e = [disk EXCEPT ![t] = Link(Tbd(first[q].to))]
        OBVIOUS
      <4>5. e \in [Paths -> Nodes] /\ \A h \in Paths : e[h] = IF h = t THEN Link(Tbd(first[q].to)) ELSE disk[h]
        BY <1>1, <4>3, <4>4, KindsOfNodes
      <4>6. Mended' = e /\ Mended = disk
        BY <4>1, <4>2, <4>4 DEF Mended
      <4>7. e[p] = disk[p]
        BY <1>4, <4>3, <4>5
      <4>8. \A h \in Hops(disk, x) : disk[h].is = "link" => e[h] = disk[h]
        <5>1. ASSUME NEW h \in Hops(disk, x), disk[h].is = "link" PROVE e[h] = disk[h]
          <6>1. h \in Paths /\ (h = t => disk[h] = Link(Tbd(first[q].to)))
            BY <1>1, <3>1, <4>2, <4>3, <4>6, <5>1, HopsFacts DEF Lasts, Lasting
          <6> QED BY <4>5, <6>1
        <5> QED BY <5>1
      <4>9. Lasts(e, x, p)
        BY <1>1, <3>1, <4>5, <4>6, <4>7, <4>8, LastsSame
      <4> QED BY <1>5, <4>6, <4>9
    <3>5. CASE CreateLink
      <4>1. pc = "link" /\ pc' = "relink" /\ disk' = [disk EXCEPT ![Tbd(link.src)] = Link(Tbd(link.to))]
        BY <1>2, <3>5 DEF CreateLink, Fail, InRun, Converting, Deleting, TwinTarget
      <4>2. Mended' = Mended
        BY <4>1 DEF Mended
      <4> QED BY <3>2, <4>2
    <3>6. CASE Delete
      <4>1. pc = "delete" /\ pc' = "delete" /\ Mended = disk /\ Mended' = disk'
        BY <1>2, <3>6, DeleteStep DEF InRun, Converting, Deleting, Mended
      <4>2. disk' = disk \/ \E g \in Paths, b \in BOOLEAN : /\ <<g, b>> \in toDelete /\ ~Protected(g, b)
                                                            /\ IF b THEN ~IsTbd(g) ELSE Excluded(g)
                                                            /\ disk' = [disk EXCEPT ![g] = Absent]
        BY <3>6, DeleteStep
      <4>3. CASE disk' # disk
        <5>1. PICK g \in Paths, b \in BOOLEAN : /\ <<g, b>> \in toDelete /\ ~Protected(g, b)
                                                /\ IF b THEN ~IsTbd(g) ELSE Excluded(g)
                                                /\ disk' = [disk EXCEPT ![g] = Absent]
          BY <4>2, <4>3
        <5>2. b \/ g # p
          BY <1>3, <2>3, <5>1 DEF Protected
        <5>3. Lasts(disk, x, p)
          BY <3>1, <4>1
        <5>4. g # p /\ \A h \in Hops(disk, x) : disk[h].is = "link" => h # g
          BY <1>4, <2>1, <5>1, <5>2, <5>3, DeletedNotOnWay
        <5>5. disk'[p] = disk[p] /\ \A h \in Hops(disk, x) : disk[h].is = "link" => disk'[h] = disk[h]
          BY <1>1, <1>4, <5>1, <5>4, HopsFacts
        <5>6. Lasts(disk', x, p)
          BY <1>1, <5>3, <5>5, LastsSame
        <5> QED BY <1>5, <4>1, <5>6
      <4> QED BY <3>2, <4>1, <4>3
    <3>7. CASE Scan \/ Scanned \/ Convert \/ inlineFrameworks \/ Converted \/ AllConverted \/ Deleted
      <4>1. disk' = disk /\ pc # "link" /\ pc' # "link"
        <5>1. inlineFrameworks => pc = "inline" /\ pc' # "link"
          BY <1>1, InlineStep DEF inlineFrameworks, Fail
        <5>2. Scan => pc = "scan" /\ pc' # "link"
          BY ScanDone DEF Scan
        <5> QED BY <3>7, <5>1, <5>2, QuietStep
               DEF Quiet, Scanned, Convert, CallInline, Fail, Converted, AllConverted, Deleted
      <4> QED BY <3>2, <4>1 DEF Mended
    <3>8. CASE UNCHANGED Seen
      <4>1. Mended' = Mended
        BY <3>8 DEF Seen, tree, Mended
      <4> QED BY <3>2, <4>1
    <3>9. ~Crash /\ ~ReadInput /\ ~DeleteInput
      BY <1>2, <2>1 DEF InRun, Crash, ReadInput, DeleteInput, Converting, Deleting
    <3> QED BY <1>7, <3>3, <3>4, <3>5, <3>6, <3>7, <3>8, <3>9, NextCases
  <2> QED BY <2>2, <2>3
<1> QED BY <1>6, <1>7

-----------------------------------------------------------------------------
(* What a second run finds *)

\* What a success leaves: no private link that led anywhere, every twin, and a way to each private file.
AgainLinks == Again =>
  /\ after \in [Paths -> Nodes]
  /\ \A p \in FirstLinks : Excluded(p) /\ ~Loops(first, p) => disk[p] = Absent
  /\ \A q \in SparedLinks : after[Tbd(q)] = Link(Tbd(first[q].to))
  /\ \A p \in Libraries : after[Tbd(p)].is # "link"
  /\ \A p \in Paths : Excluded(p) => after[p] \in {first[p], Absent}
  /\ \A p \in Paths : Excluded(p) /\ after[p] # Absent /\ after[p].is # "link" /\ ~Unprotected(p) =>
       \E x \in Paths : Lasts(after, x, p)

\* What it leaves: of the twins, one at a time may be gone.
SameOK == Again => \A p \in Paths :
  \/ disk[p] = after[p]
  \/ disk[p] = Absent /\ (Unprotected(p) \/ p \in DeletedLinks \/ \E q \in SparedLinks : p = Tbd(q))

\* Whatever way to a private file there is left, it comes across it in the scan.
GuardOK == Again /\ InRun =>
  \A x, p \in Paths : Excluded(p) /\ ~Unprotected(p) /\ Lasts(after, x, p) =>
    x \in todo \/ Protected(p, FALSE)

\* What holds between a success and the next one, and what holds in every run.
Between == AgainSettled /\ AgainMarks /\ AgainLinks /\ SameOK /\ GuardOK
OneRun == Conversion /\ SettledOK /\ SweptOK /\ MarkOK /\ MarkedInputs /\ ProtectOK

LEMMA SparedNames ==
  ASSUME UNCHANGED <<opts, first>>
  PROVE  SparedLinks' = SparedLinks /\ Libraries' = Libraries
<1>1. FirstLinks' = FirstLinks /\ Libraries' = Libraries
  BY DEF FirstLinks, Libraries
<1>2. \A q : Spared(q)' <=> Spared(q)
  BY DEF Spared
<1> QED BY <1>1, <1>2 DEF SparedLinks

\* The tree that counts is that of a run that has swept and mirrored.
LEMMA AgainLinksStep ==
  ASSUME Known, OneRun, AgainLinks, [Next]_vars
  PROVE  AgainLinks'
<1>1. /\ UNCHANGED <<opts, first, reexports>> /\ disk \in [Paths -> Nodes] /\ Inv /\ Layout /\ TreeOK
      /\ FirstLinks' = FirstLinks /\ Libraries' = Libraries /\ SparedLinks' = SparedLinks
      /\ \A p : (Unprotected(p)' <=> Unprotected(p)) /\ (Excluded(p)' <=> Excluded(p))
      /\ \A d, h : Lasting(d, h)' <=> Lasting(d', h)
  <2>1. UNCHANGED <<opts, first, reexports>>
    BY FileChanges
  <2> QED BY <2>1, SameUnprotected, SparedNames, KnownTypes DEF Known
<1>2. SUFFICES ASSUME Again'
      PROVE  /\ after' \in [Paths -> Nodes]
             /\ \A p \in FirstLinks : Excluded(p) /\ ~Loops(first, p) => disk'[p] = Absent
             /\ \A q \in SparedLinks : after'[Tbd(q)] = Link(Tbd(first[q].to))
             /\ \A p \in Libraries : after'[Tbd(p)].is # "link"
             /\ \A p \in Paths : Excluded(p) => after'[p] \in {first[p], Absent}
             /\ \A p \in Paths : Excluded(p) /\ after'[p] # Absent /\ after'[p].is # "link" /\ ~Unprotected(p) =>
                  \E x \in Paths : Lasts(after', x, p)
  <2>1. \A d, x, p : Lasts(d, x, p)' <=> Lasts(d', x, p)
    BY <1>1 DEF Lasts
  <2>2. \A q \in SparedLinks : (first[q].to)' = first[q].to
    BY <1>1
  <2> QED BY <1>1, <1>2, <2>1 DEF AgainLinks, Loops
<1>3. opts.file = None
  BY <1>1, <1>2 DEF Again
<1>4. CASE after' = after
  <2>1. Again
    BY <1>2, <1>3, <1>4 DEF Again
  <2>2. \A p \in FirstLinks : p \in Paths /\ ~IsTbd(p)
    BY DEF FirstLinks
  <2>3. \A p \in FirstLinks : Excluded(p) /\ ~Loops(first, p) => disk'[p] = Absent
    BY <2>1, <2>2, StaysGone DEF AgainLinks
  <2> QED BY <1>4, <2>1, <2>3 DEF AgainLinks
<1>5. CASE Begin /\ pc = "done" /\ after' = disk
  <2>1. InRun /\ disk' = disk /\ todo = {} /\ toDelete = {} /\ Mended = disk
    <3>1. InRun /\ pc = "done"
      BY <1>3, <1>5 DEF InRun, Deleting
    <3> QED BY <1>5, <3>1 DEF Begin, tree, OneRun, SettledOK, SweptOK, Mended
  <2>2. \A p \in FirstLinks : Excluded(p) /\ ~Loops(first, p) => disk[p] = Absent
    BY <2>1 DEF OneRun, SweptOK
  <2>3. \A q \in SparedLinks : disk[Tbd(q)] = Link(Tbd(first[q].to))
    BY <1>3, <1>5 DEF Known, StoodIn, MirrorOK, Twin
  <2>4. \A p \in Libraries : disk[Tbd(p)].is # "link"
    BY <1>1 DEF TreeOK, StubFilesOK
  <2>5. \A p \in Paths : Excluded(p) => disk[p] \in {first[p], Absent}
    BY <1>3 DEF OneRun, Conversion, PublicOK
  <2>6. ASSUME NEW p \in Paths, Excluded(p), disk[p] # Absent, disk[p].is # "link", ~Unprotected(p)
        PROVE  \E x \in Paths : Lasts(disk, x, p)
    <3>1. Protected(p, FALSE)
      BY <2>1, <2>6 DEF OneRun, SweptOK
    <3>2. PICK y \in symlinks : y.target = p
      BY <3>1 DEF Protected
    <3> QED BY <2>1, <2>6, <3>2 DEF OneRun, ProtectOK
  <2> QED BY <1>1, <1>5, <2>1, <2>2, <2>3, <2>4, <2>5, <2>6
<1> QED BY <1>4, <1>5, AfterStep

\* A link on the way of a link that has a twin has a twin.
LEMMA SparedOnWay ==
  ASSUME FirstOK, NEW q \in SparedLinks, NEW x \in Hops(first, q), first[x].is = "link"
  PROVE  x \in SparedLinks
<1>1. /\ first \in [Paths -> Nodes] /\ LinksKeepTo(first) /\ q \in Paths /\ ~IsTbd(q) /\ ~Loops(first, q)
      /\ Contents(first, q).is = "dylib" /\ Spared(q)
  BY FirstFacts, SparedLinkFacts DEF FirstOK, SparedLinks
<1>2. x \in Paths /\ ~IsTbd(x)
  BY <1>1, HopsFacts, SameKind
<1>3. Target(first, x) = Target(first, q) /\ Hops(first, x) \subseteq Hops(first, q)
  BY <1>1, WayFrom
<1>4. Contents(first, x) = Contents(first, q)
  BY <1>3 DEF Contents, Loops
<1> QED BY <1>1, <1>2, <1>3, <1>4 DEF SparedLinks, FirstLinks, Spared

\* The twins of the first run lead to stubs.
LEMMA TwinsLeadOn ==
  ASSUME Known, AgainLinks, Again, NEW q \in SparedLinks
  PROVE  Target(after, Tbd(q)) = Tbd(Target(first, q))
<1>1. /\ FirstOK /\ first \in [Paths -> Nodes] /\ after \in [Paths -> Nodes]
      /\ q \in Paths /\ Target(first, q) \in SparedLibs
  BY KnownTypes, SparedLinkFacts DEF AgainLinks
<1>2. ASSUME NEW x \in Hops(first, q), first[x].is = "link" PROVE after[Tbd(x)] = Link(Tbd(first[x].to))
  BY <1>1, <1>2, SparedOnWay DEF AgainLinks
<1>3. ASSUME NEW x \in Hops(first, q), first[x].is # "link" PROVE after[Tbd(x)].is # "link"
  <2>1. x \in Libraries
    BY <1>1, <1>3, LastHop DEF SparedLibs
  <2> QED BY <2>1 DEF AgainLinks
<1> QED BY <1>1, <1>2, <1>3, TwinWay

\* A way that lasts is still there.
LEMMA WayIsThere ==
  ASSUME Known, AgainLinks, SameOK, Again, NEW x \in Paths, NEW p \in Paths, Excluded(p), ~Unprotected(p),
         Lasts(after, x, p)
  PROVE  Lasts(disk, x, p) /\ disk[x] = after[x]
<1>1. /\ FirstOK /\ first \in [Paths -> Nodes] /\ after \in [Paths -> Nodes] /\ disk \in [Paths -> Nodes]
  BY KnownTypes DEF AgainLinks
<1>2. ~Loops(after, x) /\ after[p] # Absent /\ after[p].is # "link" /\ x \in Hops(after, x) /\ Target(after, x) = p
  BY <1>1, HopsFacts DEF Lasts, Loops
<1>3. ASSUME NEW q \in SparedLinks, NEW h \in Hops(after, x), h = Tbd(q) PROVE FALSE
  <2>1. Target(after, h) = p
    BY <1>1, <1>2, WayFrom
  <2>2. p = Tbd(Target(first, q)) /\ Target(first, q) \in SparedLibs
    <3>1. Target(after, Tbd(q)) = Tbd(Target(first, q))
      BY <1>3, TwinsLeadOn
    <3>2. Target(first, q) \in SparedLibs
      BY <1>1, <1>3, SparedLinkFacts
    <3> QED BY <1>3, <2>1, <3>1, <3>2
  <2>3. Target(first, q) \in Paths /\ ~Excluded(Target(first, q))
    BY <2>2 DEF SparedLibs, Libraries, Excluded
  <2>4. ~Excluded(Tbd(Target(first, q)))
    BY <2>3, SameExclusion
  <2> QED BY <2>2, <2>4
<1>4. ASSUME NEW h \in Hops(after, x), after[h].is = "link" PROVE disk[h] = after[h]
  <2>1. h \in Paths /\ ~Excluded(h)
    BY <1>1, <1>4, HopsFacts DEF Lasts, Lasting
  <2>2. ~Unprotected(h) /\ h \notin DeletedLinks
    BY <2>1 DEF Unprotected, DeletedLinks, Excluded
  <2> QED BY <1>3, <2>1, <2>2 DEF SameOK
<1>5. disk[p] = after[p]
  <2>1. p \in Hops(after, x)
    BY <1>1, <1>2, HopsFacts
  <2>2. first[p] = after[p]
    BY <1>2 DEF AgainLinks
  <2>3. p \notin DeletedLinks
    BY <1>2, <2>2 DEF DeletedLinks
  <2> QED BY <1>3, <2>1, <2>3 DEF SameOK
<1>6. Lasts(disk, x, p)
  BY <1>1, <1>4, <1>5, LastsSame
<1>7. disk[x] = after[x]
  BY <1>2, <1>4 DEF Lasts
<1> QED BY <1>6, <1>7

\* What is relinked has a twin already.
LEMMA RelinkedIsSpared ==
  ASSUME Known, AgainLinks, Again, pc \in {"relink", "link"}, NEW y \in symlinks, y.target = originalNames[current]
  PROVE  y.src \in SparedLinks /\ y.to = first[y.src].to
<1>1. /\ FirstOK /\ first \in [Paths -> Nodes] /\ Inv /\ Layout /\ disk \in [Paths -> Nodes] /\ LinksKeepTo(first)
      /\ opts.file = None
  BY KnownTypes, FirstFacts DEF Known, Again
<1>2. y.src \in PublicLinks /\ y.to = first[y.src].to
  BY <1>1, RelinkedIsPublic
<1>3. PICK q : q = y.src
  OBVIOUS
<1>4. /\ q \in FirstLinks /\ q \in Paths /\ ~IsTbd(q) /\ Target(first, q) \in SparedLibs /\ ~Loops(first, q)
  BY <1>1, <1>2, <1>3, PublicFacts
<1>5. Intact(q)
  BY <1>1, <1>3, <1>4 DEF Layout, PresentOK, Converting
<1>6. Contents(first, q).is = "dylib"
  BY <1>4 DEF Contents, SparedLibs, Libraries
<1>7. ASSUME NEW x \in Hops(first, q) PROVE ~Excluded(x)
  <2>1. CASE first[x].is = "link"
    <3>1. x \in Paths /\ ~IsTbd(x)
      BY <1>1, <1>4, HopsFacts, SameKind
    <3>2. ~Loops(first, x)
      <4>1. Target(first, x) = Target(first, q)
        BY <1>1, <1>4, WayFrom
      <4> QED BY <1>4, <4>1 DEF Loops
    <3>3. disk[x] # Absent
      BY <1>5, <2>1 DEF Intact, Absent
    <3> QED BY <2>1, <3>1, <3>2, <3>3 DEF AgainLinks, FirstLinks
  <2>2. CASE first[x].is # "link"
    <3>1. x \in SparedLibs
      BY <1>1, <1>4, <2>2, LastHop
    <3> QED BY <3>1 DEF SparedLibs, Excluded
  <2> QED BY <2>1, <2>2
<1>8. Spared(q)
  BY <1>7 DEF Spared, Excluded
<1> QED BY <1>2, <1>3, <1>4, <1>6, <1>8 DEF SparedLinks

\* No step of a later run changes anything else.
LEMMA SameStep ==
  ASSUME Known, OneRun, Between, [Next]_vars
  PROVE  SameOK'
<1>1. /\ UNCHANGED <<opts, first, reexports>> /\ disk \in [Paths -> Nodes] /\ Inv /\ Layout /\ TreeOK
      /\ SparedLinks' = SparedLinks /\ DeletedLinks' = DeletedLinks
      /\ \A p : Unprotected(p)' <=> Unprotected(p)
  <2>1. UNCHANGED <<opts, first, reexports>>
    BY FileChanges
  <2> QED BY <2>1, SameUnprotected, SparedNames, KnownTypes DEF Known
<1>2. SUFFICES ASSUME Again', NEW p \in Paths
      PROVE  \/ disk'[p] = after'[p]
             \/ disk'[p] = Absent /\ (Unprotected(p) \/ p \in DeletedLinks \/ \E q \in SparedLinks : p = Tbd(q))
  BY <1>1 DEF SameOK
<1>3. opts.file = None
  BY <1>1, <1>2 DEF Again
<1>4. CASE Begin /\ pc = "done" /\ after' = disk
  BY <1>4 DEF Begin, tree
<1>5. CASE after' = after
  <2>1. Again
    BY <1>2, <1>3, <1>5 DEF Again
  <2>2. CASE disk'[p] = disk[p]
    BY <1>5, <2>1, <2>2 DEF Between, SameOK
  <2>3. CASE disk'[p] # disk[p]
    <3>1. WriteFile \/ RemoveLink \/ CreateLink \/ Delete
      <4>1. ~Quiet
        BY <2>3, QuietStep
      <4>2. ~DeleteInput
        BY <1>1, <1>3 DEF DeleteInput, Layout, CurrentOK
      <4> QED BY <4>1, <4>2, NextCases DEF Quiet
    <3>2. CASE WriteFile
      BY <2>1, <2>3, <3>2, NothingWritten DEF Between, OneRun
    <3>3. CASE RemoveLink \/ CreateLink
      <4>1. PICK y \in symlinks :
              /\ y.target = originalNames[current] /\ pc \in {"relink", "link"}
              /\ \/ disk' = [disk EXCEPT ![Tbd(y.src)] = Absent]
                 \/ disk' = [disk EXCEPT ![Tbd(y.src)] = Link(Tbd(y.to))]
        BY <2>3, <3>3, RelinkStep
      <4>2. y.src \in SparedLinks /\ y.to = first[y.src].to
        BY <2>1, <4>1, RelinkedIsSpared DEF Between
      <4>3. p = Tbd(y.src) /\ disk'[p] \in {Absent, Link(Tbd(y.to))}
        BY <1>1, <2>3, <4>1
      <4>4. after[p] = Link(Tbd(y.to))
        BY <2>1, <4>2, <4>3 DEF Between, AgainLinks
      <4> QED BY <1>5, <4>2, <4>3, <4>4
    <3>4. CASE Delete
      <4>1. PICK g \in Paths, b \in BOOLEAN : /\ <<g, b>> \in toDelete /\ ~Protected(g, b)
                                              /\ IF b THEN ~IsTbd(g) ELSE Excluded(g)
                                              /\ disk' = [disk EXCEPT ![g] = Absent]
        BY <2>3, <3>4, DeleteStep
      <4>2. g = p /\ disk'[p] = Absent
        BY <1>1, <2>3, <4>1
      <4>3. ~b
        <5>1. PICK d \in toDelete : d = <<g, b>>
          BY <4>1
        <5>2. ~d[2]
          BY <2>1 DEF Between, AgainMarks
        <5> QED BY <5>1, <5>2
      <4>4. Excluded(p) /\ ~Protected(p, FALSE)
        BY <4>1, <4>2, <4>3
      <4>5. after[p] \in {first[p], Absent}
        BY <2>1, <4>4 DEF Between, AgainLinks
      <4>6. CASE after[p] = Absent
        BY <1>5, <4>2, <4>6
      <4>7. CASE first[p].is = "link"
        BY <4>2, <4>4, <4>7 DEF DeletedLinks, Excluded
      <4>8. CASE Unprotected(p)
        BY <4>2, <4>8
      <4>9. CASE after[p] # Absent /\ first[p].is # "link" /\ ~Unprotected(p)
        <5>1. PICK x \in Paths : Lasts(after, x, p)
          BY <2>1, <4>4, <4>5, <4>9 DEF Between, AgainLinks
        <5>2. pc = "delete" /\ InRun
          BY <1>3, <3>4 DEF Delete, InRun, Deleting
        <5>3. todo = {}
          BY <5>2 DEF OneRun, SettledOK
        <5> QED BY <2>1, <4>4, <4>9, <5>1, <5>2, <5>3 DEF Between, GuardOK
      <4> QED BY <4>6, <4>7, <4>8, <4>9
    <3> QED BY <3>1, <3>2, <3>3, <3>4
  <2> QED BY <2>2, <2>3
<1> QED BY <1>4, <1>5, AfterStep

\* The scan records every link with a way that lasts.
LEMMA GuardStep ==
  ASSUME Known, OneRun, Between, [Next]_vars
  PROVE  GuardOK'
<1>1. /\ UNCHANGED <<opts, first, reexports>> /\ disk \in [Paths -> Nodes] /\ Inv /\ Layout /\ TreeOK
      /\ \A p : (Unprotected(p)' <=> Unprotected(p)) /\ (Excluded(p)' <=> Excluded(p))
      /\ \A d, h : Lasting(d, h)' <=> Lasting(d', h)
  <2>1. UNCHANGED <<opts, first, reexports>>
    BY FileChanges
  <2> QED BY <2>1, SameUnprotected, KnownTypes DEF Known
<1>2. SUFFICES ASSUME Again', InRun', NEW x \in Paths, NEW p \in Paths,
                      Excluded(p), ~Unprotected(p), Lasts(after', x, p)
      PROVE  x \in todo' \/ Protected(p, FALSE)'
  <2>1. \A d, y, q : Lasts(d, y, q)' <=> Lasts(d', y, q)
    BY <1>1 DEF Lasts
  <2> QED BY <1>1, <2>1 DEF GuardOK
<1>3. opts.file = None
  BY <1>1, <1>2 DEF Again
<1>4. ASSUME after' = after PROVE Again /\ Lasts(disk, x, p)
  <2>1. Again
    BY <1>2, <1>3, <1>4 DEF Again
  <2> QED BY <1>2, <1>4, <2>1, WayIsThere DEF Between
<1>5. CASE Begin
  <2>1. todo' = {q \in Paths : disk[q] # Absent}
    BY <1>3, <1>5 DEF Begin
  <2>2. disk[x] # Absent
    <3>1. CASE after' = after
      BY <1>4, <3>1 DEF Lasts, Absent
    <3>2. CASE after' = disk
      BY <1>2, <3>2 DEF Lasts, Absent
    <3> QED BY <3>1, <3>2, AfterStep
  <2> QED BY <2>1, <2>2
<1>6. CASE ~Begin
  <2>1. InRun /\ symlinks \subseteq symlinks' /\ after' = after
    BY <1>2, <1>6, GoesOn, LinksStep, AfterStep
  <2>2. Again /\ Lasts(disk, x, p)
    BY <1>4, <2>1
  <2>3. x \in todo \/ Protected(p, FALSE)
    BY <1>2, <2>1, <2>2 DEF Between, GuardOK
  <2>4. Protected(p, FALSE) => Protected(p, FALSE)'
    BY <2>1 DEF Protected
  <2>5. CASE x \in todo /\ x \notin todo'
    <3>1. Scan
      BY <1>2, <1>6, <2>5, LeavesTodo
    <3>2. PICK g \in todo : /\ ScanPrivate(g) \/ ScanLink(g) \/ ScanFile(g) \/ ScanOther(g) \/ ScanError(g)
                            /\ todo' = todo \ {g}
      BY <3>1 DEF Scan
    <3>3. g = x /\ pc' = "scan"
      BY <1>2, <2>5, <3>1, <3>2, ScanDone DEF InRun, Converting, Deleting
    <3>4. disk[x].is = "link" /\ ~Excluded(x) /\ Target(disk, x) = p /\ disk[p] # Absent /\ disk[p].is # "link"
      <4>1. x \in Hops(disk, x)
        BY <1>1, <2>2, HopsFacts DEF Lasts
      <4> QED BY <2>2, <4>1 DEF Lasts, Lasting
    <3>5. ScanLink(x)
      BY <3>2, <3>3, <3>4 DEF ScanPrivate, ScanFile, ScanOther, ScanError, Fail, Excluded, Interface, Textual
    <3>6. Exists(disk, x)
      BY <3>4 DEF Exists, Contents, Loops
    <3>7. PICK y : y = [target |-> Target(disk, x), src |-> x, to |-> disk[x].to]
      OBVIOUS
    <3>8. y \in symlinks' /\ y.target = p
      BY <3>4, <3>5, <3>6, <3>7 DEF ScanLink
    <3> QED BY <3>8 DEF Protected
  <2> QED BY <2>3, <2>4, <2>5
<1> QED BY <1>5, <1>6

-----------------------------------------------------------------------------
(* The single file, converted again *)

\* The stub in the place of the file's is what the file would be converted to.
Repeats == LET f == Contents(disk, opts.file) IN
  /\ opts.file \in Paths /\ f.is \in Interface
  /\ disk[Tbd(Target(disk, opts.file))] =
       Text(f.lib, IF opts.inline THEN Gathered(reexports, Held, f.lib, Docs(f)) ELSE Docs(f))

\* After a success the input is gone, or the stub stays as it is.
FileAgain == opts.file # None =>
  /\ pc = "deleteInput" => opts.deleteInput
  /\ pc = "done" => IF opts.deleteInput THEN ~Exists(disk, opts.file) ELSE Repeats
  /\ after # None =>
       /\ disk = after
       /\ IF opts.deleteInput THEN ~Exists(disk, opts.file) /\ pc \notin {"inline", "write", "deleteInput", "done"}
          ELSE Repeats

\* What the library needs, the stubs hold before and after it is written.
LEMMA WrittenHeld ==
  ASSUME Known, Conversion, WriteFile, disk' = [disk EXCEPT ![output] = stub], opts.inline,
         NEW c \in Needs(reexports, stack[1].lib)
  PROVE  Held[c] \subseteq Held'[c] /\ Held'[c] \subseteq stack[1].docs
<1>1. /\ [Next]_vars /\ UNCHANGED <<opts, first, reexports>> /\ disk \in [Paths -> Nodes] /\ pc = "write"
      /\ reexports \in [Libs -> SUBSET Libs] /\ stack[1].lib \in Libs /\ output \in Paths
      /\ disk'[output] = Text(stack[1].lib, stack[1].docs)
  <2>1. [Next]_vars
    BY DEF Next, Step
  <2>2. pc = "write" /\ output \in Paths /\ stub = Text(stack[1].lib, stack[1].docs)
    BY WriteStep
  <2>3. stack[1].lib \in Libs
    BY <2>2, StubOK DEF Known
  <2> QED BY <2>1, <2>2, <2>3, FileChanges, KnownTypes
<1>2. PICK l, docs, held, kept : l = stack[1].lib /\ docs = stack[1].docs /\ held = Held /\ kept = Held'
  OBVIOUS
<1>3. c \in Needs(reexports, l) /\ c \in Libs /\ c \in Embedded(reexports)
  BY <1>1, <1>2, NeedsFacts, NeededIsEmbedded
<1>4. docs = Gathered(reexports, held, l, Docs(Given))
  BY <1>1, <1>2 DEF Conversion, GatherOK
<1>5. kept[c] \subseteq Gathered(reexports, held, c, held[c])
  BY <1>1, <1>2, <1>3, HeldGrows DEF Conversion
<1>6. {c} \cup Gathered(reexports, held, c, held[c]) \subseteq Gathered(reexports, held, l, Docs(Given))
  BY <1>1, <1>2, <1>3, GatheredWithin
<1>7. held[c] \subseteq docs
  BY <1>4, <1>6 DEF Gathered
<1>8. PICK t : t = Tbd(Place(c))
  OBVIOUS
<1>9. t \in Paths
  BY <1>3, <1>8, PlaceFacts
<1>10. held[c] = Docs(disk[t])
  BY <1>2, <1>3, <1>8, HeldFacts DEF Conversion
<1>11. kept[c] = Docs(disk'[t])
  <2>1. HeldPlaced'
    <3>1. Known' /\ PlaceOK'
      BY <1>1, KnownStep, PlaceStep DEF Conversion
    <3> QED BY <3>1, HeldPlacedNext
  <2>2. Held'[c] = Docs(disk'[Tbd(Place(c))])
    BY <1>1, <1>3, <2>1 DEF HeldPlaced, Docs
  <2> QED BY <1>2, <1>8, <2>2
<1>12. CASE t = output
  <2>1. kept[c] = docs
    BY <1>1, <1>2, <1>11, <1>12 DEF Docs, Text, Textual
  <2> QED BY <1>2, <1>7, <2>1
<1>13. CASE t # output
  <2>1. disk'[t] = disk[t]
    BY <1>1, <1>9, <1>13
  <2> QED BY <1>2, <1>4, <1>5, <1>6, <1>10, <1>11, <2>1
<1> QED BY <1>12, <1>13

\* What has just been written would be written again, be the file the stub itself or not.
LEMMA WrittenRepeats ==
  ASSUME Known, Conversion, WriteFile, disk' = [disk EXCEPT ![output] = stub], opts.file # None
  PROVE  Repeats'
<1>1. /\ [Next]_vars /\ UNCHANGED <<opts, first, reexports>> /\ disk \in [Paths -> Nodes] /\ pc = "write"
      /\ reexports \in [Libs -> SUBSET Libs] /\ stack[1].lib \in Libs /\ output \in Paths
      /\ output = StubOf(current) /\ disk[output].is # "link"
      /\ stub \in Nodes /\ stub = Text(stack[1].lib, stack[1].docs)
  <2>1. [Next]_vars
    BY DEF Next, Step
  <2>2. /\ pc = "write" /\ output \in Paths /\ output = StubOf(current) /\ disk[output].is # "link"
        /\ stub \in Nodes /\ stub = Text(stack[1].lib, stack[1].docs)
    BY WriteStep
  <2>3. stack[1].lib \in Libs
    BY <2>2, StubOK DEF Known
  <2> QED BY <2>1, <2>2, <2>3, FileChanges, KnownTypes
<1>2. PICK t : t = Target(disk, opts.file)
  OBVIOUS
<1>3. /\ opts.file \in Paths /\ Contents(disk, opts.file).is \in Interface /\ current = Stem(t)
  BY <1>1, <1>2 DEF Conversion, InputOK
<1>4. t \in Paths /\ Contents(disk, opts.file) = disk[t] /\ disk[t].is \in Interface
  BY <1>1, <1>2, <1>3, TargetFacts DEF Contents, Absent, Interface, Textual
<1>5. PICK n, q, l, docs : n = stub /\ q = output /\ l = stack[1].lib /\ docs = stack[1].docs
  OBVIOUS
<1>6. n \in Nodes /\ n = Text(l, docs) /\ q \in Paths /\ q = Tbd(t) /\ l \in Libs
  BY <1>1, <1>3, <1>5 DEF Tbd
<1>7. disk' \in [Paths -> Nodes] /\ \A x \in Paths : disk'[x] = IF x = q THEN n ELSE disk[x]
  BY <1>1, <1>5
<1>8. n.is = "text" /\ n.lib = l /\ n.docs = docs
  BY <1>6 DEF Text
<1>9. \A x \in Hops(disk, opts.file) : disk[x].is = "link" \/ disk'[x].is = "link" => disk'[x] = disk[x]
  BY <1>1, <1>3, <1>5, <1>7, <1>8, HopsFacts
<1>10. Target(disk', opts.file) = t
  <2>1. PICK d, e, p : d = disk /\ e = disk' /\ p = opts.file
    OBVIOUS
  <2>2. /\ d \in [Paths -> Nodes] /\ e \in [Paths -> Nodes] /\ p \in Paths
        /\ \A x \in Hops(d, p) : d[x].is = "link" \/ e[x].is = "link" => e[x] = d[x]
    BY <1>1, <1>3, <1>7, <1>9, <2>1
  <2>3. Target(e, p) = Target(d, p)
    BY <2>2, SameLinks
  <2> QED BY <1>2, <2>1, <2>3
<1>11. PICK f : f = disk[t]
  OBVIOUS
<1>12. l = f.lib /\ docs = IF opts.inline THEN Gathered(reexports, Held, l, Docs(f)) ELSE Docs(f)
  <2>1. Given = f
    BY <1>4, <1>11 DEF Given
  <2> QED BY <1>1, <1>5, <2>1 DEF Conversion, GatherOK
<1>13. PICK g : g = disk'[t]
  OBVIOUS
<1>14. Contents(disk', opts.file) = g /\ g.is \in Interface /\ g.lib = l
  <2>1. g.is \in Interface /\ g.lib = l
    BY <1>4, <1>7, <1>8, <1>11, <1>12, <1>13 DEF Interface, Textual
  <2> QED BY <1>10, <1>13, <2>1 DEF Contents, Loops, Interface, Textual
<1>15. Docs(f) \subseteq docs
  BY <1>12 DEF Gathered
<1>16. Docs(f) \subseteq Docs(g) /\ Docs(g) \subseteq docs /\ (Docs(g) = docs \/ Docs(g) = Docs(f))
  <2>1. CASE t = q
    <3>1. Docs(g) = docs
      BY <1>7, <1>8, <1>4, <1>13, <2>1 DEF Docs, Textual
    <3> QED BY <1>15, <3>1
  <2>2. CASE t # q
    <3>1. g = f
      BY <1>4, <1>7, <1>11, <1>13, <2>2
    <3> QED BY <1>15, <3>1
  <2> QED BY <2>1, <2>2
<1>17. PICK held, kept : held = Held /\ kept = Held'
  OBVIOUS
<1>18. docs = IF opts.inline THEN Gathered(reexports, kept, l, Docs(g)) ELSE Docs(g)
  <2>1. CASE opts.inline
    <3>1. docs = Gathered(reexports, held, l, Docs(f))
      BY <1>12, <1>17, <2>1
    <3>2. \A c \in Needs(reexports, l) : held[c] \subseteq kept[c] /\ kept[c] \subseteq docs
      BY <1>5, <1>17, <2>1, WrittenHeld
    <3>3. docs \subseteq Gathered(reexports, kept, l, Docs(g))
      BY <1>16, <3>1, <3>2 DEF Gathered
    <3>4. Gathered(reexports, kept, l, Docs(g)) \subseteq docs
      BY <1>16, <3>1, <3>2 DEF Gathered
    <3> QED BY <2>1, <3>3, <3>4
  <2>2. CASE ~opts.inline
    <3>1. docs = Docs(f)
      BY <1>12, <2>2
    <3> QED BY <1>16, <2>2, <3>1
  <2> QED BY <2>1, <2>2
<1>19. disk'[Tbd(t)] = Text(l, docs)
  BY <1>6, <1>7
<1>20. LET h == Contents(disk', opts.file) IN
         /\ opts.file \in Paths /\ h.is \in Interface
         /\ disk'[Tbd(Target(disk', opts.file))] =
              Text(h.lib, IF opts.inline THEN Gathered(reexports, kept, h.lib, Docs(h)) ELSE Docs(h))
  BY <1>3, <1>10, <1>14, <1>18, <1>19
<1>21. /\ opts' = opts /\ reexports' = reexports
       /\ \A h : Docs(h)' = Docs(h')
  BY <1>1 DEF Docs
<1> QED BY <1>17, <1>20, <1>21 DEF Repeats, Docs

LEMMA SameRepeats ==
  ASSUME UNCHANGED <<disk, opts, reexports>>, Repeats
  PROVE  Repeats'
<1>1. Held' = Held
  BY SameHeld
<1> QED BY <1>1 DEF Repeats

\* What a deletion leaves of the input.
LEMMA InputDeleted ==
  ASSUME Known, InputOK, pc = "deleteInput", opts.file # None,
         disk' = [disk EXCEPT ![originalNames[current]] = Absent], opts' = opts
  PROVE  ~Exists(disk', opts.file)
<1>1. disk \in [Paths -> Nodes]
  BY KnownTypes
<1>2. PICK t : t = Target(disk, opts.file)
  OBVIOUS
<1>3. opts.file \in Paths /\ Contents(disk, opts.file).is \in Interface /\ originalNames[current] = t
  BY <1>2 DEF InputOK
<1>4. t \in Paths /\ disk[t].is \in Interface
  BY <1>1, <1>2, <1>3, TargetFacts DEF Contents, Absent, Interface, Textual
<1>5. Absent \in Nodes /\ Absent.is # "link" /\ disk[t].is # "link"
  BY <1>4 DEF Nodes, Absent, Interface, Textual
<1>6. disk' \in [Paths -> Nodes] /\ \A x \in Paths : disk'[x] = IF x = t THEN Absent ELSE disk[x]
  BY <1>1, <1>3, <1>4, <1>5
<1>7. \A x \in Hops(disk, opts.file) : disk[x].is = "link" \/ disk'[x].is = "link" => disk'[x] = disk[x]
  BY <1>1, <1>3, <1>5, <1>6, HopsFacts
<1>8. Target(disk', opts.file) = Target(disk, opts.file)
  BY <1>1, <1>3, <1>6, <1>7, SameLinks
<1>9. disk'[Target(disk', opts.file)] = Absent
  BY <1>2, <1>4, <1>6, <1>8
<1> QED BY <1>9 DEF Exists, Contents

\* What is written again is what is there.
LEMMA RepeatsWritten ==
  ASSUME Known, Conversion, WriteFile, opts.file # None, Repeats
  PROVE  disk' = disk
<1>1. pc = "write" /\ output = StubOf(current) /\ stub = Text(stack[1].lib, stack[1].docs)
      /\ (disk[output] = stub => disk' = disk)
  BY WriteStep
<1>2. PICK f, t : f = Contents(disk, opts.file) /\ t = Target(disk, opts.file)
  OBVIOUS
<1>3. current = Stem(t)
  BY <1>1, <1>2 DEF Conversion, InputOK
<1>4. Given = f
  BY <1>2 DEF Given
<1>5. stack[1].lib = f.lib /\ stack[1].docs = IF opts.inline THEN Gathered(reexports, Held, f.lib, Docs(f)) ELSE Docs(f)
  BY <1>1, <1>4 DEF Conversion, GatherOK
<1>6. disk[Tbd(t)] = Text(f.lib, IF opts.inline THEN Gathered(reexports, Held, f.lib, Docs(f)) ELSE Docs(f))
  BY <1>2 DEF Repeats
<1>7. output = Tbd(t)
  BY <1>1, <1>3 DEF Tbd
<1> QED BY <1>1, <1>5, <1>6, <1>7

\* Every step keeps that up.
LEMMA FileAgainStep ==
  ASSUME Known, Conversion, FileAgain, [Next]_vars
  PROVE  FileAgain'
<1>1. /\ UNCHANGED <<opts, first, reexports>> /\ disk \in [Paths -> Nodes] /\ Inv /\ Layout
  BY FileChanges, KnownTypes DEF Known
<1>2. SUFFICES ASSUME opts.file # None PROVE FileAgain'
  BY <1>1 DEF FileAgain
<1>3. pc \notin {"scan", "next", "relink", "link", "delete"}
  BY <1>1, <1>2 DEF Layout, CurrentOK
<1>4. /\ pc = "deleteInput" => opts.deleteInput
      /\ pc = "done" => IF opts.deleteInput THEN ~Exists(disk, opts.file) ELSE Repeats
      /\ after # None =>
           /\ disk = after
           /\ IF opts.deleteInput
              THEN ~Exists(disk, opts.file) /\ pc \notin {"inline", "write", "deleteInput", "done"}
              ELSE Repeats
  BY <1>2 DEF FileAgain
<1>5. SUFFICES /\ pc' = "deleteInput" => opts.deleteInput
               /\ pc' = "done" => IF opts.deleteInput THEN ~Exists(disk', opts.file) ELSE Repeats'
               /\ after' # None =>
                    /\ disk' = after'
                    /\ IF opts.deleteInput
                       THEN ~Exists(disk', opts.file) /\ pc' \notin {"inline", "write", "deleteInput", "done"}
                       ELSE Repeats'
  <2>1. \A p : Exists(disk, p)' <=> Exists(disk', p)
    BY DEF Exists, Contents, Loops
  <2>2. Exists(disk, opts.file)' <=> Exists(disk', opts.file)
    BY <1>1 DEF Exists, Contents, Loops
  <2> QED BY <1>1, <1>5, <2>2 DEF FileAgain
<1>6. ASSUME disk' = disk PROVE (Repeats => Repeats') /\ (Exists(disk', opts.file) <=> Exists(disk, opts.file))
  BY <1>1, <1>6, SameRepeats
<1>7. CASE WriteFile
  <2>1. /\ pc = "write" /\ after' = after
        /\ \/ pc' \in {"failed", "crashed"}
           \/ disk' = [disk EXCEPT ![output] = stub] /\ AfterWrite
    BY <1>7, WriteStep
  <2>2. CASE after # None
    <3>1. ~opts.deleteInput /\ Repeats /\ disk = after
      BY <1>4, <2>1, <2>2
    <3>2. disk' = disk
      BY <1>2, <1>7, <3>1, RepeatsWritten
    <3>3. pc' # "deleteInput"
      BY <1>2, <2>1, <3>1 DEF AfterWrite
    <3> QED BY <1>6, <2>1, <3>1, <3>2, <3>3
  <2>3. CASE after = None
    <3>1. CASE pc' \in {"failed", "crashed"}
      BY <2>1, <2>3, <3>1
    <3>2. CASE disk' = [disk EXCEPT ![output] = stub] /\ AfterWrite
      <4>1. Repeats'
        BY <1>2, <1>7, <3>2, WrittenRepeats
      <4>2. pc' = IF opts.deleteInput THEN "deleteInput" ELSE "done"
        BY <1>2, <3>2 DEF AfterWrite
      <4> QED BY <2>1, <2>3, <4>1, <4>2
    <3> QED BY <2>1, <3>1, <3>2
  <2> QED BY <2>2, <2>3
<1>8. CASE DeleteInput
  <2>1. after' = after /\ pc = "deleteInput"
    BY <1>8 DEF DeleteInput, history
  <2>2. opts.deleteInput /\ after = None
    BY <1>4, <2>1
  <2>3. CASE pc' = "failed"
    BY <2>1, <2>2, <2>3
  <2>4. CASE disk' = [disk EXCEPT ![originalNames[current]] = Absent] /\ pc' = "done"
    <3>1. ~Exists(disk', opts.file)
      BY <1>1, <1>2, <2>1, <2>4, InputDeleted DEF Conversion
    <3> QED BY <2>1, <2>2, <2>4, <3>1
  <2> QED BY <1>8, <2>3, <2>4 DEF DeleteInput, Fail
<1>9. CASE Begin
  <2>1. disk' = disk /\ pc' = "read" /\ after' = (IF pc = "done" THEN disk ELSE after)
    BY <1>2, <1>9 DEF Begin, tree
  <2>2. CASE pc = "done"
    BY <1>4, <1>6, <2>1, <2>2
  <2>3. CASE pc # "done"
    BY <1>4, <1>6, <2>1, <2>3
  <2> QED BY <2>2, <2>3
<1>10. CASE ReadInput
  <2>1. disk' = disk /\ after' = after /\ pc' \in {"inline", "write", "failed"}
    BY <1>10 DEF ReadInput, CallInline, Fail, tree, history
  <2>2. ~Exists(disk, opts.file) => pc' = "failed"
    BY <1>10 DEF ReadInput, Exists, Absent, Interface, Textual, Fail
  <2> QED BY <1>4, <1>6, <2>1, <2>2
<1>11. CASE inlineFrameworks
  <2>1. pc = "inline" /\ pc' \in {"inline", "write", "failed", "overflow"} /\ disk' = disk /\ after' = after
    BY <1>1, <1>11, InlineStep DEF inlineFrameworks, Fail, tree, history
  <2> QED BY <1>4, <1>6, <2>1
<1>12. CASE Crash
  <2>1. disk' = disk /\ after' = after /\ pc' = "crashed"
    BY <1>12 DEF Crash, tree, history
  <2> QED BY <1>4, <1>6, <2>1
<1>13. CASE UNCHANGED Seen
  <2>1. disk' = disk /\ after' = after /\ pc' = pc
    BY <1>13 DEF Seen, tree, history
  <2> QED BY <1>4, <1>6, <2>1
<1>14. CASE Scan \/ Scanned \/ Convert \/ RemoveLink \/ CreateLink \/ Converted \/ AllConverted \/ Delete \/ Deleted
  BY <1>3, <1>14 DEF Scan, Scanned, Convert, RemoveLink, CreateLink, Converted, AllConverted, Delete, Deleted
<1> QED BY <1>7, <1>8, <1>9, <1>10, <1>11, <1>12, <1>13, <1>14, NextCases

-----------------------------------------------------------------------------
(* The inductive invariant *)

\* Inductive, given what is known of every state.
AgainOK == TextOK /\ OneRun /\ Between /\ FileAgain

LEMMA AgainInit ==
  ASSUME TidyInputs, PlacedInputs, Init
  PROVE  AgainOK
<1>1. PICK i \in Inputs : disk = i.disk /\ opts = i.opts /\ reexports = i.reexports
  BY DEF Init
<1>2. /\ first = disk /\ after = None /\ pc = "idle" /\ todo = {} /\ toDelete = {} /\ symlinks = {} /\ left = {}
      /\ dylibs = [s \in Stems |-> Absent] /\ originalNames = [s \in Stems |-> None]
      /\ disk \in [Paths -> Nodes] /\ reexports \in [Libs -> SUBSET Libs]
  BY <1>1, InputsAssumption DEF Init
<1>3. TextOK
  BY TextInit
<1>4. PlaceOK
  <2>1. SUFFICES ASSUME opts.inline, NEW l \in Embedded(reexports)
        PROVE  /\ \A p \in Paths : Stem(p) = Stem(Place(l)) =>
                    first[p].is # "link" /\ (disk[p].is \in Interface => disk[p].lib = l)
               /\ dylibs[Stem(Place(l))] = Absent
    BY <1>2 DEF PlaceOK
  <2>2. PlacedTree(disk, reexports)
    BY <1>1, <2>1 DEF PlacedInputs
  <2>3. l \in Libs
    BY <1>2, <2>1 DEF Embedded
  <2> QED BY <1>2, <2>1, <2>2, <2>3, PlaceFacts DEF PlacedTree
<1>5. PublicOK
  BY <1>2 DEF PublicOK
<1>6. RecordedText /\ InputOK /\ GatherOK
  BY <1>2 DEF RecordedText, InputOK, GatherOK, Converting
<1>7. ~InRun /\ ~Again
  BY <1>2 DEF InRun, Again, Converting, Deleting
<1>8. SettledOK /\ SweptOK /\ MarkOK /\ MarkedInputs /\ ProtectOK
  BY <1>7 DEF SettledOK, SweptOK, MarkOK, MarkedInputs, ProtectOK
<1>9. AgainSettled /\ AgainMarks /\ AgainLinks /\ SameOK /\ GuardOK
  BY <1>7 DEF AgainSettled, AgainMarks, AgainLinks, SameOK, GuardOK
<1>10. FileAgain
  BY <1>2 DEF FileAgain
<1> QED BY <1>3, <1>4, <1>5, <1>6, <1>8, <1>9, <1>10 DEF AgainOK, OneRun, Between, Conversion

LEMMA AgainStep ==
  ASSUME Known, AgainOK, [Next]_vars
  PROVE  AgainOK'
<1>1. /\ TextOK /\ PlaceOK /\ PublicOK /\ RecordedText /\ InputOK /\ GatherOK /\ Inv /\ Layout
      /\ SettledOK /\ SweptOK /\ MarkOK /\ MarkedInputs /\ ProtectOK
      /\ AgainSettled /\ AgainMarks /\ AgainLinks /\ SameOK /\ GuardOK
      /\ FileAgain /\ Conversion /\ OneRun /\ Between
  BY DEF AgainOK, OneRun, Between, Conversion, Known
<1>2. TextOK'
  BY <1>1, TextStep
<1>3. Conversion'
  <2>1. PlaceOK'
    BY <1>1, PlaceStep
  <2>2. PublicOK'
    BY <1>1, PublicStep
  <2>3. RecordedText'
    BY <1>1, RecordedStep
  <2>4. InputOK'
    BY <1>1, InputStep
  <2>5. GatherOK'
    BY <1>1, GatherInvariant
  <2> QED BY <2>1, <2>2, <2>3, <2>4, <2>5 DEF Conversion
<1>4. OneRun'
  <2>1. SettledOK'
    BY <1>1, SettledStep
  <2>2. SweptOK'
    BY <1>1, SweptStep
  <2>3. MarkOK'
    BY <1>1, MarkStep
  <2>4. MarkedInputs'
    BY <1>1, MarkedInputsStep
  <2>5. ProtectOK'
    BY <1>1, ProtectStep
  <2> QED BY <1>3, <2>1, <2>2, <2>3, <2>4, <2>5 DEF OneRun
<1>5. Between'
  <2>1. AgainSettled'
    BY <1>1, AgainSettledStep
  <2>2. AgainMarks'
    BY <1>1, AgainMarksStep
  <2>3. AgainLinks'
    BY <1>1, AgainLinksStep
  <2>4. SameOK'
    BY <1>1, SameStep
  <2>5. GuardOK'
    BY <1>1, GuardStep
  <2> QED BY <2>1, <2>2, <2>3, <2>4, <2>5 DEF Between
<1>6. FileAgain'
  BY <1>1, FileAgainStep
<1> QED BY <1>2, <1>4, <1>5, <1>6 DEF AgainOK

LEMMA AgainInvariance ==
  ASSUME TidyInputs, PlacedInputs
  PROVE  Spec => [](Known /\ AgainOK)
<1>1. Init => AgainOK
  BY AgainInit
<1>2. Known /\ AgainOK /\ [Next]_vars => AgainOK'
  BY AgainStep
<1>3. Spec => []Known
  BY FirstRunInvariance DEF Known
<1> QED BY <1>1, <1>2, <1>3, PTL DEF Spec

\* At the end of a run no twin is missing.
LEMMA IdempotentInState ==
  ASSUME Known, AgainOK
  PROVE  Idempotent
<1>1. SUFFICES ASSUME pc = "done", after # None, NEW p \in Paths
      PROVE  disk[p] = after[p] \/ (disk[p] = Absent /\ (Unprotected(p) \/ p \in DeletedLinks))
  BY DEF Idempotent
<1>2. CASE opts.file = None
  <2>1. Again
    BY <1>1, <1>2 DEF Again
  <2>2. \A q \in SparedLinks : disk[Tbd(q)] = Link(Tbd(first[q].to))
    BY <1>1, <1>2 DEF Known, StoodIn, MirrorOK, Twin
  <2>3. ASSUME NEW q \in SparedLinks, p = Tbd(q) PROVE disk[p] # Absent
    <3>1. PICK n : n = Link(Tbd(first[q].to))
      OBVIOUS
    <3>2. n.is = "link"
      BY <3>1 DEF Link
    <3>3. n # Absent
      BY <3>2 DEF Absent
    <3> QED BY <2>2, <2>3, <3>1, <3>3
  <2> QED BY <2>1, <2>3 DEF AgainOK, Between, SameOK
<1>3. CASE opts.file # None
  BY <1>1, <1>3 DEF AgainOK, FileAgain
<1> QED BY <1>2, <1>3

\* Whatever fails in between, however often, and whenever the process dies: a run that
\* succeeds after another one that did leaves every file as that one did, but for the
\* private files and links that Idempotent names.  The twins that it removes it makes
\* again, the same.
THEOREM SecondRunChangesNothing ==
  ASSUME TidyInputs, PlacedInputs
  PROVE  Spec => []Idempotent
<1>1. Known /\ AgainOK => Idempotent
  BY IdempotentInState
<1> QED BY <1>1, AgainInvariance, PTL

\* What is written: the own documents of a library, the private libraries that it
\* reexports, directly or through others, and what the stubs of those hold.
Exact == pc = "write" =>
  /\ stack[1].lib = Given.lib
  /\ stack[1].docs = IF opts.inline THEN Gathered(reexports, Held, Given.lib, Docs(Given)) ELSE Docs(Given)

\* inlineFrameworks takes in everything that it is to, and nothing else, whatever the
\* order in which it visits the reexports.
THEOREM StubsAreExact ==
  ASSUME TidyInputs
  PROVE  Spec => []Exact
<1>1. Init => GatherOK
  BY DEF Init, GatherOK
<1>2. Known /\ GatherOK /\ [Next]_vars => GatherOK'
  BY GatherInvariant
<1>3. Spec => []Known
  BY FirstRunInvariance DEF Known
<1>4. GatherOK => Exact
  BY DEF GatherOK, Exact
<1> QED BY <1>1, <1>2, <1>3, <1>4, PTL DEF Spec

\* At the end of a run of a directory every interface file that is not deleted as
\* private has a settled stub next to it.
AllSettled == opts.file = None /\ pc = "done" =>
  \A p \in Paths : disk[p].is \in Interface /\ ~Excluded(p) => Settled(Stem(p))

\* After a run that succeeds, inlining would add nothing to any stub of what the stubs
\* hold by then, in whatever order they were written.
THEOREM SuccessLeavesNothingToInline ==
  ASSUME TidyInputs, PlacedInputs
  PROVE  Spec => []AllSettled
<1>1. Known /\ AgainOK => AllSettled
  <2>1. SUFFICES ASSUME Known, AgainOK, opts.file = None, pc = "done", NEW p \in Paths,
                        disk[p].is \in Interface, ~Excluded(p)
        PROVE  Settled(Stem(p))
    BY DEF AllSettled
  <2>2. InRun /\ SettledOK
    BY <2>1 DEF InRun, Deleting, AgainOK, OneRun
  <2>3. todo = {} /\ left = {} /\ Stem(p) \in Stems /\ dylibs[Stem(p)] # Absent
    BY <2>1, <2>2, PathFacts DEF SettledOK, Deleting, Stems
  <2>4. ~Waiting(Stem(p))
    BY <2>1, <2>3 DEF Waiting
  <2> QED BY <2>2, <2>3, <2>4 DEF SettledOK
<1> QED BY <1>1, AgainInvariance, PTL
=============================================================================
