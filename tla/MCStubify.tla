----------------------------- MODULE MCStubify -----------------------------
(* Instances of Stubify for TLC: small SDKs.                               *)
EXTENDS Stubify

\* /usr/lib, the private /usr/local/lib and a directory in it, and Foo.framework with
\* its Versions/A and Versions/Current -> A.
SdkDirs == {"sdk", "lib", "local", "deep", "fw", "A", "Current"}
SdkAbove == [d \in SdkDirs |-> {"sdk", d} \cup (IF d \in {"A", "Current"} THEN {"fw"} ELSE {})
                                         \cup (IF d = "deep" THEN {"local"} ELSE {})]
SdkAlias == [d \in SdkDirs |-> IF d = "Current" THEN "A" ELSE d]

Foo1 == <<"lib", "libfoo.1", "dylib">>
FooLink == <<"lib", "libfoo", "dylib">>
FooSo == <<"lib", "libfoo.1", "so">>
BarLink == <<"lib", "libbar", "dylib">>
Bar == <<"local", "libbar", "dylib">>
Baz == <<"deep", "libbaz", "dylib">>
FooA == <<"A", "Foo", "">>
FooCurrent == <<"Current", "Foo", "">>
FooTop == <<"fw", "Foo", "">>
FooMid == <<"lib", "libfoo.A", "dylib">>
BarMid == <<"local", "libbar.A", "dylib">>
Files == {Foo1, FooLink, FooMid, FooSo, BarLink, BarMid, Bar, Baz, FooA, FooCurrent, FooTop}
SdkPaths == Files \cup {Tbd(p) : p \in Files}

\* libold is a library that the output format cannot express; it takes libbaz's place.
AllLibs == {"foo", "bar", "baz", "old"}
Where == [l \in AllLibs |-> CASE l = "foo" -> Foo1 [] l = "bar" -> Bar [] OTHER -> Baz]

Tree(files) == [p \in SdkPaths |-> IF p \in DOMAIN files THEN files[p] ELSE Absent]
F(p, node) == [q \in {p} |-> node]
a ++ b == [p \in DOMAIN a \cup DOMAIN b |-> IF p \in DOMAIN a THEN a[p] ELSE b[p]]
NoReexports == [l \in AllLibs |-> {}]
Opts(file, deleteInput, deletePrivate, inline) ==
  [file : file, deleteInput : deleteInput, deletePrivate : deletePrivate, inline : inline]
On(trees, options, graphs) == [disk : trees, opts : options, reexports : graphs]

\* libfoo with a link to it and perhaps a stub already, which may be damaged or not
\* a stub at all; a private library, a link to which may be public.
Foo(stub0) == F(Foo1, Dylib("foo")) ++ F(FooLink, Link(Foo1)) ++ F(Tbd(Foo1), stub0)
FlatTrees ==
  {Tree(Foo(stub0)) : stub0 \in {Absent, Damaged, Other, Text("foo", {"bar"})}} \cup
  {Tree(Foo(stub0) ++ bar) : stub0 \in {Absent, Text("foo", {})},
     bar \in {F(Baz, Dylib("old")), F(Bar, Damaged), F(Bar, Dylib("bar")), F(Bar, Dylib("bar")) ++ F(BarLink, Link(Bar))}}
Flat == On(FlatTrees, Opts({None}, BOOLEAN, BOOLEAN, {FALSE}), {NoReexports})

\* A link to a link; a public link through a private one to a public or a private
\* library; and what a conversion of long ago left, with links to stubs, one of which
\* becomes too long when the twin on its way is renewed.
Chains ==
  On({Tree(F(Foo1, Dylib("foo")) ++ F(FooMid, Link(Foo1)) ++ F(FooLink, Link(FooMid)))},
     Opts({None}, {TRUE}, {FALSE}, {FALSE}), {NoReexports})
  \cup On({Tree(F(p, Dylib("bar")) ++ F(BarMid, Link(p)) ++ F(BarLink, Link(BarMid))) : p \in {Bar, Foo1}},
          Opts({None}, BOOLEAN, {TRUE}, {FALSE}), {NoReexports})
  \cup On({Tree(F(Bar, Dylib("bar")) ++ F(BarLink, Link(Bar)) ++ F(Tbd(BarLink), Link(Tbd(BarMid)))
                ++ F(Tbd(BarMid), Link(Tbd(Bar))) ++ F(Tbd(Bar), Text("bar", {})))},
          Opts({None}, BOOLEAN, BOOLEAN, {FALSE}), {NoReexports})
  \cup On({Tree(F(Foo1, Dylib("foo")) ++ F(FooMid, Link(Foo1)) ++ F(FooLink, Link(FooMid))
                ++ F(Tbd(BarLink), Link(Tbd(FooLink))) ++ F(Tbd(FooLink), Link(Tbd(Foo1)))
                ++ F(Tbd(Foo1), Text("foo", {})))},
          Opts({None}, {FALSE}, {FALSE}, {FALSE}), {NoReexports})
  \cup On({Tree(F(Foo1, Dylib("foo")) ++ F(Bar, Link(Foo1)) ++ F(BarMid, Link(Bar)) ++ F(Baz, Link(BarMid))),
           Tree(F(Foo1, Dylib("foo")) ++ F(FooLink, Link(Foo1)) ++ F(Tbd(FooLink), Link(Tbd(Bar)))
                ++ F(Tbd(Bar), Text("bar", {})))},
          Opts({None}, {FALSE}, {TRUE}, {FALSE}), {NoReexports})

\* A framework: the link at the top goes through Versions/Current.
Framework ==
  On({Tree(F(FooA, Dylib("foo")) ++ F(FooTop, Link(FooCurrent)))},
     Opts({None}, BOOLEAN, {FALSE}, {FALSE}), {NoReexports})

\* Three libraries, the last two private: the first reexports the second, directly
\* or through the third as well, and those perhaps each other or the first.
Graph(foo, bar, baz) == [foo |-> foo, bar |-> bar, baz |-> baz, old |-> {}]
Graphs == {Graph({"bar"}, bar, baz) : bar \in {{}, {"baz"}, {"foo", "baz"}}, baz \in {{}, {"bar"}}}
            \cup {Graph({"bar", "baz"}, {"baz"}, {})}
Inlining ==
  On({Tree(F(Foo1, Dylib("foo")) ++ F(Bar, Dylib("bar")) ++ F(Baz, Dylib("baz")))},
     Opts({None}, {TRUE}, {FALSE}, {TRUE}), Graphs)

\* One file: a library, a link to one, a stub; what it reexports may be missing.
OneFile ==
  On({Tree(F(Foo1, foo) ++ F(FooLink, Link(Foo1)) ++ bar) :
        foo \in {Dylib("foo"), Damaged},
        bar \in {<<>>, F(Bar, Dylib("bar")) ++ F(Baz, Dylib("old"))}},
     Opts({Foo1, FooLink, Baz}, BOOLEAN, {FALSE}, BOOLEAN),
     {Graph({"bar"}, bar, {}) : bar \in {{}, {"old"}}})

Tidy == Flat \cup Chains \cup Framework \cup Inlining \cup OneFile

ASSUME TidyInputs == \A i \in Tidy : TidyTree(i.disk)
ASSUME PlacedInputs == \A i \in Tidy : i.opts.inline => PlacedTree(i.disk, i.reexports)

\* libfoo.1.so -> libfoo.1.dylib: a link with the name of its target.
SameName ==
  On({Tree(F(Foo1, Dylib("foo")) ++ F(FooSo, Link(Foo1)))},
     Opts({None}, BOOLEAN, {FALSE}, {FALSE}), {NoReexports})
=============================================================================
