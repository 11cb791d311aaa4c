---------------------------- MODULE MCAPIRecords ----------------------------
(* Instances of APIRecords for TLC.                                        *)
EXTENDS APIRecords

C == "C"
D == "D"
f == Global("f")
swiftF == Global("_$s1f")

\* How a symbol is listed by the table and by the trie.
Missing == <<"none", Unknown>>
Public == <<"exported", Exported>>
Hidden == <<"hidden", Unknown>>
Stripped == <<"none", Exported>>
Any == {Missing, Public, Hidden, Stripped}
Listing(x) == [n \in Names |-> IF n \in DOMAIN x THEN x[n] ELSE Missing]
Library(x, isFlat) ==
  [entries |-> [n \in Names |-> Listing(x)[n][1]], trie |-> [n \in Names |-> Listing(x)[n][2]],
   flat |-> isFlat]

\* A class and one of its ivars, each symbol not there, exported, hidden, or stripped
\* from the table; a second class with an ivar of the same name and nothing else, only
\* its class symbol, or all.
Own(x) == [n \in Parts(C) \cup {Ivar(C, "i")} |->
             CASE n = Class(C) -> x[1] [] n = MetaClass(C) -> x[2] [] n = EHType(C) -> x[3]
               [] OTHER -> x[4]]
Second == {[n \in {Ivar(D, "i")} \cup parts |-> Public] : parts \in {{}, {Class(D)}, Parts(D)}}
a ++ b == [n \in DOMAIN a \cup DOMAIN b |-> IF n \in DOMAIN a THEN a[n] ELSE b[n]]
Objects == {Own(x) ++ second : x \in Any \X Any \X Any \X Any, second \in Second \cup {<<>>}}
\* Plain symbols: reexported, exported but not in the trie, undefined, local, stripped;
\* those of Swift, in the table and stripped.
Plain == {[n \in {f, swiftF} |-> IF n = f THEN x[1] ELSE x[2]] :
            x \in {<<"exported", Reexported>>, <<"exported", Unknown>>, <<"undefined", Unknown>>,
                   <<"local", Unknown>>, Stripped} \X {Public, Stripped}}
\* The type of exceptions may also be undefined.
Undefined == {[n \in Parts(C) |-> IF n = EHType(C) THEN <<"undefined", Unknown>> ELSE Public]}

AnyLibrary == {Library(x, FALSE) : x \in Objects \cup Undefined}
                \cup {Library(x, isFlat) : x \in Plain, isFlat \in BOOLEAN}
=============================================================================
