----------------------------- MODULE APIRecords -----------------------------
(***************************************************************************)
(* From a dynamic library to the symbols of its stub: readSymbols          *)
(* (MachOReader.cpp) fills the records of an API (API.cpp) from the        *)
(* exports trie and the symbol table, API2SymbolConverter.cpp turns the    *)
(* records into symbols, and a stub read again (YAMLReaderWriter.cpp)      *)
(* turns the symbols back into records.                                    *)
(*                                                                         *)
(* One target.  Of the flags of a symbol the model keeps what the linkage  *)
(* says (reexported, undefined).                                           *)
(***************************************************************************)
EXTENDS Naturals

CONSTANTS
  Globals,  \* plain symbols
  Swift,    \* those whose name starts with _$s or _$S
  Classes,  \* Objective-C classes
  Ivars,    \* names of instance variables
  NoClass,  \* the empty class name
  Libraries \* [entries, trie, flat] records: what is read

\* APILinkage, in its order.
Unknown == 0
Internal == 1
External == 2
Reexported == 3
Exported == 4
Linkages == Unknown .. Exported

\* The name of a symbol, as MachO::parseSymbol takes it apart.
Global(g) == <<"global", g, "">>
Class(c) == <<"class", c, "">>
MetaClass(c) == <<"metaclass", c, "">>
EHType(c) == <<"ehtype", c, "">>
Ivar(c, i) == <<"ivar", c, i>>
Owners == Classes \cup {NoClass}
Parts(c) == {Class(c), MetaClass(c), EHType(c)}
IvarNames == {Ivar(c, i) : c \in Owners, i \in Ivars}
GlobalNames == {Global(g) : g \in Globals} \cup UNION {Parts(c) : c \in Classes}
Names == GlobalNames \cup IvarNames
SwiftNames == {Global(g) : g \in Swift}

ASSUME NamesAssumption == Swift \subseteq Globals /\ NoClass \notin Classes
ASSUME LibrariesAssumption ==
  \A lib \in Libraries :
    /\ lib.entries \in [Names -> {"none", "undefined", "exported", "hidden", "local"}]
    /\ lib.trie \in [Names -> {Unknown, Reexported, Exported}]
    /\ lib.flat \in BOOLEAN
    \* the linker lists no symbol without a class name, and exports what the trie lists
    /\ \A i \in Ivars : lib.entries[Ivar(NoClass, i)] = "none"
    /\ \A n \in Names : lib.trie[n] # Unknown => lib.entries[n] \in {"none", "exported"}

VARIABLES
  entries, \* symbol -> how the symbol table lists it
  trie,    \* symbol -> its linkage in the exports trie
  flat,    \* no two-level namespace: undefined symbols are recorded
  swift,   \* exported Swift symbols still to be added
  table,   \* symbols of the table still to be read
  source,  \* what is read: "binary", or "text" once the stub is
  api,     \* the records
  stub,    \* the symbols written last
  pc,      \* "read", "convert", "written"
  early    \* history: ivars read ahead of their class

library == <<entries, trie, flat>>
vars == <<library, swift, table, source, api, stub, pc, early>>

-----------------------------------------------------------------------------
(* API: the records.  An interface has the linkage of its three symbols, all   *)
(* Unknown when there is no record; ivars hang on an interface, or on the      *)
(* category with no name of a class that has none.                             *)

NoAPI == [globals    |-> [n \in GlobalNames |-> Unknown],
          interfaces |-> [n \in GlobalNames |-> Unknown],
          ivars      |-> [n \in IvarNames |-> Unknown],
          categories |-> [n \in IvarNames |-> Unknown]]

Mut_Combine(old, new) == old + new
Raise(old, new) == IF new > old THEN new ELSE old

Linkage(a, c) == Raise(a.interfaces[Class(c)], Raise(a.interfaces[MetaClass(c)], a.interfaces[EHType(c)]))
HasInterface(a, c) == c # NoClass /\ Linkage(a, c) # Unknown

addGlobal(a, n, l) == [a EXCEPT !.globals[n] = Raise(@, l)]
addObjCInterface(a, n, l) == [a EXCEPT !.interfaces[n] = Raise(@, l)]

\* findObjCInterface, then the category; what a table lists once is added once.
addIvar(a, n, l) ==
  IF HasInterface(a, n[2]) THEN [a EXCEPT !.ivars[n] = l] ELSE [a EXCEPT !.categories[n] = l]

addGlobalFromBinary(n, l) ==
  api' = CASE n[1] = "global" -> addGlobal(api, n, l)
           [] n[1] = "ivar" -> addIvar(api, n, l)
           [] OTHER -> addObjCInterface(api, n, l)

\* API::findIVar, by the name of its symbol: in the interface, or else in the
\* category (findContainer).
Mut_InterfaceOnly(a, n) == IF HasInterface(a, n[2]) THEN a.ivars[n] ELSE Unknown
findIVar(a, n) == IF HasInterface(a, n[2]) THEN a.ivars[n] ELSE a.categories[n]

-----------------------------------------------------------------------------
(* readSymbols *)

\* Swift symbols come from the exports trie, whatever the symbol table says.
AddSwift ==
  /\ pc = "read"
  /\ \E n \in swift : addGlobalFromBinary(n, trie[n]) /\ swift' = swift \ {n}
  /\ UNCHANGED <<library, table, source, stub, pc, early>>

\* What the table says of a symbol; Unknown when it is left out.
Mut_UnlistedExported(n) ==
  CASE entries[n] = "undefined" -> External
    [] entries[n] = "exported" -> Exported
    [] entries[n] = "hidden" -> Internal
    [] OTHER -> Unknown
TableLinkage(n) ==
  CASE entries[n] = "undefined" -> External
    [] entries[n] = "exported" -> trie[n]
    [] entries[n] = "hidden" -> Internal
    [] OTHER -> Unknown

Read(n) == n \notin table /\ TableLinkage(n) # Unknown
ReadSymbol ==
  /\ pc = "read" /\ swift = {}
  /\ \E n \in table :
       /\ IF TableLinkage(n) = Unknown THEN UNCHANGED api
          ELSE addGlobalFromBinary(n, TableLinkage(n))
       /\ table' = table \ {n}
       /\ early' = IF n[1] = "ivar" /\ \A part \in Parts(n[2]) : ~Read(part)
                   THEN early \cup {n} ELSE early
  /\ UNCHANGED <<library, swift, source, stub, pc>>

EndOfTable ==
  /\ pc = "read" /\ swift = {} /\ table = {}
  /\ pc' = "convert"
  /\ UNCHANGED <<library, swift, table, source, api, stub, early>>

-----------------------------------------------------------------------------
(* API2SymbolConverter *)

Symbol(kind, n) == [kind |-> kind, name |-> n]

visitGlobal(a) ==
  {Symbol("global", n) : n \in {m \in GlobalNames : a.globals[m] >= Reexported}} \cup
  {Symbol("undefined", n) : n \in {m \in GlobalNames : flat /\ a.globals[m] = External}}

isCompleteInterface(a, c) ==
  a.interfaces[Class(c)] >= Reexported /\ a.interfaces[MetaClass(c)] >= Reexported
hasExceptionAttribute(a, c) == a.interfaces[EHType(c)] # Unknown

Mut_LinkageOfClass(a, c) == a.interfaces[Class(c)]
RecordLinkage(a, c) == Linkage(a, c)

\* A class with its metaclass is one symbol, and so is the type of its exceptions;
\* otherwise each exported symbol of the three stands for itself.
visitObjCInterface(a, c) ==
  CASE RecordLinkage(a, c) < Reexported -> {}
    [] RecordLinkage(a, c) >= Reexported /\ isCompleteInterface(a, c) ->
         {Symbol("class", Class(c))} \cup
         (IF hasExceptionAttribute(a, c) THEN {Symbol("ehtype", EHType(c))} ELSE {})
    [] OTHER -> {Symbol("global", n) : n \in {m \in Parts(c) : a.interfaces[m] >= Reexported}}

\* The ivars of a category are named after the category, which has no name.
addIvars(a) ==
  {Symbol("ivar", n) : n \in {m \in IvarNames : a.ivars[m] >= Reexported}} \cup
  {Symbol("ivar", Ivar(NoClass, n[3])) : n \in {m \in IvarNames : a.categories[m] >= Reexported}}

Symbols(a) == visitGlobal(a) \cup addIvars(a) \cup UNION {visitObjCInterface(a, c) : c \in Classes}

Convert ==
  /\ pc = "convert"
  /\ stub' = Symbols(api)
  /\ pc' = "written"
  /\ UNCHANGED <<library, swift, table, source, api, early>>

-----------------------------------------------------------------------------
(* addInterfaceFileToAPIs: the symbols of a stub are sorted by kind, so that   *)
(* classes come before ivars.                                                  *)

Has(kind, n) == Symbol(kind, n) \in stub

Mut_Unsorted(c) == FALSE
ClassRead(c) == Has("class", Class(c)) \/ Has("ehtype", EHType(c))

TextAPI ==
  [globals    |-> [n \in GlobalNames |-> CASE Has("global", n) -> Exported
                                           [] ~Has("global", n) /\ Has("undefined", n) -> External
                                           [] OTHER -> Unknown],
   interfaces |-> [n \in GlobalNames |->
                     IF \E c \in Classes : (n \in {Class(c), MetaClass(c)} /\ ClassRead(c))
                                            \/ (n = EHType(c) /\ Has("ehtype", n))
                     THEN Exported ELSE Unknown],
   ivars      |-> [n \in IvarNames |-> IF Has("ivar", n) /\ ClassRead(n[2]) THEN Exported ELSE Unknown],
   categories |-> [n \in IvarNames |-> IF Has("ivar", n) /\ ~ClassRead(n[2]) THEN Exported ELSE Unknown]]

ReadText ==
  /\ pc = "written"
  /\ api' = TextAPI
  /\ source' = "text"
  /\ pc' = "convert"
  /\ UNCHANGED <<library, swift, table, stub, early>>

-----------------------------------------------------------------------------
Init ==
  /\ \E lib \in Libraries : entries = lib.entries /\ trie = lib.trie /\ flat = lib.flat
  /\ swift = {n \in SwiftNames : trie[n] # Unknown}
  /\ table = {n \in Names : entries[n] # "none"}
  /\ source = "binary" /\ api = NoAPI /\ stub = {} /\ pc = "read" /\ early = {}

Next == AddSwift \/ ReadSymbol \/ EndOfTable \/ Convert \/ ReadText
Spec == Init /\ [][Next]_vars

-----------------------------------------------------------------------------
(* Properties *)

\* Records hold linkages, a stub symbols of the kinds that text stubs have.
TypeOK ==
  /\ swift \subseteq SwiftNames /\ table \subseteq Names /\ early \subseteq IvarNames
  /\ api.globals \in [GlobalNames -> Linkages] /\ api.interfaces \in [GlobalNames -> Linkages]
  /\ api.ivars \in [IvarNames -> Linkages] /\ api.categories \in [IvarNames -> Linkages]
  /\ \A s \in stub : s.name \in Names /\ s.kind \in {"global", "undefined", "class", "ehtype", "ivar"}
  /\ pc \in {"read", "convert", "written"} /\ source \in {"binary", "text"}

\* What a linker finds in the stub, and what the library exports.
Provided == {s.name : s \in {t \in stub : t.kind # "undefined"}} \cup
            {MetaClass(c) : c \in {d \in Classes : Has("class", Class(d))}}
IsExported(n) == trie[n] # Unknown

\* A symbol of the exports trie that the symbol table does not list as exported.
TrieOnly(n) == entries[n] # "exported" /\ n \notin SwiftNames

\* Every symbol the library exports is in the stub, whatever the order of the symbol
\* table, with two exceptions.  An ivar that the table lists ahead of its class ends in a
\* category and loses its class (API.cpp 289-300, API2SymbolConverter.cpp 137).  And a
\* symbol that only the exports trie lists, as in a library whose table was stripped, is
\* dropped: readSymbols goes by the table, and makes up for it for Swift symbols alone
\* (MachOReader.cpp 339-343, the workaround, and 345-371).
StubIsComplete ==
  pc = "written" /\ source = "binary" =>
    \A n \in Names : IsExported(n) => n \in Provided \/ n \in early \/ TrieOnly(n)

\* The stub promises no symbol that the library does not export, except two kinds:
\* the nameless remains of an ivar read ahead of its class, and the exception type of
\* an exported class that is itself hidden or undefined (hasExceptionAttribute only
\* asks for a record).
NothingInvented ==
  pc = "written" /\ source = "binary" =>
    \A n \in Provided :
      \/ IsExported(n)
      \/ \E m \in early : IsExported(m) /\ n = Ivar(NoClass, m[3])
      \/ \E c \in Classes : /\ n = EHType(c) /\ TableLinkage(n) \in {Internal, External}
                             /\ IsExported(Class(c)) /\ IsExported(MetaClass(c))

\* findIVar, which verification looks ivars up with, finds every ivar that was read,
\* except one read ahead of a class that came later.
IvarsFound ==
  pc = "convert" /\ source = "binary" =>
    \A n \in IvarNames : Read(n) /\ (n \in early => ~HasInterface(api, n[2]))
      => findIVar(api, n) = TableLinkage(n)

\* Reading a stub and writing it again changes nothing, unless the stub has an ivar
\* without its class.
Whole == \A n \in IvarNames : Has("ivar", n) => n[2] = NoClass \/ Has("class", Class(n[2]))
RoundTrip == [][pc = "convert" /\ source = "text" /\ Whole => stub' = stub]_vars
=============================================================================
