--------------------------- MODULE APIRecordsProofs ---------------------------
(* Proofs about APIRecords, for any library and any order of its table.    *)
EXTENDS APIRecords, TLAPS

Records == [globals : [GlobalNames -> Linkages], interfaces : [GlobalNames -> Linkages],
            ivars : [IvarNames -> Linkages], categories : [IvarNames -> Linkages]]

\* What the library exports and readSymbols does not drop.
Carried(n) == IsExported(n) /\ ~TrieOnly(n)

-----------------------------------------------------------------------------
(* Names and linkages *)

\* The names of the four kinds are told apart by their first component.
LEMMA NameKinds ==
  /\ \A n \in Names : n[1] = "global" => n \in GlobalNames
  /\ \A n \in Names : n[1] = "ivar" => n \in IvarNames /\ n[2] \in Owners
  /\ \A n \in Names : n[1] # "global" /\ n[1] # "ivar" => n \in GlobalNames
  /\ \A n \in IvarNames : n[1] = "ivar" /\ n[2] \in Owners /\ n[3] \in Ivars /\ n = Ivar(n[2], n[3])
  /\ \A n \in GlobalNames : n[1] # "ivar"
  /\ \A n \in SwiftNames : n \in GlobalNames /\ n[1] = "global"
  /\ \A c \in Classes : \A n \in Parts(c) : n \in GlobalNames /\ n[1] # "global"
<1>1. \A n \in IvarNames : n[1] = "ivar" /\ n[2] \in Owners /\ n[3] \in Ivars /\ n = Ivar(n[2], n[3])
  BY DEF IvarNames, Ivar
<1>2. \A c \in Classes : \A n \in Parts(c) : n \in GlobalNames /\ n[1] # "global" /\ n[1] # "ivar"
  <2>1. ASSUME NEW c \in Classes, NEW n \in Parts(c) PROVE n[1] # "global" /\ n[1] # "ivar"
    <3>1. Class(c)[1] = "class" /\ MetaClass(c)[1] = "metaclass" /\ EHType(c)[1] = "ehtype"
      BY DEF Class, MetaClass, EHType
    <3> QED BY <3>1 DEF Parts
  <2>2. ASSUME NEW c \in Classes, NEW n \in Parts(c) PROVE n \in GlobalNames
    BY DEF GlobalNames
  <2> QED BY <2>1, <2>2
<1>3. \A n \in GlobalNames : n[1] # "ivar"
  <2>1. ASSUME NEW g \in Globals PROVE Global(g)[1] # "ivar"
    BY DEF Global
  <2> QED BY <1>2, <2>1 DEF GlobalNames
<1>4. \A n \in SwiftNames : n \in GlobalNames /\ n[1] = "global"
  <2>1. ASSUME NEW g \in Swift PROVE Global(g)[1] = "global" /\ Global(g) \in GlobalNames
    BY NamesAssumption DEF GlobalNames, Global
  <2> QED BY <2>1 DEF SwiftNames
<1> QED BY <1>1, <1>2, <1>3, <1>4 DEF Names

LEMMA RaiseIsLinkage ==
  ASSUME NEW old \in Linkages, NEW new \in Linkages
  PROVE  /\ Raise(old, new) \in Linkages
         /\ old = Unknown => Raise(old, new) = new
         /\ old = new => Raise(old, new) = new
BY DEF Raise, Linkages, Unknown, Exported

-----------------------------------------------------------------------------
(* What adding to the records does *)

LEMMA AddGlobal ==
  ASSUME NEW a \in Records, NEW n \in GlobalNames, NEW l \in Linkages
  PROVE  /\ addGlobal(a, n, l) \in Records
         /\ addGlobal(a, n, l).globals = [a.globals EXCEPT ![n] = Raise(a.globals[n], l)]
         /\ addGlobal(a, n, l).interfaces = a.interfaces
         /\ addGlobal(a, n, l).ivars = a.ivars
         /\ addGlobal(a, n, l).categories = a.categories
<1>1. Raise(a.globals[n], l) \in Linkages
  BY RaiseIsLinkage DEF Records
<1> QED BY <1>1 DEF addGlobal, Records

LEMMA AddInterface ==
  ASSUME NEW a \in Records, NEW n \in GlobalNames, NEW l \in Linkages
  PROVE  /\ addObjCInterface(a, n, l) \in Records
         /\ addObjCInterface(a, n, l).interfaces = [a.interfaces EXCEPT ![n] = Raise(a.interfaces[n], l)]
         /\ addObjCInterface(a, n, l).globals = a.globals
         /\ addObjCInterface(a, n, l).ivars = a.ivars
         /\ addObjCInterface(a, n, l).categories = a.categories
<1>1. Raise(a.interfaces[n], l) \in Linkages
  BY RaiseIsLinkage DEF Records
<1> QED BY <1>1 DEF addObjCInterface, Records

LEMMA AddIvar ==
  ASSUME NEW a \in Records, NEW n \in IvarNames, NEW l \in Linkages
  PROVE  /\ addIvar(a, n, l) \in Records
         /\ addIvar(a, n, l).globals = a.globals
         /\ addIvar(a, n, l).interfaces = a.interfaces
         /\ HasInterface(a, n[2]) => /\ addIvar(a, n, l).ivars = [a.ivars EXCEPT ![n] = l]
                                     /\ addIvar(a, n, l).categories = a.categories
         /\ ~HasInterface(a, n[2]) => /\ addIvar(a, n, l).categories = [a.categories EXCEPT ![n] = l]
                                      /\ addIvar(a, n, l).ivars = a.ivars
BY DEF addIvar, Records

\* An interface has a record once one of its three symbols has been read.
LEMMA InterfaceOfParts ==
  ASSUME NEW a \in Records, NEW c \in Owners
  PROVE  /\ c \in Classes => (HasInterface(a, c) <=> \E n \in Parts(c) : a.interfaces[n] # Unknown)
         /\ c = NoClass => ~HasInterface(a, c)
<1>1. CASE c = NoClass
  BY <1>1, NamesAssumption DEF HasInterface
<1>2. CASE c \in Classes
  <2>1. /\ Class(c) \in GlobalNames /\ MetaClass(c) \in GlobalNames /\ EHType(c) \in GlobalNames
        /\ Parts(c) = {Class(c), MetaClass(c), EHType(c)}
    BY <1>2, NameKinds DEF Parts
  <2>2. /\ a.interfaces[Class(c)] \in Linkages /\ a.interfaces[MetaClass(c)] \in Linkages
        /\ a.interfaces[EHType(c)] \in Linkages
    BY <2>1 DEF Records
  <2>3. Linkage(a, c) # Unknown <=> \/ a.interfaces[Class(c)] # Unknown
                                    \/ a.interfaces[MetaClass(c)] # Unknown
                                    \/ a.interfaces[EHType(c)] # Unknown
    BY <2>2 DEF Linkage, Raise, Linkages, Unknown, Exported
  <2> QED BY <1>2, <2>1, <2>3, NamesAssumption DEF HasInterface
<1> QED BY <1>1, <1>2 DEF Owners

-----------------------------------------------------------------------------
(* Types *)

\* What LibrariesAssumption says of the library that is read.
LibraryOK ==
  /\ entries \in [Names -> {"none", "undefined", "exported", "hidden", "local"}]
  /\ trie \in [Names -> {Unknown, Reexported, Exported}]
  /\ \A i \in Ivars : entries[Ivar(NoClass, i)] = "none"
  /\ \A n \in Names : trie[n] # Unknown => entries[n] \in {"none", "exported"}

Kinds == {"global", "undefined", "class", "ehtype", "ivar"}
SymbolsOK(S) == \A s \in S : s.name \in Names /\ s.kind \in Kinds

LEMMA NamesOf ==
  /\ GlobalNames \subseteq Names /\ IvarNames \subseteq Names
  /\ \A c \in Classes : Class(c) \in Names /\ MetaClass(c) \in Names /\ EHType(c) \in Names
  /\ \A i \in Ivars : Ivar(NoClass, i) \in IvarNames
<1>1. \A c \in Classes : Class(c) \in GlobalNames /\ MetaClass(c) \in GlobalNames /\ EHType(c) \in GlobalNames
  BY DEF GlobalNames, Parts
<1>2. \A i \in Ivars : Ivar(NoClass, i) \in IvarNames
  BY DEF IvarNames, Owners
<1> QED BY <1>1, <1>2 DEF Names

\* What the table and the trie say of a symbol.
LEMMA TableLinkageFacts ==
  ASSUME LibraryOK, NEW n \in Names
  PROVE  /\ TableLinkage(n) \in Linkages /\ trie[n] \in Linkages
         /\ trie[n] # Unknown => TableLinkage(n) \in {Unknown, trie[n]}
         /\ TableLinkage(n) >= Reexported <=> entries[n] = "exported" /\ trie[n] # Unknown
         /\ trie[n] >= Reexported <=> trie[n] # Unknown
         /\ entries[n] = "none" => TableLinkage(n) = Unknown
         /\ TableLinkage(n) \notin {Unknown, Internal, External} <=> TableLinkage(n) >= Reexported
<1>1. trie[n] \in {0, 3, 4} /\ (trie[n] # 0 => entries[n] \in {"none", "exported"})
  BY DEF LibraryOK, Unknown, Reexported, Exported
<1>2. entries[n] \in {"none", "undefined", "exported", "hidden", "local"}
  BY DEF LibraryOK
<1>3. CASE entries[n] = "exported"
  BY <1>1, <1>3 DEF TableLinkage, Linkages, Unknown, Internal, External, Reexported, Exported
<1>4. CASE entries[n] = "undefined"
  BY <1>1, <1>4 DEF TableLinkage, Linkages, Unknown, Internal, External, Reexported, Exported
<1>5. CASE entries[n] = "hidden"
  BY <1>1, <1>5 DEF TableLinkage, Linkages, Unknown, Internal, External, Reexported, Exported
<1>6. CASE entries[n] \in {"none", "local"}
  BY <1>1, <1>6 DEF TableLinkage, Linkages, Unknown, Internal, External, Reexported, Exported
<1> QED BY <1>2, <1>3, <1>4, <1>5, <1>6

LEMMA SymbolsTyped ==
  ASSUME api \in Records
  PROVE  SymbolsOK(Symbols(api))
<1>1. SymbolsOK(visitGlobal(api))
  BY NamesOf DEF SymbolsOK, visitGlobal, Symbol, Kinds
<1>2. SymbolsOK(addIvars(api))
  <2>1. ASSUME NEW n \in IvarNames PROVE n \in Names /\ Ivar(NoClass, n[3]) \in Names
    BY NameKinds, NamesOf
  <2> QED BY <2>1 DEF SymbolsOK, addIvars, Symbol, Kinds
<1>3. ASSUME NEW c \in Classes PROVE SymbolsOK(visitObjCInterface(api, c))
  <2>1. Class(c) \in Names /\ EHType(c) \in Names /\ \A n \in Parts(c) : n \in Names
    BY NamesOf DEF Parts
  <2> QED BY <2>1 DEF SymbolsOK, visitObjCInterface, Symbol, Kinds
<1> QED BY <1>1, <1>2, <1>3 DEF Symbols, SymbolsOK

LEMMA TextAPITyped == TextAPI \in Records
<1>1. Unknown \in Linkages /\ External \in Linkages /\ Exported \in Linkages
  BY DEF Linkages, Unknown, External, Exported
<1> QED BY <1>1 DEF TextAPI, Records

TypeInv ==
  /\ LibraryOK /\ api \in Records /\ SymbolsOK(stub)
  /\ swift \subseteq SwiftNames /\ table \subseteq Names /\ early \subseteq IvarNames
  /\ pc \in {"read", "convert", "written"} /\ source \in {"binary", "text"}

LEMMA TypeInit == Init => TypeInv
<1> SUFFICES ASSUME Init PROVE TypeInv
  OBVIOUS
<1>1. LibraryOK
  BY LibrariesAssumption DEF Init, LibraryOK
<1>2. api \in Records
  BY DEF Init, NoAPI, Records, Linkages, Unknown, Exported
<1> QED BY <1>1, <1>2 DEF Init, TypeInv, SymbolsOK

LEMMA AddFromBinary ==
  ASSUME api \in Records, NEW n \in Names, NEW l \in Linkages, addGlobalFromBinary(n, l)
  PROVE  /\ n[1] = "global" => n \in GlobalNames /\ api' = addGlobal(api, n, l)
         /\ n[1] = "ivar" => n \in IvarNames /\ api' = addIvar(api, n, l)
         /\ n[1] # "global" /\ n[1] # "ivar" => n \in GlobalNames /\ api' = addObjCInterface(api, n, l)
         /\ api' \in Records
<1>1. CASE n[1] = "global"
  BY <1>1, NameKinds, AddGlobal DEF addGlobalFromBinary
<1>2. CASE n[1] = "ivar"
  BY <1>2, NameKinds, AddIvar DEF addGlobalFromBinary
<1>3. CASE n[1] # "global" /\ n[1] # "ivar"
  BY <1>3, NameKinds, AddInterface DEF addGlobalFromBinary
<1> QED BY <1>1, <1>2, <1>3

LEMMA TypeStep == TypeInv /\ [Next]_vars => TypeInv'
<1> SUFFICES ASSUME TypeInv, [Next]_vars PROVE TypeInv'
  OBVIOUS
<1>1. CASE AddSwift
  <2>1. PICK n \in swift : addGlobalFromBinary(n, trie[n])
    BY <1>1 DEF AddSwift
  <2>2. n \in Names /\ trie[n] \in Linkages
    BY TableLinkageFacts, NameKinds, NamesOf DEF TypeInv
  <2>3. api' \in Records
    BY <2>1, <2>2, AddFromBinary DEF TypeInv
  <2> QED BY <1>1, <2>3 DEF AddSwift, TypeInv, LibraryOK, library
<1>2. CASE ReadSymbol
  <2>1. PICK n \in table :
          /\ IF TableLinkage(n) = Unknown THEN UNCHANGED api
             ELSE addGlobalFromBinary(n, TableLinkage(n))
          /\ early' = IF n[1] = "ivar" /\ \A part \in Parts(n[2]) : ~Read(part)
                      THEN early \cup {n} ELSE early
          /\ table' = table \ {n}
    BY <1>2 DEF ReadSymbol
  <2>2. n \in Names /\ TableLinkage(n) \in Linkages
    BY TableLinkageFacts DEF TypeInv
  <2>3. api' \in Records
    BY <2>1, <2>2, AddFromBinary DEF TypeInv
  <2>4. early' \subseteq IvarNames
    BY <2>1, <2>2, NameKinds DEF TypeInv
  <2> QED BY <1>2, <2>1, <2>3, <2>4 DEF ReadSymbol, TypeInv, LibraryOK, library
<1>3. CASE EndOfTable
  BY <1>3 DEF EndOfTable, TypeInv, LibraryOK, library
<1>4. CASE Convert
  <2>1. SymbolsOK(stub')
    BY <1>4, SymbolsTyped DEF Convert, TypeInv
  <2> QED BY <1>4, <2>1 DEF Convert, TypeInv, LibraryOK, library
<1>5. CASE ReadText
  <2>1. api' \in Records
    BY <1>5, TextAPITyped DEF ReadText
  <2> QED BY <1>5, <2>1 DEF ReadText, TypeInv, LibraryOK, library
<1>6. CASE UNCHANGED vars
  BY <1>6 DEF vars, TypeInv, LibraryOK, library
<1> QED BY <1>1, <1>2, <1>3, <1>4, <1>5, <1>6 DEF Next

\* Records and stubs keep their types through reading, converting and reading back.
THEOREM TypeCorrect == Spec => []TypeOK
<1>1. TypeInv => TypeOK
  BY DEF TypeInv, TypeOK, Records, SymbolsOK, Kinds
<1> QED BY <1>1, TypeInit, TypeStep, PTL DEF Spec

-----------------------------------------------------------------------------
(* What the records say of the symbols read so far *)

Listed(n) == IF n \in table THEN Unknown ELSE TableLinkage(n)
Added(n) == n \in SwiftNames /\ n \notin swift /\ trie[n] # Unknown

GlobalsMatch ==
  \A n \in GlobalNames :
    api.globals[n] = CASE n[1] = "global" /\ Added(n) -> trie[n]
                       [] n[1] = "global" /\ ~Added(n) -> Listed(n)
                       [] n[1] # "global" -> Unknown
InterfacesMatch ==
  \A n \in GlobalNames : api.interfaces[n] = IF n[1] = "global" THEN Unknown ELSE Listed(n)

\* An ivar is in the category exactly when it was early.
IvarsMatch ==
  \A n \in IvarNames :
    /\ n \in early => api.categories[n] = Listed(n) /\ api.ivars[n] = Unknown /\ n \notin table
    /\ n \notin early => /\ api.ivars[n] = Listed(n) /\ api.categories[n] = Unknown
                         /\ Listed(n) # Unknown => HasInterface(api, n[2])

Match ==
  source = "binary" =>
    /\ GlobalsMatch /\ InterfacesMatch /\ IvarsMatch
    /\ \A n \in swift : trie[n] # Unknown
    /\ pc # "read" => swift = {} /\ table = {}
    /\ pc = "written" => stub = Symbols(api)

\* An interface has a record exactly when one of its symbols has been read.
LEMMA InterfaceRead ==
  ASSUME TypeInv, InterfacesMatch, NEW c \in Classes
  PROVE  HasInterface(api, c) <=> \E part \in Parts(c) : Read(part)
<1>1. HasInterface(api, c) <=> \E n \in Parts(c) : api.interfaces[n] # Unknown
  BY InterfaceOfParts DEF TypeInv, Owners
<1>2. ASSUME NEW n \in Parts(c) PROVE api.interfaces[n] # Unknown <=> Read(n)
  <2>1. api.interfaces[n] = Listed(n)
    BY NameKinds DEF InterfacesMatch
  <2> QED BY <2>1 DEF Listed, Read
<1> QED BY <1>1, <1>2

LEMMA MatchInit == Init => Match
<1> SUFFICES ASSUME Init PROVE Match
  OBVIOUS
<1>1. LibraryOK
  BY TypeInit DEF TypeInv
<1>2. ASSUME NEW n \in Names PROVE Listed(n) = Unknown
  BY <1>1, TableLinkageFacts DEF Init, Listed
<1>3. \A n \in GlobalNames : api.globals[n] = Unknown /\ api.interfaces[n] = Unknown /\ ~Added(n)
  BY DEF Init, NoAPI, Added
<1>4. GlobalsMatch /\ InterfacesMatch
  BY <1>2, <1>3, NamesOf DEF GlobalsMatch, InterfacesMatch
<1>5. \A n \in IvarNames : api.ivars[n] = Unknown /\ api.categories[n] = Unknown /\ n \notin early
  BY DEF Init, NoAPI
<1>6. IvarsMatch
  BY <1>2, <1>5, NamesOf DEF IvarsMatch
<1> QED BY <1>4, <1>6 DEF Match, Init

LEMMA MatchAddSwift == TypeInv /\ Match /\ AddSwift => Match'
<1> SUFFICES ASSUME TypeInv, Match, AddSwift PROVE Match'
  OBVIOUS
<1>0. SUFFICES ASSUME source = "binary"
               PROVE  /\ GlobalsMatch' /\ InterfacesMatch' /\ IvarsMatch' /\ pc' = "read"
                      /\ \A n \in swift' : trie[n] # Unknown
  BY DEF Match, AddSwift, library
<1>1. PICK n \in swift : addGlobalFromBinary(n, trie[n]) /\ swift' = swift \ {n}
  BY DEF AddSwift
<1>2. GlobalsMatch /\ InterfacesMatch /\ IvarsMatch /\ trie[n] # Unknown
  BY <1>0 DEF Match
<1>3. n \in GlobalNames /\ n \in Names /\ n[1] = "global" /\ n \in SwiftNames
  BY NameKinds, NamesOf DEF TypeInv
<1>4. trie[n] \in Linkages /\ TableLinkage(n) \in {Unknown, trie[n]}
  BY <1>2, <1>3, TableLinkageFacts DEF TypeInv
<1>5. api' = addGlobal(api, n, trie[n])
  BY <1>1, <1>3, <1>4, AddFromBinary DEF TypeInv
<1>6. /\ api'.globals = [api.globals EXCEPT ![n] = Raise(api.globals[n], trie[n])]
      /\ api'.interfaces = api.interfaces /\ api'.ivars = api.ivars
      /\ api'.categories = api.categories
  BY <1>3, <1>4, <1>5, AddGlobal DEF TypeInv
<1>7. Raise(api.globals[n], trie[n]) = trie[n]
  <2>1. api.globals[n] = Listed(n)
    BY <1>1, <1>2, <1>3 DEF GlobalsMatch, Added
  <2>2. api.globals[n] \in {Unknown, trie[n]} /\ api.globals[n] \in Linkages
    BY <2>1, <1>3, <1>4 DEF Listed, TypeInv, Records
  <2> QED BY <2>2, <1>4, RaiseIsLinkage
<1>8. /\ UNCHANGED <<entries, trie, table, early, pc>>
      /\ \A m : Listed(m)' = Listed(m)
  BY DEF AddSwift, library, Listed, TableLinkage
<1>9. GlobalsMatch'
  <2> SUFFICES ASSUME NEW m \in GlobalNames
               PROVE  api'.globals[m] = CASE m[1] = "global" /\ Added(m)' -> trie[m]
                                          [] m[1] = "global" /\ ~Added(m)' -> Listed(m)
                                          [] m[1] # "global" -> Unknown
    BY <1>8 DEF GlobalsMatch
  <2>1. CASE m = n
    <3>1. api'.globals[n] = trie[n]
      BY <1>3, <1>6, <1>7 DEF TypeInv, Records
    <3>2. Added(n)'
      BY <1>1, <1>2, <1>3, <1>8 DEF Added
    <3> QED BY <2>1, <3>1, <3>2, <1>3
  <2>2. CASE m # n
    <3>1. api'.globals[m] = api.globals[m]
      BY <2>2, <1>6 DEF TypeInv, Records
    <3>2. Added(m)' <=> Added(m)
      BY <2>2, <1>1, <1>8 DEF Added
    <3> QED BY <3>1, <3>2, <1>2 DEF GlobalsMatch
  <2> QED BY <2>1, <2>2
<1>10. InterfacesMatch'
  BY <1>2, <1>6, <1>8 DEF InterfacesMatch
<1>11. IvarsMatch'
  <2>1. \A c : HasInterface(api', c) <=> HasInterface(api, c)
    BY <1>6 DEF HasInterface, Linkage
  <2> QED BY <2>1, <1>2, <1>6, <1>8 DEF IvarsMatch
<1> QED BY <1>1, <1>0, <1>8, <1>9, <1>10, <1>11 DEF Match, AddSwift

\* What reading one symbol of the table does to the records, by the kind of the symbol.
LEMMA ReadOne ==
  ASSUME TypeInv, NEW n \in table, n \in Names, TableLinkage(n) # Unknown,
         addGlobalFromBinary(n, TableLinkage(n)), GlobalsMatch, InterfacesMatch, IvarsMatch
  PROVE  /\ n[1] = "global" =>
              /\ n \in GlobalNames /\ api'.globals = [api.globals EXCEPT ![n] = TableLinkage(n)]
              /\ api'.interfaces = api.interfaces /\ api'.ivars = api.ivars
              /\ api'.categories = api.categories
         /\ n[1] # "global" /\ n[1] # "ivar" =>
              /\ n \in GlobalNames /\ api'.interfaces = [api.interfaces EXCEPT ![n] = TableLinkage(n)]
              /\ api'.globals = api.globals /\ api'.ivars = api.ivars
              /\ api'.categories = api.categories
         /\ n[1] = "ivar" =>
              /\ n \in IvarNames /\ api'.globals = api.globals /\ api'.interfaces = api.interfaces
              /\ HasInterface(api, n[2]) =>
                   /\ api'.ivars = [api.ivars EXCEPT ![n] = TableLinkage(n)]
                   /\ api'.categories = api.categories
              /\ ~HasInterface(api, n[2]) =>
                   /\ api'.categories = [api.categories EXCEPT ![n] = TableLinkage(n)]
                   /\ api'.ivars = api.ivars
<1>1. /\ TableLinkage(n) \in Linkages /\ trie[n] \in Linkages
      /\ trie[n] # Unknown => TableLinkage(n) \in {Unknown, trie[n]}
  BY TableLinkageFacts DEF TypeInv
<1>2. api \in Records
  BY DEF TypeInv
<1>3. CASE n[1] = "global"
  <2>1. n \in GlobalNames /\ api' = addGlobal(api, n, TableLinkage(n))
    BY <1>1, <1>2, <1>3, AddFromBinary
  <2>2. api.globals[n] \in Linkages /\ api.globals[n] \in {Unknown, TableLinkage(n)}
    <3>1. CASE Added(n)
      BY <3>1, <2>1, <1>1, <1>2, <1>3 DEF GlobalsMatch, Added, Records
    <3>2. CASE ~Added(n)
      BY <3>2, <2>1, <1>2, <1>3 DEF GlobalsMatch, Listed, Records
    <3> QED BY <3>1, <3>2
  <2>3. Raise(api.globals[n], TableLinkage(n)) = TableLinkage(n)
    BY <2>2, <1>1, RaiseIsLinkage
  <2> QED BY <2>1, <2>3, <1>1, <1>2, <1>3, AddGlobal
<1>4. CASE n[1] # "global" /\ n[1] # "ivar"
  <2>1. n \in GlobalNames /\ api' = addObjCInterface(api, n, TableLinkage(n))
    BY <1>1, <1>2, <1>4, AddFromBinary
  <2>2. api.interfaces[n] \in Linkages /\ api.interfaces[n] = Unknown
    BY <2>1, <1>2, <1>4 DEF InterfacesMatch, Listed, Records
  <2>3. Raise(api.interfaces[n], TableLinkage(n)) = TableLinkage(n)
    BY <2>2, <1>1, RaiseIsLinkage
  <2> QED BY <2>1, <2>3, <1>1, <1>2, <1>4, AddInterface
<1>5. CASE n[1] = "ivar"
  <2>1. n \in IvarNames /\ api' = addIvar(api, n, TableLinkage(n))
    BY <1>1, <1>2, <1>5, AddFromBinary
  <2> QED BY <2>1, <1>1, <1>2, <1>5, AddIvar
<1> QED BY <1>3, <1>4, <1>5

LEMMA MatchReadSymbol == TypeInv /\ Match /\ ReadSymbol => Match'
<1> SUFFICES ASSUME TypeInv, Match, ReadSymbol PROVE Match'
  OBVIOUS
<1>0. SUFFICES ASSUME source = "binary"
               PROVE  GlobalsMatch' /\ InterfacesMatch' /\ IvarsMatch'
  BY DEF Match, ReadSymbol, library
<1>1. PICK n \in table :
        /\ IF TableLinkage(n) = Unknown THEN UNCHANGED api
           ELSE addGlobalFromBinary(n, TableLinkage(n))
        /\ table' = table \ {n}
        /\ early' = IF n[1] = "ivar" /\ \A part \in Parts(n[2]) : ~Read(part)
                    THEN early \cup {n} ELSE early
  BY DEF ReadSymbol
<1>2. GlobalsMatch /\ InterfacesMatch /\ IvarsMatch
  BY <1>0 DEF Match
<1>3. n \in Names /\ n \notin early
  BY <1>1, <1>2 DEF TypeInv, IvarsMatch
<1>4. UNCHANGED <<entries, trie, swift>>
  BY DEF ReadSymbol, library
<1>5. \A m : Listed(m)' = IF m = n THEN TableLinkage(n) ELSE Listed(m)
  BY <1>1, <1>4 DEF Listed, TableLinkage
<1>6. \A m : Added(m)' <=> Added(m)
  BY <1>4 DEF Added
<1>7. Listed(n) = Unknown
  BY <1>1 DEF Listed
<1>8. CASE TableLinkage(n) = Unknown
  <2>1. api' = api /\ \A m : Listed(m)' = Listed(m)
    BY <1>1, <1>5, <1>7, <1>8
  <2>2. GlobalsMatch'
    BY <2>1, <1>2, <1>4, <1>6 DEF GlobalsMatch
  <2>3. InterfacesMatch'
    BY <2>1, <1>2 DEF InterfacesMatch
  <2>4. ASSUME NEW m \in IvarNames
        PROVE  /\ m \in early' => api.categories[m] = Listed(m) /\ api.ivars[m] = Unknown /\ m \notin table'
               /\ m \notin early' => /\ api.ivars[m] = Listed(m) /\ api.categories[m] = Unknown
                                     /\ Listed(m) # Unknown => HasInterface(api, m[2])
    <3>1. CASE m = n
      BY <3>1, <1>1, <1>2, <1>3, <1>7 DEF IvarsMatch
    <3>2. CASE m # n
      BY <3>2, <1>1, <1>2 DEF IvarsMatch
    <3> QED BY <3>1, <3>2
  <2>5. \A c : HasInterface(api, c)' <=> HasInterface(api, c)
    BY <2>1 DEF HasInterface, Linkage
  <2>6. IvarsMatch'
    BY <2>1, <2>4, <2>5 DEF IvarsMatch
  <2> QED BY <2>2, <2>3, <2>6
<1>9. CASE TableLinkage(n) # Unknown
  <2>0. addGlobalFromBinary(n, TableLinkage(n)) /\ api \in Records /\ TableLinkage(n) \in Linkages
    BY <1>1, <1>3, <1>9, TableLinkageFacts DEF TypeInv
  <2>1. CASE n[1] = "global"
    <3>1. /\ n \in GlobalNames /\ api'.globals = [api.globals EXCEPT ![n] = TableLinkage(n)]
          /\ api'.interfaces = api.interfaces /\ api'.ivars = api.ivars
          /\ api'.categories = api.categories
      BY <2>0, <2>1, <1>2, <1>3, <1>9, ReadOne
    <3>2. early' = early
      BY <2>1, <1>1
    <3>3. ASSUME NEW m \in GlobalNames
          PROVE  api'.globals[m] = CASE m[1] = "global" /\ Added(m) -> trie[m]
                                     [] m[1] = "global" /\ ~Added(m) -> Listed(m)'
                                     [] m[1] # "global" -> Unknown
      <4>1. CASE m = n
        <5>1. api'.globals[m] = TableLinkage(n)
          BY <4>1, <3>1, <2>0 DEF Records
        <5>2. Added(n) => TableLinkage(n) = trie[n]
          BY <1>3, <1>9, TableLinkageFacts DEF Added, TypeInv
        <5> QED BY <5>1, <5>2, <4>1, <2>1, <1>5
      <4>2. CASE m # n
        <5>1. api'.globals[m] = api.globals[m] /\ Listed(m)' = Listed(m)
          BY <4>2, <3>1, <2>0, <1>5 DEF Records
        <5> QED BY <5>1, <1>2 DEF GlobalsMatch
      <4> QED BY <4>1, <4>2
    <3>4. GlobalsMatch'
      BY <3>3, <1>4, <1>6 DEF GlobalsMatch
    <3>5. InterfacesMatch'
      BY <3>1, <2>1, <1>2, <1>5 DEF InterfacesMatch
    <3>6. \A m \in IvarNames : m # n
      BY <2>1, NameKinds
    <3>7. \A c : HasInterface(api, c)' <=> HasInterface(api, c)
      BY <3>1 DEF HasInterface, Linkage
    <3>8. \A m \in IvarNames : Listed(m)' = Listed(m) /\ (m \in table' <=> m \in table)
      BY <3>6, <1>1, <1>5
    <3>9. IvarsMatch'
      BY <3>1, <3>2, <3>7, <3>8, <1>2 DEF IvarsMatch
    <3> QED BY <3>4, <3>5, <3>9
  <2>2. CASE n[1] # "global" /\ n[1] # "ivar"
    <3>1. /\ n \in GlobalNames /\ api'.interfaces = [api.interfaces EXCEPT ![n] = TableLinkage(n)]
          /\ api'.globals = api.globals /\ api'.ivars = api.ivars
          /\ api'.categories = api.categories
      BY <2>0, <2>2, <1>2, <1>3, <1>9, ReadOne
    <3>2. early' = early
      BY <2>2, <1>1
    <3>3. GlobalsMatch'
      BY <3>1, <2>2, <1>2, <1>4, <1>5, <1>6 DEF GlobalsMatch
    <3>4. ASSUME NEW m \in GlobalNames
          PROVE  api'.interfaces[m] = IF m[1] = "global" THEN Unknown ELSE Listed(m)'
      <4>1. CASE m = n
        BY <4>1, <3>1, <2>0, <2>2, <1>5 DEF Records
      <4>2. CASE m # n
        <5>1. api'.interfaces[m] = api.interfaces[m] /\ Listed(m)' = Listed(m)
          BY <4>2, <3>1, <2>0, <1>5 DEF Records
        <5> QED BY <5>1, <1>2 DEF InterfacesMatch
      <4> QED BY <4>1, <4>2
    <3>5. InterfacesMatch'
      BY <3>4 DEF InterfacesMatch
    <3>6. \A m \in IvarNames : m # n
      BY <2>2, NameKinds
    <3>7. ASSUME NEW c \in Owners, HasInterface(api, c) PROVE HasInterface(api', c)
      <4>0. c \in Classes /\ api' \in Records
        BY <3>7, <2>0, <1>3, InterfaceOfParts, AddFromBinary DEF Owners
      <4>1. PICK part \in Parts(c) : api.interfaces[part] # Unknown
        BY <3>7, <4>0, <2>0, InterfaceOfParts
      <4>2. part \in GlobalNames
        BY <4>0, NameKinds
      <4>3. api'.interfaces[part] # Unknown
        BY <4>1, <4>2, <3>1, <2>0, <1>9 DEF Records
      <4> QED BY <4>0, <4>1, <4>3, InterfaceOfParts
    <3>8. \A m \in IvarNames : /\ Listed(m)' = Listed(m) /\ (m \in table' <=> m \in table)
                               /\ m[2] \in Owners
      BY <3>6, <1>1, <1>5, NameKinds
    <3>9. \A c : HasInterface(api, c)' <=> HasInterface(api', c)
      BY DEF HasInterface, Linkage
    <3>10. IvarsMatch'
      BY <3>1, <3>2, <3>7, <3>8, <3>9, <1>2 DEF IvarsMatch
    <3> QED BY <3>3, <3>5, <3>10
  <2>3. CASE n[1] = "ivar"
    <3>1. /\ n \in IvarNames /\ api'.globals = api.globals /\ api'.interfaces = api.interfaces
          /\ HasInterface(api, n[2]) =>
               /\ api'.ivars = [api.ivars EXCEPT ![n] = TableLinkage(n)]
               /\ api'.categories = api.categories
          /\ ~HasInterface(api, n[2]) =>
               /\ api'.categories = [api.categories EXCEPT ![n] = TableLinkage(n)]
               /\ api'.ivars = api.ivars
      BY <2>0, <2>3, <1>2, <1>3, <1>9, ReadOne
    <3>2. n[2] \in Classes
      <4>1. n[2] \in Owners /\ n[3] \in Ivars /\ n = Ivar(n[2], n[3])
        BY <3>1, NameKinds
      <4>2. n[2] # NoClass
        BY <4>1, <1>3, <1>9, TableLinkageFacts DEF TypeInv, LibraryOK
      <4> QED BY <4>1, <4>2 DEF Owners
    <3>3. HasInterface(api, n[2]) <=> n \notin early'
      BY <3>2, <2>3, <1>1, <1>2, <1>3, InterfaceRead
    <3>4. \A m \in GlobalNames : m # n /\ Listed(m)' = Listed(m)
      BY <2>3, <1>5, NameKinds
    <3>5. GlobalsMatch'
      BY <3>1, <3>4, <1>2, <1>4, <1>6 DEF GlobalsMatch
    <3>6. InterfacesMatch'
      BY <3>1, <3>4, <1>2 DEF InterfacesMatch
    <3>7. \A c : HasInterface(api, c)' <=> HasInterface(api, c)
      BY <3>1 DEF HasInterface, Linkage
    <3>8. ASSUME NEW m \in IvarNames
          PROVE  /\ m \in early' => /\ api'.categories[m] = Listed(m)' /\ api'.ivars[m] = Unknown
                                    /\ m \notin table'
                 /\ m \notin early' => /\ api'.ivars[m] = Listed(m)' /\ api'.categories[m] = Unknown
                                       /\ Listed(m)' # Unknown => HasInterface(api, m[2])
      <4>1. CASE m = n
        <5>1. api.ivars[n] = Unknown /\ api.categories[n] = Unknown
          BY <3>1, <1>2, <1>3, <1>7 DEF IvarsMatch
        <5>2. /\ HasInterface(api, n[2]) => api'.ivars[n] = TableLinkage(n) /\ api'.categories[n] = Unknown
              /\ ~HasInterface(api, n[2]) => api'.categories[n] = TableLinkage(n) /\ api'.ivars[n] = Unknown
          BY <5>1, <3>1, <2>0 DEF Records
        <5>3. Listed(n)' = TableLinkage(n) /\ n \notin table'
          BY <1>1, <1>5
        <5> QED BY <5>2, <5>3, <4>1, <3>3
      <4>2. CASE m # n
        <5>1. api'.ivars[m] = api.ivars[m] /\ api'.categories[m] = api.categories[m]
          BY <4>2, <3>1, <2>0 DEF Records
        <5>2. Listed(m)' = Listed(m) /\ (m \in early' <=> m \in early) /\ (m \in table' <=> m \in table)
          BY <4>2, <1>1, <1>5
        <5> QED BY <5>1, <5>2, <1>2 DEF IvarsMatch
      <4> QED BY <4>1, <4>2
    <3>9. IvarsMatch'
      BY <3>7, <3>8 DEF IvarsMatch
    <3> QED BY <3>5, <3>6, <3>9
  <2> QED BY <2>1, <2>2, <2>3
<1> QED BY <1>8, <1>9

LEMMA MatchStep == TypeInv /\ Match /\ [Next]_vars => Match'
<1> SUFFICES ASSUME TypeInv, Match, [Next]_vars PROVE Match'
  OBVIOUS
<1>1. CASE AddSwift
  BY <1>1, MatchAddSwift
<1>2. CASE ReadSymbol
  BY <1>2, MatchReadSymbol
<1>3. CASE EndOfTable \/ Convert \/ UNCHANGED vars
  <2> SUFFICES ASSUME source = "binary" PROVE Match'
    BY <1>3 DEF Match, EndOfTable, Convert, vars
  <2>1. UNCHANGED <<library, swift, table, api, early>>
    BY <1>3 DEF EndOfTable, Convert, vars
  <2>2. (\A m : Listed(m)' = Listed(m)) /\ (\A m : Added(m)' <=> Added(m))
    BY <2>1 DEF Listed, TableLinkage, Added, library
  <2>3. \A c : HasInterface(api, c)' <=> HasInterface(api, c)
    BY <2>1 DEF HasInterface, Linkage
  <2>4. GlobalsMatch' /\ InterfacesMatch'
    BY <2>1, <2>2 DEF Match, GlobalsMatch, InterfacesMatch, library
  <2>5. IvarsMatch'
    BY <2>1, <2>2, <2>3 DEF Match, IvarsMatch
  <2>6. /\ \A n \in swift' : trie'[n] # Unknown
        /\ pc' # "read" => swift' = {} /\ table' = {}
    BY <1>3, <2>1 DEF Match, EndOfTable, Convert, vars, library
  <2>7. pc' = "written" => stub' = Symbols(api)'
    BY <1>3, <2>1 DEF Match, EndOfTable, Convert, vars, library, Symbols, visitGlobal, addIvars,
                      visitObjCInterface, RecordLinkage, Linkage, isCompleteInterface, hasExceptionAttribute
  <2> QED BY <2>4, <2>5, <2>6, <2>7 DEF Match
<1>4. CASE ReadText
  BY <1>4 DEF ReadText, Match
<1> QED BY <1>1, <1>2, <1>3, <1>4 DEF Next

LEMMA Invariants == Spec => [](TypeInv /\ Match)
BY TypeInit, MatchInit, TypeStep, MatchStep, PTL DEF Spec

\* findIVar finds every ivar that was read, in whatever order the table lists it and its
\* class, unless it came before the class.
THEOREM IvarsAreFound == Spec => []IvarsFound
<1>1. ASSUME TypeInv, Match PROVE IvarsFound
  <2> SUFFICES ASSUME pc = "convert", source = "binary", NEW n \in IvarNames, Read(n),
                      n \in early => ~HasInterface(api, n[2])
               PROVE  findIVar(api, n) = TableLinkage(n)
    BY DEF IvarsFound
  <2>1. IvarsMatch /\ Listed(n) = TableLinkage(n) /\ Listed(n) # Unknown
    BY <1>1 DEF Match, Listed, Read
  <2> QED BY <2>1 DEF IvarsMatch, findIVar
<1> QED BY <1>1, Invariants, PTL

-----------------------------------------------------------------------------
(* From the records to the stub *)

\* Once the stub of a binary is written, the records that become symbols are those of
\* what it exports and readSymbols does not drop.
LEMMA ExportedRecords ==
  ASSUME TypeInv, Match, pc = "written", source = "binary"
  PROVE  /\ stub = Symbols(api)
         /\ \A n \in GlobalNames : n[1] = "global" => (api.globals[n] >= Reexported <=> Carried(n))
         /\ \A n \in GlobalNames : n[1] # "global" =>
              /\ api.globals[n] = Unknown /\ api.interfaces[n] = TableLinkage(n)
              /\ api.interfaces[n] >= Reexported <=> Carried(n)
         /\ \A n \in IvarNames : /\ api.ivars[n] >= Reexported <=> Carried(n) /\ n \notin early
                                 /\ api.categories[n] >= Reexported <=> Carried(n) /\ n \in early
<1>1. /\ GlobalsMatch /\ InterfacesMatch /\ IvarsMatch /\ stub = Symbols(api)
      /\ \A n : Listed(n) = TableLinkage(n)
      /\ \A n : Added(n) <=> n \in SwiftNames /\ trie[n] # Unknown
  BY DEF Match, Listed, Added
<1>2. ~(Unknown >= Reexported)
  BY DEF Unknown, Reexported
<1>3. \A n \in Names : n \notin SwiftNames => (TableLinkage(n) >= Reexported <=> Carried(n))
  BY TableLinkageFacts DEF TypeInv, Carried, IsExported, TrieOnly
<1>4. ASSUME NEW n \in GlobalNames, n[1] = "global"
      PROVE  api.globals[n] >= Reexported <=> Carried(n)
  <2>1. CASE Added(n)
    <3>1. trie[n] >= Reexported
      BY <1>1, <2>1, NamesOf, TableLinkageFacts DEF TypeInv
    <3> QED BY <3>1, <2>1, <1>1, <1>4 DEF GlobalsMatch, Carried, IsExported, TrieOnly
  <2>2. CASE ~Added(n) /\ n \notin SwiftNames
    BY <2>2, <1>1, <1>3, <1>4, NamesOf DEF GlobalsMatch
  <2>3. CASE ~Added(n) /\ n \in SwiftNames
    <3>1. trie[n] = Unknown
      BY <2>3, <1>1
    <3>2. ~(TableLinkage(n) >= Reexported)
      BY <3>1, NamesOf, TableLinkageFacts DEF TypeInv
    <3> QED BY <3>1, <3>2, <2>3, <1>1, <1>4 DEF GlobalsMatch, Carried, IsExported, TrieOnly
  <2> QED BY <2>1, <2>2, <2>3
<1>5. ASSUME NEW n \in GlobalNames, n[1] # "global"
      PROVE  /\ api.globals[n] = Unknown /\ api.interfaces[n] = TableLinkage(n)
             /\ api.interfaces[n] >= Reexported <=> Carried(n)
  <2>1. n \in Names /\ n \notin SwiftNames
    BY <1>5, NamesOf, NameKinds
  <2>2. api.globals[n] = Unknown
    BY <1>1, <1>5 DEF GlobalsMatch
  <2>3. api.interfaces[n] = TableLinkage(n)
    BY <1>1, <1>5 DEF InterfacesMatch
  <2> QED BY <2>1, <2>2, <2>3, <1>3
<1>6. ASSUME NEW n \in IvarNames
      PROVE  /\ api.ivars[n] >= Reexported <=> Carried(n) /\ n \notin early
             /\ api.categories[n] >= Reexported <=> Carried(n) /\ n \in early
  <2>1. n \in Names /\ n \notin SwiftNames
    BY NamesOf, NameKinds
  <2>2. TableLinkage(n) >= Reexported <=> Carried(n)
    BY <2>1, <1>3
  <2>3. CASE n \in early
    BY <2>2, <2>3, <1>1, <1>2 DEF IvarsMatch
  <2>4. CASE n \notin early
    BY <2>2, <2>4, <1>1, <1>2 DEF IvarsMatch
  <2> QED BY <2>3, <2>4
<1> QED BY <1>1, <1>4, <1>5, <1>6

LEMMA ExportedIvars ==
  ASSUME TypeInv, Match, pc = "written", source = "binary", NEW n \in IvarNames
  PROVE  /\ api.ivars[n] >= Reexported => Carried(n)
         /\ Carried(n) /\ n \notin early => api.ivars[n] >= Reexported
         /\ api.categories[n] >= Reexported => Carried(n) /\ n \in early
<1>1. \A m \in IvarNames : /\ api.ivars[m] >= Reexported <=> Carried(m) /\ m \notin early
                           /\ api.categories[m] >= Reexported <=> Carried(m) /\ m \in early
  BY ExportedRecords, Zenon
<1> QED BY <1>1, Zenon

\* The linkage of an interface is that of its most visible symbol.
LEMMA LinkageOfParts ==
  ASSUME NEW a \in Records, NEW c \in Classes
  PROVE  RecordLinkage(a, c) >= Reexported <=> \E n \in Parts(c) : a.interfaces[n] >= Reexported
<1>1. Class(c) \in GlobalNames /\ MetaClass(c) \in GlobalNames /\ EHType(c) \in GlobalNames
  BY NameKinds DEF Parts
<1>2. /\ a.interfaces[Class(c)] \in Linkages /\ a.interfaces[MetaClass(c)] \in Linkages
      /\ a.interfaces[EHType(c)] \in Linkages
  BY <1>1 DEF Records
<1>3. RecordLinkage(a, c) >= Reexported <=> \/ a.interfaces[Class(c)] >= Reexported
                                            \/ a.interfaces[MetaClass(c)] >= Reexported
                                            \/ a.interfaces[EHType(c)] >= Reexported
  BY <1>2 DEF RecordLinkage, Linkage, Raise, Linkages, Unknown, Reexported, Exported
<1> QED BY <1>3 DEF Parts

\* The symbols of a class in the stub.
LEMMA ClassSymbols ==
  ASSUME NEW a \in Records, NEW c \in Classes
  PROVE  /\ isCompleteInterface(a, c) =>
              visitObjCInterface(a, c) = {Symbol("class", Class(c))} \cup
                (IF hasExceptionAttribute(a, c) THEN {Symbol("ehtype", EHType(c))} ELSE {})
         /\ ~isCompleteInterface(a, c) =>
              visitObjCInterface(a, c) = {Symbol("global", n) : n \in {m \in Parts(c) : a.interfaces[m] >= Reexported}}
<1>1. RecordLinkage(a, c) \in Nat
  <2>1. Class(c) \in GlobalNames /\ MetaClass(c) \in GlobalNames /\ EHType(c) \in GlobalNames
    BY NameKinds DEF Parts
  <2>2. /\ a.interfaces[Class(c)] \in Nat /\ a.interfaces[MetaClass(c)] \in Nat
        /\ a.interfaces[EHType(c)] \in Nat
    BY <2>1 DEF Records, Linkages, Unknown, Exported
  <2> QED BY <2>2 DEF RecordLinkage, Linkage, Raise
<1>2. Reexported = 3
  BY DEF Reexported
<1>3. RecordLinkage(a, c) < Reexported <=> ~(RecordLinkage(a, c) >= Reexported)
  BY <1>1, <1>2
<1>4. CASE isCompleteInterface(a, c)
  <2>1. RecordLinkage(a, c) >= Reexported
    BY <1>4, LinkageOfParts DEF isCompleteInterface, Parts
  <2> QED BY <2>1, <1>3, <1>4 DEF visitObjCInterface
<1>5. CASE ~isCompleteInterface(a, c)
  <2>1. CASE RecordLinkage(a, c) >= Reexported
    BY <2>1, <1>3, <1>5 DEF visitObjCInterface
  <2>2. CASE RecordLinkage(a, c) < Reexported
    <3>1. {m \in Parts(c) : a.interfaces[m] >= Reexported} = {}
      BY <2>2, <1>3, LinkageOfParts
    <3>2. visitObjCInterface(a, c) = {}
      BY <2>2, <1>5 DEF visitObjCInterface
    <3> QED BY <3>1, <3>2, <1>5
  <2>3. RecordLinkage(a, c) >= Reexported \/ RecordLinkage(a, c) < Reexported
    BY <1>3
  <2> QED BY <2>1, <2>2, <2>3
<1> QED BY <1>4, <1>5

\* Every symbol that the library exports is in its stub, for every order in which the
\* symbol table can be read, but for the ivars that come before their class and the
\* symbols, other than those of Swift, that only the exports trie lists.
THEOREM Completeness == Spec => []StubIsComplete
<1>1. ASSUME TypeInv, Match PROVE StubIsComplete
  <2> SUFFICES ASSUME pc = "written", source = "binary", NEW n \in Names, Carried(n), n \notin early
               PROVE  n \in Provided
    BY DEF StubIsComplete, Carried
  <2>1. api \in Records /\ stub = Symbols(api)
    BY <1>1, ExportedRecords DEF TypeInv
  <2>2. ASSUME NEW kind, kind # "undefined", Symbol(kind, n) \in stub PROVE n \in Provided
    BY <2>2 DEF Provided, Symbol
  <2>3. CASE n[1] = "global"
    <3>1. n \in GlobalNames /\ api.globals[n] >= Reexported
      BY <2>3, <1>1, NameKinds, ExportedRecords
    <3>2. Symbol("global", n) \in stub
      BY <3>1, <2>1 DEF Symbols, visitGlobal
    <3> QED BY <3>2, <2>2
  <2>4. CASE n[1] = "ivar"
    <3>0. n \in IvarNames
      BY <2>4, NameKinds
    <3>1. api.ivars[n] >= Reexported
      BY <3>0, <1>1, ExportedIvars
    <3>2. Symbol("ivar", n) \in stub
      BY <3>0, <3>1, <2>1 DEF Symbols, addIvars
    <3> QED BY <3>2, <2>2
  <2>5. CASE n[1] # "global" /\ n[1] # "ivar"
    <3>1. n \in GlobalNames /\ api.interfaces[n] >= Reexported
      BY <2>5, <1>1, NameKinds, ExportedRecords
    <3>2. PICK c \in Classes : n \in Parts(c)
      <4>1. \A g \in Globals : Global(g)[1] = "global"
        BY DEF Global
      <4> QED BY <4>1, <3>1, <2>5 DEF GlobalNames
    <3>3. visitObjCInterface(api, c) \subseteq stub
      BY <2>1 DEF Symbols
    <3>4. CASE isCompleteInterface(api, c)
      <4>1. Symbol("class", Class(c)) \in stub
        BY <3>3, <3>4, <2>1, ClassSymbols
      <4>2. CASE n = Class(c)
        BY <4>1, <4>2, <2>2
      <4>3. CASE n = MetaClass(c)
        BY <4>1, <4>3 DEF Provided, Has
      <4>4. CASE n = EHType(c)
        <5>1. hasExceptionAttribute(api, c)
          BY <4>4, <3>1 DEF hasExceptionAttribute, Unknown, Reexported
        <5>2. Symbol("ehtype", EHType(c)) \in stub
          BY <5>1, <3>3, <3>4, <2>1, ClassSymbols
        <5> QED BY <5>2, <4>4, <2>2
      <4> QED BY <4>2, <4>3, <4>4, <3>2 DEF Parts
    <3>5. CASE ~isCompleteInterface(api, c)
      <4>1. Symbol("global", n) \in stub
        BY <3>1, <3>2, <3>3, <3>5, <2>1, ClassSymbols
      <4> QED BY <4>1, <2>2
    <3> QED BY <3>4, <3>5
  <2> QED BY <2>3, <2>4, <2>5
<1> QED BY <1>1, Invariants, PTL

\* The symbols of one class in the stub are exported, but for the type of exceptions.
LEMMA ClassInvented ==
  ASSUME TypeInv, Match, pc = "written", source = "binary",
         NEW c \in Classes, NEW s \in visitObjCInterface(api, c)
  PROVE  /\ \/ Carried(s.name)
            \/ /\ s.name = EHType(c) /\ TableLinkage(s.name) \in {Internal, External}
               /\ Carried(Class(c)) /\ Carried(MetaClass(c))
         /\ s.kind = "class" => s.name = Class(c) /\ Carried(MetaClass(c))
<1>1. api \in Records
  BY DEF TypeInv
<1>2. ASSUME NEW n \in Parts(c)
      PROVE  /\ n \in Names /\ api.interfaces[n] = TableLinkage(n)
             /\ api.interfaces[n] >= Reexported <=> Carried(n)
  <2>1. n \in GlobalNames /\ n[1] # "global"
    BY NameKinds
  <2> QED BY <2>1, NamesOf, ExportedRecords
<1>3. Class(c) \in Parts(c) /\ MetaClass(c) \in Parts(c) /\ EHType(c) \in Parts(c)
  BY DEF Parts
<1>4. CASE isCompleteInterface(api, c)
  <2>1. Carried(Class(c)) /\ Carried(MetaClass(c))
    BY <1>2, <1>3, <1>4 DEF isCompleteInterface
  <2>2. s = Symbol("class", Class(c)) \/ (s = Symbol("ehtype", EHType(c)) /\ hasExceptionAttribute(api, c))
    BY <1>1, <1>4, ClassSymbols
  <2>3. CASE s = Symbol("class", Class(c))
    BY <2>1, <2>3 DEF Symbol
  <2>4. CASE s = Symbol("ehtype", EHType(c)) /\ hasExceptionAttribute(api, c)
    <3>1. s.name = EHType(c) /\ s.kind = "ehtype"
      BY <2>4 DEF Symbol
    <3>2. TableLinkage(EHType(c)) # Unknown
      BY <2>4, <1>2, <1>3 DEF hasExceptionAttribute
    <3>3. TableLinkage(EHType(c)) \in {Internal, External} \/ Carried(EHType(c))
      <4>1. TableLinkage(EHType(c)) \in {Internal, External} \/ TableLinkage(EHType(c)) >= Reexported
        BY <3>2, <1>2, <1>3, TableLinkageFacts DEF TypeInv
      <4> QED BY <4>1, <1>2, <1>3
    <3> QED BY <3>1, <3>3, <2>1
  <2> QED BY <2>2, <2>3, <2>4
<1>5. CASE ~isCompleteInterface(api, c)
  <2>1. PICK n \in Parts(c) : s = Symbol("global", n) /\ api.interfaces[n] >= Reexported
    BY <1>1, <1>5, ClassSymbols
  <2>2. s.name = n /\ s.kind = "global"
    BY <2>1 DEF Symbol
  <2> QED BY <2>1, <2>2, <1>2
<1> QED BY <1>4, <1>5

\* The stub names nothing that the library does not export, but for the two kinds that
\* NothingInvented lists.
THEOREM Soundness == Spec => []NothingInvented
<1>1. ASSUME TypeInv, Match PROVE NothingInvented
  <2> SUFFICES ASSUME pc = "written", source = "binary", NEW n \in Provided
               PROVE  \/ Carried(n)
                      \/ \E m \in early : Carried(m) /\ n = Ivar(NoClass, m[3])
                      \/ \E c \in Classes : /\ n = EHType(c) /\ TableLinkage(n) \in {Internal, External}
                                            /\ Carried(Class(c)) /\ Carried(MetaClass(c))
    BY DEF NothingInvented, Carried
  <2>1. stub = Symbols(api)
    BY <1>1, ExportedRecords
  <2>2. ASSUME NEW s \in visitGlobal(api), s.kind # "undefined"
        PROVE  s.kind # "class" /\ Carried(s.name)
    <3>1. PICK m \in GlobalNames : s = Symbol("global", m) /\ api.globals[m] >= Reexported
      BY <2>2 DEF visitGlobal, Symbol
    <3>2. Carried(m)
      <4>1. ~(Unknown >= Reexported)
        BY DEF Unknown, Reexported
      <4> QED BY <3>1, <4>1, <1>1, ExportedRecords
    <3> QED BY <3>1, <3>2 DEF Symbol
  <2>3. ASSUME NEW s \in addIvars(api)
        PROVE  /\ s.kind # "class"
               /\ Carried(s.name) \/ \E m \in early : Carried(m) /\ s.name = Ivar(NoClass, m[3])
    <3>1. CASE \E m \in IvarNames : s = Symbol("ivar", m) /\ api.ivars[m] >= Reexported
      <4>1. PICK m \in IvarNames : s = Symbol("ivar", m) /\ api.ivars[m] >= Reexported
        BY <3>1
      <4>2. s.kind = "ivar" /\ s.name = m
        BY <4>1 DEF Symbol
      <4>3. Carried(m)
        BY <4>1, <1>1, ExportedIvars
      <4> QED BY <4>2, <4>3
    <3>2. CASE \E m \in IvarNames : s = Symbol("ivar", Ivar(NoClass, m[3])) /\ api.categories[m] >= Reexported
      <4>1. PICK m \in IvarNames : s = Symbol("ivar", Ivar(NoClass, m[3])) /\ api.categories[m] >= Reexported
        BY <3>2
      <4>2. s.kind = "ivar" /\ s.name = Ivar(NoClass, m[3])
        BY <4>1 DEF Symbol
      <4>3. Carried(m) /\ m \in early
        BY <4>1, <1>1, ExportedIvars
      <4> QED BY <4>2, <4>3
    <3> QED BY <3>1, <3>2 DEF addIvars
  <2>4. CASE \E s \in stub : s.kind # "undefined" /\ n = s.name
    <3>1. PICK s \in stub : s.kind # "undefined" /\ n = s.name
      BY <2>4
    <3>2. CASE s \in visitGlobal(api)
      BY <3>1, <3>2, <2>2
    <3>3. CASE s \in addIvars(api)
      BY <3>1, <3>3, <2>3
    <3>4. CASE \E c \in Classes : s \in visitObjCInterface(api, c)
      BY <3>1, <3>4, <1>1, ClassInvented
    <3> QED BY <3>2, <3>3, <3>4, <2>1 DEF Symbols
  <2>5. CASE \E c \in Classes : n = MetaClass(c) /\ Has("class", Class(c))
    <3>1. PICK c \in Classes : n = MetaClass(c) /\ Has("class", Class(c))
      BY <2>5
    <3>2. PICK s \in stub : s.kind = "class" /\ s.name = Class(c)
      BY <3>1 DEF Has, Symbol
    <3>3. PICK d \in Classes : s \in visitObjCInterface(api, d)
      BY <3>2, <2>1, <2>2, <2>3 DEF Symbols
    <3>4. s.name = Class(d) /\ Carried(MetaClass(d))
      BY <3>2, <3>3, <1>1, ClassInvented
    <3>5. c = d
      <4>1. Class(c) = Class(d) /\ Class(c)[2] = c /\ Class(d)[2] = d
        BY <3>2, <3>4 DEF Class
      <4> QED BY <4>1
    <3> QED BY <3>1, <3>4, <3>5
  <2> QED BY <2>4, <2>5 DEF Provided
<1> QED BY <1>1, Invariants, PTL

-----------------------------------------------------------------------------
(* From a stub to records and back *)

\* What every stub is like: no symbol is both exported and undefined, the type of
\* exceptions comes with its class.
StubOK ==
  /\ \A s \in stub : s = Symbol(s.kind, s.name) /\ s.kind \in Kinds
  /\ \A n : Has("global", n) => n \in GlobalNames
  /\ \A n : Has("undefined", n) => n \in GlobalNames /\ flat /\ ~Has("global", n)
  /\ \A n : Has("class", n) => \E c \in Classes : n = Class(c)
  /\ \A n : Has("ehtype", n) => \E c \in Classes : n = EHType(c) /\ Has("class", Class(c))
  /\ \A n : Has("ivar", n) => n \in IvarNames

\* A symbol of a stub, by the part of the converter that it comes from.
LEMMA SymbolOrigin ==
  ASSUME NEW a \in Records, NEW kind, NEW n
  PROVE  Symbol(kind, n) \in Symbols(a) <=>
           \/ kind = "global" /\ n \in GlobalNames /\ a.globals[n] >= Reexported
           \/ kind = "undefined" /\ n \in GlobalNames /\ flat /\ a.globals[n] = External
           \/ kind = "ivar" /\ n \in IvarNames /\ a.ivars[n] >= Reexported
           \/ kind = "ivar" /\ \E m \in IvarNames : n = Ivar(NoClass, m[3]) /\ a.categories[m] >= Reexported
           \/ \E c \in Classes : isCompleteInterface(a, c) /\
                \/ kind = "class" /\ n = Class(c)
                \/ kind = "ehtype" /\ n = EHType(c) /\ hasExceptionAttribute(a, c)
           \/ \E c \in Classes : /\ ~isCompleteInterface(a, c) /\ kind = "global"
                                 /\ n \in Parts(c) /\ a.interfaces[n] >= Reexported
<1>0. \A k, m, l, o : Symbol(k, m) = Symbol(l, o) <=> k = l /\ m = o
  BY DEF Symbol
<1>1. Symbol(kind, n) \in visitGlobal(a) <=>
        \/ kind = "global" /\ n \in GlobalNames /\ a.globals[n] >= Reexported
        \/ kind = "undefined" /\ n \in GlobalNames /\ flat /\ a.globals[n] = External
  BY <1>0 DEF visitGlobal
<1>2. Symbol(kind, n) \in addIvars(a) <=>
        \/ kind = "ivar" /\ n \in IvarNames /\ a.ivars[n] >= Reexported
        \/ kind = "ivar" /\ \E m \in IvarNames : n = Ivar(NoClass, m[3]) /\ a.categories[m] >= Reexported
  BY <1>0 DEF addIvars
<1>3. ASSUME NEW c \in Classes
      PROVE  Symbol(kind, n) \in visitObjCInterface(a, c) <=>
               \/ isCompleteInterface(a, c) /\
                    \/ kind = "class" /\ n = Class(c)
                    \/ kind = "ehtype" /\ n = EHType(c) /\ hasExceptionAttribute(a, c)
               \/ /\ ~isCompleteInterface(a, c) /\ kind = "global"
                  /\ n \in Parts(c) /\ a.interfaces[n] >= Reexported
  <2>1. CASE isCompleteInterface(a, c)
    <3>1. visitObjCInterface(a, c) = {Symbol("class", Class(c))} \cup
                (IF hasExceptionAttribute(a, c) THEN {Symbol("ehtype", EHType(c))} ELSE {})
      BY <2>1, ClassSymbols
    <3> QED BY <3>1, <2>1, <1>0
  <2>2. CASE ~isCompleteInterface(a, c)
    <3>1. visitObjCInterface(a, c) = {Symbol("global", m) : m \in {o \in Parts(c) : a.interfaces[o] >= Reexported}}
      BY <2>2, ClassSymbols
    <3> QED BY <3>1, <2>2, <1>0
  <2> QED BY <2>1, <2>2
<1> QED BY <1>1, <1>2, <1>3 DEF Symbols

LEMMA SymbolsAreSymbols ==
  ASSUME NEW a \in Records, NEW s \in Symbols(a)
  PROVE  s = Symbol(s.kind, s.name) /\ s.kind \in Kinds
<1>1. \A k \in Kinds : \A n : Symbol(k, n) = Symbol(Symbol(k, n).kind, Symbol(k, n).name) /\ Symbol(k, n).kind = k
  BY DEF Symbol
<1>2. CASE s \in visitGlobal(a)
  BY <1>1, <1>2 DEF visitGlobal, Kinds
<1>3. CASE s \in addIvars(a)
  BY <1>1, <1>3 DEF addIvars, Kinds
<1>4. CASE \E c \in Classes : s \in visitObjCInterface(a, c)
  <2>1. PICK c \in Classes : s \in visitObjCInterface(a, c)
    BY <1>4
  <2>2. CASE isCompleteInterface(a, c)
    BY <1>1, <2>1, <2>2, ClassSymbols DEF Kinds
  <2>3. CASE ~isCompleteInterface(a, c)
    BY <1>1, <2>1, <2>3, ClassSymbols DEF Kinds
  <2> QED BY <2>2, <2>3
<1> QED BY <1>2, <1>3, <1>4 DEF Symbols

\* Names of the three symbols of a class.
LEMMA PartNames ==
  ASSUME NEW c \in Classes, NEW d \in Classes
  PROVE  /\ Class(c) \in GlobalNames /\ MetaClass(c) \in GlobalNames /\ EHType(c) \in GlobalNames
         /\ Class(c) = Class(d) => c = d
         /\ MetaClass(c) = MetaClass(d) => c = d
         /\ EHType(c) = EHType(d) => c = d
         /\ Class(c) # MetaClass(d) /\ Class(c) # EHType(d) /\ MetaClass(c) # EHType(d)
<1>1. Class(c) \in GlobalNames /\ MetaClass(c) \in GlobalNames /\ EHType(c) \in GlobalNames
  BY NameKinds DEF Parts
<1>2. /\ Class(c)[1] = "class" /\ MetaClass(c)[1] = "metaclass" /\ EHType(c)[1] = "ehtype"
      /\ Class(d)[1] = "class" /\ MetaClass(d)[1] = "metaclass" /\ EHType(d)[1] = "ehtype"
      /\ Class(c)[2] = c /\ MetaClass(c)[2] = c /\ EHType(c)[2] = c
      /\ Class(d)[2] = d /\ MetaClass(d)[2] = d /\ EHType(d)[2] = d
  BY DEF Class, MetaClass, EHType
<1>3. "class" # "metaclass" /\ "class" # "ehtype" /\ "metaclass" # "ehtype"
  OBVIOUS
<1> QED BY <1>1, <1>2, <1>3

\* The stub of a binary.
LEMMA BinaryStub == TypeInv /\ Match /\ pc = "written" /\ source = "binary" => StubOK
<1> SUFFICES ASSUME TypeInv, Match, pc = "written", source = "binary" PROVE StubOK
  OBVIOUS
<1>1. /\ stub = Symbols(api) /\ api \in Records
      /\ \A n \in GlobalNames : n[1] # "global" => api.globals[n] = Unknown
  BY ExportedRecords, Zenon DEF TypeInv
<1>2. ~(External >= Reexported) /\ Unknown # External
  BY DEF Unknown, External, Reexported
<1>3. \A c \in Classes : \A n \in Parts(c) : n \in GlobalNames /\ n[1] # "global"
  BY NameKinds
<1>4. \A n : Has("global", n) => n \in GlobalNames
  BY <1>1, <1>3, SymbolOrigin DEF Has
<1>5. ASSUME NEW n, Has("undefined", n) PROVE n \in GlobalNames /\ flat /\ ~Has("global", n)
  <2>1. n \in GlobalNames /\ flat /\ api.globals[n] = External
    BY <1>1, <1>5, SymbolOrigin DEF Has
  <2>2. \A c \in Classes : n \notin Parts(c)
    BY <1>1, <1>2, <1>3, <2>1
  <2> QED BY <1>1, <1>2, <2>1, <2>2, SymbolOrigin DEF Has
<1>6. \A n : Has("class", n) => \E c \in Classes : n = Class(c)
  BY <1>1, SymbolOrigin DEF Has
<1>7. ASSUME NEW n, Has("ehtype", n) PROVE \E c \in Classes : n = EHType(c) /\ Has("class", Class(c))
  <2>1. PICK c \in Classes : isCompleteInterface(api, c) /\ n = EHType(c)
    BY <1>1, <1>7, SymbolOrigin DEF Has
  <2>2. Has("class", Class(c))
    BY <1>1, <2>1, SymbolOrigin DEF Has
  <2> QED BY <2>1, <2>2
<1>8. ASSUME NEW n, Has("ivar", n) PROVE n \in IvarNames
  <2>1. \A m \in IvarNames : Ivar(NoClass, m[3]) \in IvarNames
    BY NameKinds, NamesOf
  <2> QED BY <1>1, <1>8, <2>1, SymbolOrigin DEF Has
<1>9. \A s \in stub : s = Symbol(s.kind, s.name) /\ s.kind \in Kinds
  BY <1>1, SymbolsAreSymbols
<1> QED BY <1>4, <1>5, <1>6, <1>7, <1>8, <1>9 DEF StubOK

\* The records read from a stub: the records of a class are complete once it is read.
LEMMA TextRecords ==
  ASSUME StubOK
  PROVE  /\ \A n \in GlobalNames : /\ TextAPI.globals[n] >= Reexported <=> Has("global", n)
                                   /\ TextAPI.globals[n] = External <=> Has("undefined", n)
         /\ \A c \in Classes : /\ isCompleteInterface(TextAPI, c) <=> Has("class", Class(c))
                               /\ hasExceptionAttribute(TextAPI, c) <=> Has("ehtype", EHType(c))
                               /\ ClassRead(c) <=> Has("class", Class(c))
                               /\ ~Has("class", Class(c)) =>
                                    \A n \in Parts(c) : ~(TextAPI.interfaces[n] >= Reexported)
         /\ \A n \in IvarNames : /\ TextAPI.ivars[n] >= Reexported <=> Has("ivar", n) /\ ClassRead(n[2])
                                 /\ TextAPI.categories[n] >= Reexported <=> Has("ivar", n) /\ ~ClassRead(n[2])
<1>1. /\ Exported >= Reexported /\ ~(Unknown >= Reexported) /\ ~(External >= Reexported)
      /\ Exported # External /\ Unknown # External /\ Exported # Unknown
  BY DEF Exported, Reexported, Unknown, External
<1>2. ASSUME NEW n \in GlobalNames
      PROVE  /\ TextAPI.globals[n] >= Reexported <=> Has("global", n)
             /\ TextAPI.globals[n] = External <=> Has("undefined", n)
  <2>1. Has("undefined", n) => ~Has("global", n)
    BY DEF StubOK
  <2>2. TextAPI.globals[n] = CASE Has("global", n) -> Exported
                               [] ~Has("global", n) /\ Has("undefined", n) -> External
                               [] OTHER -> Unknown
    BY DEF TextAPI
  <2>3. CASE Has("global", n)
    BY <1>1, <2>1, <2>2, <2>3
  <2>4. CASE ~Has("global", n) /\ Has("undefined", n)
    BY <1>1, <2>2, <2>4
  <2>5. CASE ~Has("global", n) /\ ~Has("undefined", n)
    BY <1>1, <2>2, <2>5
  <2> QED BY <2>3, <2>4, <2>5
<1>3. ASSUME NEW c \in Classes
      PROVE  /\ isCompleteInterface(TextAPI, c) <=> Has("class", Class(c))
             /\ hasExceptionAttribute(TextAPI, c) <=> Has("ehtype", EHType(c))
             /\ ClassRead(c) <=> Has("class", Class(c))
             /\ ~Has("class", Class(c)) =>
                    \A n \in Parts(c) : ~(TextAPI.interfaces[n] >= Reexported)
  <2>1. \A n \in GlobalNames :
          TextAPI.interfaces[n] = IF \E d \in Classes : (n \in {Class(d), MetaClass(d)} /\ ClassRead(d))
                                                         \/ (n = EHType(d) /\ Has("ehtype", n))
                                  THEN Exported ELSE Unknown
    BY DEF TextAPI
  <2>2. \A d \in Classes : Has("ehtype", EHType(d)) => Has("class", Class(d))
    BY PartNames DEF StubOK
  <2>3. ClassRead(c) <=> Has("class", Class(c))
    BY <2>2 DEF ClassRead
  <2>4. TextAPI.interfaces[Class(c)] = IF ClassRead(c) THEN Exported ELSE Unknown
    BY <2>1, PartNames
  <2>5. TextAPI.interfaces[MetaClass(c)] = IF ClassRead(c) THEN Exported ELSE Unknown
    BY <2>1, PartNames
  <2>6. TextAPI.interfaces[EHType(c)] = IF Has("ehtype", EHType(c)) THEN Exported ELSE Unknown
    BY <2>1, PartNames
  <2>7. isCompleteInterface(TextAPI, c) <=> Has("class", Class(c))
    BY <1>1, <2>3, <2>4, <2>5 DEF isCompleteInterface
  <2>8. hasExceptionAttribute(TextAPI, c) <=> Has("ehtype", EHType(c))
    BY <1>1, <2>6 DEF hasExceptionAttribute
  <2>9. ~Has("class", Class(c)) => \A n \in Parts(c) : ~(TextAPI.interfaces[n] >= Reexported)
    BY <1>1, <2>2, <2>3, <2>4, <2>5, <2>6 DEF Parts
  <2> QED BY <2>3, <2>7, <2>8, <2>9
<1>4. ASSUME NEW n \in IvarNames
      PROVE  /\ TextAPI.ivars[n] >= Reexported <=> Has("ivar", n) /\ ClassRead(n[2])
             /\ TextAPI.categories[n] >= Reexported <=> Has("ivar", n) /\ ~ClassRead(n[2])
  <2>1. /\ TextAPI.ivars[n] = IF Has("ivar", n) /\ ClassRead(n[2]) THEN Exported ELSE Unknown
        /\ TextAPI.categories[n] = IF Has("ivar", n) /\ ~ClassRead(n[2]) THEN Exported ELSE Unknown
    BY DEF TextAPI
  <2> QED BY <1>1, <2>1
<1> QED BY <1>2, <1>3, <1>4

\* What is written from those records: what was read, but for the class of an ivar
\* whose class was not.
LEMMA TextSymbols ==
  ASSUME StubOK, NEW kind, NEW n
  PROVE  Symbol(kind, n) \in Symbols(TextAPI) <=>
           \/ kind \in {"global", "undefined", "class", "ehtype"} /\ Has(kind, n)
           \/ kind = "ivar" /\ Has("ivar", n) /\ ClassRead(n[2])
           \/ kind = "ivar" /\ \E m \in IvarNames : /\ n = Ivar(NoClass, m[3])
                                                    /\ Has("ivar", m) /\ ~ClassRead(m[2])
<1>1. TextAPI \in Records
  BY TextAPITyped
<1>2. CASE kind = "global"
  <2>1. \A c \in Classes : ~isCompleteInterface(TextAPI, c) =>
           \A m \in Parts(c) : ~(TextAPI.interfaces[m] >= Reexported)
    BY TextRecords
  <2>2. Has("global", n) => n \in GlobalNames
    BY DEF StubOK
  <2>3. n \in GlobalNames => (TextAPI.globals[n] >= Reexported <=> Has("global", n))
    BY TextRecords
  <2> QED BY <1>1, <1>2, <2>1, <2>2, <2>3, SymbolOrigin
<1>3. CASE kind = "undefined"
  <2>1. Has("undefined", n) => n \in GlobalNames /\ flat
    BY DEF StubOK
  <2>2. n \in GlobalNames => (TextAPI.globals[n] = External <=> Has("undefined", n))
    BY TextRecords
  <2> QED BY <1>1, <1>3, <2>1, <2>2, SymbolOrigin
<1>4. CASE kind = "class"
  <2>1. Has("class", n) => \E c \in Classes : n = Class(c)
    BY DEF StubOK
  <2>2. \A c \in Classes : isCompleteInterface(TextAPI, c) <=> Has("class", Class(c))
    BY TextRecords
  <2> QED BY <1>1, <1>4, <2>1, <2>2, SymbolOrigin
<1>5. CASE kind = "ehtype"
  <2>1. Has("ehtype", n) => \E c \in Classes : n = EHType(c) /\ Has("class", Class(c))
    BY DEF StubOK
  <2>2. \A c \in Classes : /\ isCompleteInterface(TextAPI, c) <=> Has("class", Class(c))
                           /\ hasExceptionAttribute(TextAPI, c) <=> Has("ehtype", EHType(c))
    BY TextRecords
  <2>3. \A c \in Classes : Has("ehtype", EHType(c)) => Has("class", Class(c))
    BY PartNames DEF StubOK
  <2> QED BY <1>1, <1>5, <2>1, <2>2, <2>3, SymbolOrigin
<1>6. CASE kind = "ivar"
  <2>1. Has("ivar", n) => n \in IvarNames
    BY DEF StubOK
  <2>2. \A m \in IvarNames : /\ TextAPI.ivars[m] >= Reexported <=> Has("ivar", m) /\ ClassRead(m[2])
                             /\ TextAPI.categories[m] >= Reexported <=> Has("ivar", m) /\ ~ClassRead(m[2])
    BY TextRecords
  <2> QED BY <1>1, <1>6, <2>1, <2>2, SymbolOrigin
<1>7. CASE kind \notin {"global", "undefined", "class", "ehtype", "ivar"}
  BY <1>1, <1>7, SymbolOrigin
<1> QED BY <1>2, <1>3, <1>4, <1>5, <1>6, <1>7

\* A class that no name has is in no stub.
LEMMA NamelessIvar ==
  ASSUME StubOK, NEW m \in IvarNames
  PROVE  /\ Ivar(NoClass, m[3]) \in IvarNames /\ Ivar(NoClass, m[3])[2] = NoClass
         /\ ~ClassRead(NoClass)
         /\ m[2] = NoClass => m = Ivar(NoClass, m[3])
<1>1. Ivar(NoClass, m[3]) \in IvarNames /\ m = Ivar(m[2], m[3])
  BY NameKinds, NamesOf
<1>2. Ivar(NoClass, m[3])[2] = NoClass
  BY DEF Ivar
<1>3. ~Has("class", Class(NoClass))
  <2>1. \A c \in Classes : Class(c)[2] = c /\ Class(NoClass)[2] = NoClass
    BY DEF Class
  <2> QED BY <2>1, NamesAssumption DEF StubOK
<1>4. ~Has("ehtype", EHType(NoClass))
  <2>1. \A c \in Classes : EHType(c)[2] = c /\ EHType(NoClass)[2] = NoClass
    BY DEF EHType
  <2> QED BY <2>1, NamesAssumption DEF StubOK
<1> QED BY <1>1, <1>2, <1>3, <1>4 DEF ClassRead

LEMMA TextStub ==
  ASSUME StubOK, stub' = Symbols(TextAPI), UNCHANGED flat
  PROVE  StubOK'
<1>1. \A kind, n : Has(kind, n)' <=>
           \/ kind \in {"global", "undefined", "class", "ehtype"} /\ Has(kind, n)
           \/ kind = "ivar" /\ Has("ivar", n) /\ ClassRead(n[2])
           \/ kind = "ivar" /\ \E m \in IvarNames : /\ n = Ivar(NoClass, m[3])
                                                    /\ Has("ivar", m) /\ ~ClassRead(m[2])
  <2> SUFFICES ASSUME NEW kind, NEW n
               PROVE  Has(kind, n)' <=>
                        \/ kind \in {"global", "undefined", "class", "ehtype"} /\ Has(kind, n)
                        \/ kind = "ivar" /\ Has("ivar", n) /\ ClassRead(n[2])
                        \/ kind = "ivar" /\ \E m \in IvarNames : /\ n = Ivar(NoClass, m[3])
                                                                 /\ Has("ivar", m) /\ ~ClassRead(m[2])
    OBVIOUS
  <2>1. Has(kind, n)' <=> Symbol(kind, n) \in Symbols(TextAPI)
    BY DEF Has, Symbol
  <2> QED BY <2>1, TextSymbols, Zenon
<1>2. \A kind \in {"global", "undefined", "class", "ehtype"} : \A n : Has(kind, n)' <=> Has(kind, n)
  BY <1>1
<1>3. \A n : Has("ivar", n)' => n \in IvarNames
  <2>1. \A m \in IvarNames : Ivar(NoClass, m[3]) \in IvarNames
    BY NamelessIvar
  <2> QED BY <1>1, <2>1 DEF StubOK
<1>4. \A s \in stub' : s = Symbol(s.kind, s.name) /\ s.kind \in Kinds
  BY TextAPITyped, SymbolsAreSymbols
<1>5. (\A n : Has("global", n) => n \in GlobalNames)'
  BY <1>2 DEF StubOK
<1>6. (\A n : Has("undefined", n) => n \in GlobalNames /\ flat /\ ~Has("global", n))'
  BY <1>2 DEF StubOK
<1>7. (\A n : Has("class", n) => \E c \in Classes : n = Class(c))'
  BY <1>2 DEF StubOK
<1>8. (\A n : Has("ehtype", n) => \E c \in Classes : n = EHType(c) /\ Has("class", Class(c)))'
  BY <1>2 DEF StubOK
<1> QED BY <1>3, <1>4, <1>5, <1>6, <1>7, <1>8 DEF StubOK, Symbol

RoundInv ==
  /\ pc = "written" \/ source = "text" => StubOK
  /\ source = "text" => pc # "read"
  /\ source = "text" /\ pc = "convert" => api = TextAPI

BinaryOK == pc = "written" /\ source = "binary" => StubOK

LEMMA RoundStep == TypeInv /\ RoundInv /\ [Next]_vars /\ BinaryOK' => RoundInv'
<1> SUFFICES ASSUME TypeInv, RoundInv, [Next]_vars, BinaryOK' PROVE RoundInv'
  OBVIOUS
<1>1. CASE AddSwift \/ ReadSymbol \/ EndOfTable
  BY <1>1 DEF AddSwift, ReadSymbol, EndOfTable, RoundInv, TypeInv
<1>2. CASE Convert /\ source = "binary"
  BY <1>2 DEF Convert, RoundInv, BinaryOK
<1>3. CASE Convert /\ source = "text"
  <2>1. stub' = Symbols(TextAPI) /\ UNCHANGED flat /\ StubOK
    BY <1>3 DEF Convert, RoundInv, library
  <2>2. StubOK'
    BY <2>1, TextStub
  <2> QED BY <1>3, <2>2 DEF Convert, RoundInv
<1>4. CASE ReadText
  <2>1. StubOK /\ UNCHANGED <<stub, flat>> /\ api' = TextAPI /\ pc' = "convert"
    BY <1>4 DEF ReadText, RoundInv, library
  <2>2. StubOK'
    BY <2>1 DEF StubOK, Has
  <2>3. TextAPI' = TextAPI
    BY <2>1 DEF TextAPI, Has, ClassRead
  <2> QED BY <2>1, <2>2, <2>3 DEF RoundInv
<1>5. CASE UNCHANGED vars
  <2>1. UNCHANGED <<stub, flat, api, pc, source>>
    BY <1>5 DEF vars, library
  <2>2. StubOK => StubOK'
    BY <2>1 DEF StubOK, Has
  <2>3. TextAPI' = TextAPI
    BY <2>1 DEF TextAPI, Has, ClassRead
  <2> QED BY <2>1, <2>2, <2>3 DEF RoundInv
<1> QED BY <1>1, <1>2, <1>3, <1>4, <1>5 DEF Next, TypeInv

\* What is read from a stub and written again is that stub, for any library whose stub
\* holds no ivar without its class, however often it goes round.
THEOREM ReadingBackIsExact == Spec => RoundTrip
<1>1. ASSUME RoundInv, [Next]_vars, pc = "convert", source = "text", Whole
      PROVE  stub' = stub
  <2>1. StubOK /\ api = TextAPI
    BY <1>1 DEF RoundInv
  <2>2. CASE UNCHANGED stub
    BY <2>2
  <2>3. CASE Convert
    <3>1. stub' = Symbols(TextAPI)
      BY <2>1, <2>3 DEF Convert
    <3>2. ASSUME NEW kind \in Kinds, NEW n
          PROVE  Symbol(kind, n) \in Symbols(TextAPI) <=> Symbol(kind, n) \in stub
      <4>1. CASE kind # "ivar"
        BY <2>1, <4>1, TextSymbols DEF Has, Kinds
      <4>2. CASE kind = "ivar"
        <5>1. \A m \in IvarNames : Has("ivar", m) => ClassRead(m[2]) \/ m = Ivar(NoClass, m[3])
          BY <1>1, <2>1, NamelessIvar DEF Whole, ClassRead
        <5>2. \A m \in IvarNames : m = Ivar(NoClass, m[3]) => ~ClassRead(m[2])
          BY <2>1, NamelessIvar
        <5>3. Has("ivar", n) => n \in IvarNames
          BY <2>1 DEF StubOK
        <5>4. \A m \in IvarNames : Has("ivar", m) /\ ~ClassRead(m[2]) => m = Ivar(NoClass, m[3])
          BY <5>1
        <5>5. Symbol("ivar", n) \in Symbols(TextAPI) <=>
                \/ Has("ivar", n) /\ ClassRead(n[2])
                \/ \E m \in IvarNames : n = Ivar(NoClass, m[3]) /\ Has("ivar", m) /\ ~ClassRead(m[2])
          BY <2>1, TextSymbols
        <5>6. Symbol("ivar", n) \in Symbols(TextAPI) <=> Has("ivar", n)
          BY <5>1, <5>3, <5>4, <5>5
        <5> QED BY <4>2, <5>6 DEF Has
      <4> QED BY <4>1, <4>2
    <3>3. \A s \in Symbols(TextAPI) : s = Symbol(s.kind, s.name) /\ s.kind \in Kinds
      BY TextAPITyped, SymbolsAreSymbols
    <3>4. \A s \in stub : s = Symbol(s.kind, s.name) /\ s.kind \in Kinds
      BY <2>1 DEF StubOK
    <3>5. Symbols(TextAPI) \subseteq stub
      BY <3>2, <3>3
    <3>6. stub \subseteq Symbols(TextAPI)
      BY <3>2, <3>4
    <3> QED BY <3>1, <3>5, <3>6
  <2> QED BY <1>1, <2>2, <2>3 DEF Next, AddSwift, ReadSymbol, EndOfTable, ReadText, vars
<1>2. Init => RoundInv
  BY DEF Init, RoundInv
<1>3. TypeInv /\ Match => BinaryOK
  BY BinaryStub DEF BinaryOK
<1>4. RoundInv /\ [Next]_vars => [pc = "convert" /\ source = "text" /\ Whole => stub' = stub]_vars
  BY <1>1
<1> QED BY <1>2, <1>3, <1>4, RoundStep, Invariants, PTL DEF Spec, RoundTrip
=============================================================================
