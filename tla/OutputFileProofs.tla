-------------------------- MODULE OutputFileProofs --------------------------
(***************************************************************************)
(* Theorems about OutputFile, for any documents, processes, number of runs *)
(* and faults, and any files at first.                                     *)
(***************************************************************************)
EXTENDS OutputFile, SequenceTheorems, TLAPS

Files == Seq(Seq(Pieces))
Labels == {"idle", "check", "new", "replace", "write", "rename", "close"}
Outcomes == {"none", "running", "success", "failed", "aborted", "crashed"}

(***************************************************************************)
(* Files                                                                   *)
(***************************************************************************)

\* A piece of a document is a piece.
LEMMA PieceType ==
  ASSUME NEW d \in Docs, NEW i \in 1 .. Size[d]
  PROVE  Piece(d, i) \in Pieces
BY DEF Pieces

\* The text of a document is a sequence of its pieces.
LEMMA TextType ==
  ASSUME NEW d \in Docs
  PROVE  /\ Text(d) \in Seq(Pieces) /\ Len(Text(d)) = Size[d] /\ Size[d] \in Nat \ {0}
         /\ \A i \in 1 .. Size[d] : Text(d)[i] = Piece(d, i)
<1>1. Size[d] \in Nat \ {0}
  BY DocsAssumption DEF DocsAssumption
<1>2. \A i \in 1 .. Size[d] : Piece(d, i) \in Pieces
  BY PieceType
<1> QED BY <1>1, <1>2 DEF Text

\* Different pieces are different, whatever the documents are.
LEMMA PieceIsOne ==
  ASSUME NEW d, NEW e, NEW i, NEW j, Piece(d, i) = Piece(e, j)
  PROVE  d = e /\ i = j
BY DEF Piece

\* write(2) makes a file of pieces.
LEMMA WriteAtType ==
  ASSUME NEW content \in Seq(Pieces), NEW at \in Nat \ {0}, NEW piece \in Pieces
  PROVE  WriteAt(content, at, piece) \in Seq(Pieces)
<1> DEFINE n == IF at > Len(content) THEN at ELSE Len(content)
<1>1. n \in Nat /\ Len(content) \in Nat
  OBVIOUS
<1>2. \A i \in 1 .. n :
        (IF i = at THEN piece ELSE IF i <= Len(content) THEN content[i] ELSE Hole) \in Pieces
  BY <1>1 DEF Pieces
<1>3. WriteAt(content, at, piece) = [i \in 1 .. n |->
        IF i = at THEN piece ELSE IF i <= Len(content) THEN content[i] ELSE Hole]
  BY DEF WriteAt
<1> HIDE DEF n
<1> QED BY <1>1, <1>2, <1>3

\* A write at the end of the file appends the piece.
LEMMA WriteAtEnd ==
  ASSUME NEW content \in Seq(Pieces), NEW at \in Nat, at = Len(content) + 1, NEW piece \in Pieces
  PROVE  /\ Len(WriteAt(content, at, piece)) = at
         /\ \A i \in 1 .. Len(content) : WriteAt(content, at, piece)[i] = content[i]
         /\ WriteAt(content, at, piece)[at] = piece
<1> DEFINE f == [i \in 1 .. at |->
                   IF i = at THEN piece ELSE IF i <= Len(content) THEN content[i] ELSE Hole]
<1>1. at \in Nat \ {0} /\ Len(content) \in Nat /\ at > Len(content)
  OBVIOUS
<1>2. WriteAt(content, at, piece) = f
  BY <1>1 DEF WriteAt
<1>3. \A i \in 1 .. at : f[i] \in Pieces
  BY <1>1 DEF Pieces
<1>4. f \in Seq(Pieces) /\ Len(f) = at
  BY <1>1, <1>3
<1>5. (\A i \in 1 .. Len(content) : f[i] = content[i]) /\ f[at] = piece
  BY <1>1
<1> HIDE DEF f
<1> QED BY <1>2, <1>4, <1>5

\* A file is created: the others keep their contents.
LEMMA NewFile ==
  ASSUME data \in Files
  PROVE  /\ Append(data, <<>>) \in Files /\ Len(Append(data, <<>>)) = Len(data) + 1
         /\ Len(data) \in Nat /\ Append(data, <<>>)[Len(data) + 1] = <<>>
         /\ \A f \in 1 .. Len(data) : Append(data, <<>>)[f] = data[f]
<1>1. <<>> \in Seq(Pieces)
  OBVIOUS
<1> QED BY <1>1 DEF Files

\* A file gets another content: the others keep theirs.
LEMMA ChangedFile ==
  ASSUME data \in Files, NEW f \in 1 .. Len(data), NEW content \in Seq(Pieces)
  PROVE  /\ [data EXCEPT ![f] = content] \in Files
         /\ Len([data EXCEPT ![f] = content]) = Len(data) /\ Len(data) \in Nat
         /\ \A g \in 1 .. Len(data) :
              [data EXCEPT ![f] = content][g] = IF g = f THEN content ELSE data[g]
BY ExceptSeq, LenProperties DEF Files

(***************************************************************************)
(* Types                                                                   *)
(***************************************************************************)

\* What the path held when the run began is an observation of it.
TypeInv == TypeOK /\ before \in [Writers -> AnyContent]

\* No file, or the content of one of the files, is an observation.
LEMMA FileIsContent ==
  ASSUME NEW files \in Files, NEW f \in 0 .. Len(files)
  PROVE  (IF f = 0 THEN <<>> ELSE <<files[f]>>) \in AnyContent
<1>1. CASE f = 0
  BY <1>1 DEF AnyContent
<1>2. CASE f # 0
  <2>1. files[f] \in Seq(Pieces)
    BY <1>2, ElementOfSeq DEF Files
  <2>2. <<files[f]>> \in [1 .. 1 -> Seq(Pieces)]
    BY <2>1
  <2> QED BY <1>2, <2>2 DEF AnyContent
<1> QED BY <1>1, <1>2

\* What the path holds is an observation.
LEMMA ContentType == ASSUME TypeOK PROVE Content \in AnyContent
<1>1. data \in Files /\ path \in 0 .. Len(data)
  BY DEF TypeOK, Files
<1> QED BY <1>1, FileIsContent DEF Content

\* A write of the next piece changes the file of the stream only.
LEMMA WritePieceType ==
  ASSUME TypeOK, NEW w \in Writers, fd[w] # 0, put[w] < Size[doc[w]], WritePiece(w)
  PROVE  /\ data' \in Files /\ Len(data') = Len(data)
         /\ put' \in [Writers -> Nat] /\ off' \in [Writers -> Nat]
         /\ bad' \in [Writers -> BOOLEAN]
         /\ off'[w] \in 0 .. put'[w] /\ put'[w] \in 0 .. Size[doc[w]]
         /\ \A v \in Writers : v # w => put'[v] = put[v] /\ off'[v] = off[v]
<1>1. /\ fd[w] \in 1 .. Len(data) /\ doc[w] \in Docs /\ Size[doc[w]] \in Nat
      /\ put[w] \in Nat /\ off[w] \in Nat /\ off[w] <= put[w]
  BY TextType DEF TypeOK
<1>2. data \in Files
  BY DEF TypeOK, Files
<1>3. put' = [put EXCEPT ![w] = @ + 1]
  BY DEF WritePiece
<1>4. /\ put' \in [Writers -> Nat] /\ put'[w] = put[w] + 1
      /\ \A v \in Writers : v # w => put'[v] = put[v]
  BY <1>1, <1>3 DEF TypeOK
<1>5. put'[w] \in 0 .. Size[doc[w]]
  BY <1>1, <1>4
<1>6. CASE /\ data' = [data EXCEPT ![fd[w]] =
                         WriteAt(@, off[w] + 1, Piece(doc[w], put[w] + 1))]
           /\ off' = [off EXCEPT ![w] = @ + 1] /\ UNCHANGED bad
  <2>1. data[fd[w]] \in Seq(Pieces)
    BY <1>1, <1>2, ElementOfSeq DEF Files
  <2>2. Piece(doc[w], put[w] + 1) \in Pieces
    <3>1. put[w] + 1 \in 1 .. Size[doc[w]]
      BY <1>1
    <3> QED BY <1>1, <3>1, PieceType
  <2>3. WriteAt(data[fd[w]], off[w] + 1, Piece(doc[w], put[w] + 1)) \in Seq(Pieces)
    <3>1. off[w] + 1 \in Nat \ {0}
      BY <1>1
    <3> QED BY <2>1, <2>2, <3>1, WriteAtType, Zenon
  <2>4. data' \in Files /\ Len(data') = Len(data)
    BY <1>1, <1>2, <1>6, <2>3, ChangedFile
  <2>5. /\ off' \in [Writers -> Nat] /\ off'[w] = off[w] + 1
        /\ \A v \in Writers : v # w => off'[v] = off[v]
    BY <1>1, <1>6 DEF TypeOK
  <2>6. bad' \in [Writers -> BOOLEAN]
    BY <1>6 DEF TypeOK
  <2>7. off'[w] \in 0 .. put'[w]
    BY <1>1, <1>4, <2>5
  <2> QED BY <1>4, <1>5, <2>4, <2>5, <2>6, <2>7
<1>7. CASE bad' = [bad EXCEPT ![w] = TRUE] /\ UNCHANGED <<data, off>>
  <2>1. bad' \in [Writers -> BOOLEAN]
    BY <1>7 DEF TypeOK
  <2>2. off' \in [Writers -> Nat] /\ off'[w] \in 0 .. put'[w]
    BY <1>1, <1>4, <1>7 DEF TypeOK
  <2> QED BY <1>2, <1>4, <1>5, <1>7, <2>1, <2>2
<1> QED BY <1>6, <1>7 DEF WritePiece

\* The initial state has its types.
LEMMA InitType == Init => TypeInv
<1> SUFFICES ASSUME Init PROVE TypeInv
  OBVIOUS
<1>1. data \in Seq(Seq(Pieces)) /\ path \in 0 .. Len(data) /\ Len(data) \in Nat
  BY FilesAssumption DEF Init, FilesAssumption
<1>2. /\ fd \in [Writers -> 0 .. Len(data)] /\ put \in [Writers -> Nat]
      /\ off \in [Writers -> Nat]
  BY <1>1 DEF Init
<1>3. \A w \in Writers :
        /\ put[w] \in 0 .. Size[doc[w]] /\ off[w] \in 0 .. put[w]
        /\ pc[w] = "idle"
  BY DocsAssumption DEF Init, DocsAssumption
<1>4. runs \in [Writers -> 0 .. MaxRuns]
  BY BoundAssumption DEF Init, BoundAssumption
<1>5. before \in [Writers -> AnyContent]
  BY DEF Init, AnyContent
<1>6. /\ temps \subseteq DOMAIN data /\ inPlace \in BOOLEAN
      /\ bad \in [Writers -> BOOLEAN] /\ failed \in [Writers -> BOOLEAN]
  BY Zenon DEF Init
<1>7. /\ pc \in [Writers -> {"idle", "check", "new", "replace", "write", "rename", "close"}]
      /\ outcome \in [Writers ->
           {"none", "running", "success", "failed", "aborted", "crashed"}]
  BY DEF Init
<1>8. doc \in [Writers -> Docs]
  BY DEF Init
<1> QED BY <1>1, <1>2, <1>3, <1>4, <1>5, <1>6, <1>7, <1>8 DEF TypeInv, TypeOK

\* A run begins: the stream is reset, what the path holds is remembered.
LEMMA BeginType == ASSUME TypeInv, NEW w \in Writers, Begin(w) PROVE TypeInv'
<1>1. UNCHANGED <<path, data, temps, inPlace>>
  BY DEF Begin, disk
<1>2. PICK d \in Docs : doc' = [doc EXCEPT ![w] = d]
  BY DEF Begin
<1>3. /\ doc' \in [Writers -> Docs] /\ doc'[w] = d
      /\ \A v \in Writers : v # w => doc'[v] = doc[v]
  BY <1>2 DEF TypeInv, TypeOK
<1>4. runs' \in [Writers -> 0 .. MaxRuns]
  BY BoundAssumption DEF BoundAssumption, Begin, TypeInv, TypeOK
<1>5. before' \in [Writers -> AnyContent]
  BY ContentType DEF Begin, TypeInv
<1>6. outcome' = [outcome EXCEPT ![w] = "running"] /\ pc' = [pc EXCEPT ![w] = "check"]
  BY DEF Begin, Goto
<1>7. /\ fd' = [fd EXCEPT ![w] = 0] /\ put' = [put EXCEPT ![w] = 0]
      /\ off' = [off EXCEPT ![w] = 0] /\ bad' = [bad EXCEPT ![w] = FALSE]
      /\ failed' = [failed EXCEPT ![w] = FALSE]
  BY DEF Begin
<1>8. data \in Seq(Seq(Pieces)) /\ Len(data) \in Nat
  BY DEF TypeInv, TypeOK
<1>9. /\ fd' \in [Writers -> 0 .. Len(data)] /\ put' \in [Writers -> Nat]
      /\ off' \in [Writers -> Nat] /\ bad' \in [Writers -> BOOLEAN]
      /\ failed' \in [Writers -> BOOLEAN]
  BY <1>7, <1>8 DEF TypeInv, TypeOK
<1>10. ASSUME NEW v \in Writers
       PROVE  /\ put'[v] \in 0 .. Size[doc'[v]] /\ off'[v] \in 0 .. put'[v]
              /\ pc'[v] \in {"write", "rename", "close"} => fd'[v] # 0
  <2>1. CASE v = w
    <3>1. Size[d] \in Nat
      BY DocsAssumption DEF DocsAssumption
    <3>2. put'[v] = 0 /\ off'[v] = 0 /\ pc'[v] = "check" /\ doc'[v] = d
      BY <1>3, <1>6, <1>7, <2>1 DEF TypeInv, TypeOK
    <3> QED BY <3>1, <3>2
  <2>2. CASE v # w
    BY <1>3, <1>6, <1>7, <2>2 DEF TypeInv, TypeOK
  <2> QED BY <2>1, <2>2
<1>11. /\ pc' \in [Writers -> {"idle", "check", "new", "replace", "write", "rename", "close"}]
       /\ outcome' \in [Writers ->
            {"none", "running", "success", "failed", "aborted", "crashed"}]
  BY <1>6 DEF TypeInv, TypeOK
<1> QED BY <1>1, <1>3, <1>4, <1>5, <1>9, <1>10, <1>11 DEF TypeInv, TypeOK

\* Which conjuncts of the type invariant a step of the run itself may disturb.
LEMMA StepType ==
  ASSUME TypeInv, NEW w \in Writers, UNCHANGED <<doc, runs, before>>,
         data' \in Files, Len(data) <= Len(data'), path' \in 0 .. Len(data'),
         temps' \subseteq DOMAIN data', inPlace' \in BOOLEAN,
         NEW l \in Labels, pc' = [pc EXCEPT ![w] = l],
         NEW o \in Outcomes, outcome' = outcome \/ outcome' = [outcome EXCEPT ![w] = o],
         NEW f \in 0 .. Len(data'), fd' = [fd EXCEPT ![w] = f],
         l \in {"write", "rename", "close"} => f # 0,
         put' \in [Writers -> Nat], off' \in [Writers -> Nat],
         off'[w] \in 0 .. put'[w], put'[w] \in 0 .. Size[doc[w]],
         \A v \in Writers : v # w => put'[v] = put[v] /\ off'[v] = off[v],
         bad' \in [Writers -> BOOLEAN], failed' \in [Writers -> BOOLEAN]
  PROVE  TypeInv'
<1>1. Len(data) \in Nat /\ Len(data') \in Nat /\ data' \in Seq(Seq(Pieces))
  BY DEF TypeInv, TypeOK, Files
<1>2. /\ fd' \in [Writers -> 0 .. Len(data')] /\ fd'[w] = f
      /\ \A v \in Writers : v # w => fd'[v] = fd[v]
  BY <1>1 DEF TypeInv, TypeOK
<1>3. /\ pc' \in [Writers -> {"idle", "check", "new", "replace", "write", "rename", "close"}]
      /\ pc'[w] = l /\ \A v \in Writers : v # w => pc'[v] = pc[v]
  BY DEF TypeInv, TypeOK, Labels
<1>4. outcome' \in [Writers ->
        {"none", "running", "success", "failed", "aborted", "crashed"}]
  BY DEF TypeInv, TypeOK, Outcomes
<1>5. ASSUME NEW v \in Writers
      PROVE  /\ put'[v] \in 0 .. Size[doc'[v]] /\ off'[v] \in 0 .. put'[v]
             /\ pc'[v] \in {"write", "rename", "close"} => fd'[v] # 0
  <2>1. CASE v = w
    BY <1>2, <1>3, <2>1
  <2>2. CASE v # w
    BY <1>2, <1>3, <2>2 DEF TypeInv, TypeOK
  <2> QED BY <2>1, <2>2
<1>6. doc' \in [Writers -> Docs] /\ runs' \in [Writers -> 0 .. MaxRuns]
      /\ before' \in [Writers -> AnyContent]
  BY DEF TypeInv, TypeOK
<1> QED BY <1>1, <1>2, <1>3, <1>4, <1>5, <1>6 DEF TypeInv, TypeOK

\* The types of the disk, for the steps that leave it alone.
LEMMA DiskType ==
  ASSUME TypeOK
  PROVE  /\ data \in Files /\ Len(data) \in Nat /\ path \in 0 .. Len(data)
         /\ temps \subseteq DOMAIN data /\ DOMAIN data = 1 .. Len(data) /\ inPlace \in BOOLEAN
BY DEF TypeOK, Files

\* A step that leaves the stream alone.
LEMMA QuietStepType ==
  ASSUME TypeInv, NEW w \in Writers, UNCHANGED <<doc, runs, before, stream, data, inPlace>>,
         path' \in 0 .. Len(data), temps' \subseteq temps,
         NEW l \in Labels, pc' = [pc EXCEPT ![w] = l],
         NEW o \in Outcomes, outcome' = outcome \/ outcome' = [outcome EXCEPT ![w] = o],
         l \in {"write", "rename", "close"} => fd[w] # 0,
         failed' \in [Writers -> BOOLEAN]
  PROVE  TypeInv'
<1>1. /\ data \in Files /\ Len(data) \in Nat /\ DOMAIN data = 1 .. Len(data)
      /\ temps \subseteq DOMAIN data /\ inPlace \in BOOLEAN
  BY DiskType DEF TypeInv
<1>2. fd[w] \in 0 .. Len(data) /\ fd' = [fd EXCEPT ![w] = fd[w]]
  BY DEF TypeInv, TypeOK, stream
<1>3. /\ put' \in [Writers -> Nat] /\ off' \in [Writers -> Nat]
      /\ off'[w] \in 0 .. put'[w] /\ put'[w] \in 0 .. Size[doc[w]]
      /\ \A v \in Writers : v # w => put'[v] = put[v] /\ off'[v] = off[v]
      /\ bad' \in [Writers -> BOOLEAN]
  BY DEF TypeInv, TypeOK, stream
<1>4. /\ data' \in Files /\ Len(data) <= Len(data') /\ path' \in 0 .. Len(data')
      /\ temps' \subseteq DOMAIN data' /\ inPlace' \in BOOLEAN
      /\ fd[w] \in 0 .. Len(data')
  BY <1>1, <1>2
<1> QED BY <1>2, <1>3, <1>4, StepType

\* A step that moves the process on and leaves files and stream alone.
LEMMA MoveType ==
  ASSUME TypeInv, NEW w \in Writers, UNCHANGED <<disk, doc, runs, before, stream, failed>>,
         NEW l \in Labels, pc' = [pc EXCEPT ![w] = l],
         NEW o \in Outcomes, outcome' = outcome \/ outcome' = [outcome EXCEPT ![w] = o],
         l \in {"write", "rename", "close"} => fd[w] # 0
  PROVE  TypeInv'
<1>1. /\ UNCHANGED <<data, inPlace>> /\ path' \in 0 .. Len(data) /\ temps' \subseteq temps
      /\ failed' \in [Writers -> BOOLEAN]
  BY DEF TypeInv, TypeOK, disk
<1> QED BY <1>1, QuietStepType

\* shouldWrite keeps the types.
LEMMA CheckType == ASSUME TypeInv, NEW w \in Writers, shouldWrite(w) PROVE TypeInv'
<1>1. PICK action \in {"new", "skip", "replace"} :
        IF action = "skip" THEN Finish(w, "success") ELSE Goto(w, action) /\ UNCHANGED outcome
  BY DEF shouldWrite, WriteAction
<1>2. UNCHANGED <<disk, doc, runs, before, stream, failed>>
  BY DEF shouldWrite
<1>3. CASE action = "skip"
  <2>1. pc' = [pc EXCEPT ![w] = "idle"] /\ outcome' = [outcome EXCEPT ![w] = "success"]
    BY <1>1, <1>3 DEF Finish, Goto
  <2>2. "idle" \in Labels /\ "success" \in Outcomes
    BY DEF Labels, Outcomes
  <2> QED BY <1>2, <2>1, <2>2, MoveType
<1>4. CASE action # "skip"
  <2>1. pc' = [pc EXCEPT ![w] = action] /\ UNCHANGED outcome
    BY <1>1, <1>4 DEF Goto
  <2>2. action \in Labels /\ action \notin {"write", "rename", "close"} /\ "none" \in Outcomes
    BY <1>4 DEF Labels, Outcomes
  <2> QED BY <1>2, <2>1, <2>2, MoveType
<1> QED BY <1>3, <1>4

\* createUniqueFile keeps the types; the file it creates is new.
LEMMA CreateType == ASSUME TypeInv, NEW w \in Writers, createUniqueFile(w) PROVE TypeInv'
<1>1. UNCHANGED <<path, inPlace, doc, runs, put, off, bad, failed, outcome, before>>
  BY DEF createUniqueFile
<1>2. failed' \in [Writers -> BOOLEAN]
  BY <1>1 DEF TypeInv, TypeOK
<1>3. /\ data \in Files /\ Len(data) \in Nat /\ path \in 0 .. Len(data)
      /\ temps \subseteq DOMAIN data /\ DOMAIN data = 1 .. Len(data) /\ inPlace \in BOOLEAN
  BY DiskType DEF TypeInv
<1>4. CASE /\ data' = IF TemporaryFile \in DOMAIN data
                      THEN [data EXCEPT ![TemporaryFile] = <<>>] ELSE Append(data, <<>>)
           /\ temps' = temps \cup {TemporaryFile}
           /\ fd' = [fd EXCEPT ![w] = TemporaryFile] /\ Goto(w, "write")
  <2>1. TemporaryFile = Len(data) + 1 /\ TemporaryFile \notin DOMAIN data
    BY <1>3 DEF TemporaryFile
  <2>2. data' = Append(data, <<>>)
    BY <1>4, <2>1
  <2>3. data' \in Files /\ Len(data') = Len(data) + 1
    BY <1>3, <2>2, NewFile
  <2>4. temps' \subseteq DOMAIN data' /\ path' \in 0 .. Len(data') /\ Len(data) <= Len(data')
    BY <1>1, <1>3, <1>4, <2>1, <2>3 DEF Files
  <2>5. TemporaryFile \in 0 .. Len(data') /\ TemporaryFile # 0
    BY <1>3, <2>1, <2>3
  <2>6. pc' = [pc EXCEPT ![w] = "write"]
    BY <1>4 DEF Goto
  <2>7. /\ put' \in [Writers -> Nat] /\ off' \in [Writers -> Nat]
        /\ off'[w] \in 0 .. put'[w] /\ put'[w] \in 0 .. Size[doc[w]]
        /\ \A v \in Writers : v # w => put'[v] = put[v] /\ off'[v] = off[v]
        /\ bad' \in [Writers -> BOOLEAN]
    BY <1>1 DEF TypeInv, TypeOK
  <2>8. "write" \in Labels /\ "none" \in Outcomes
    BY DEF Labels, Outcomes
  <2> QED BY <1>1, <1>2, <1>3, <1>4, <2>3, <2>4, <2>5, <2>6, <2>7, <2>8, StepType
<1>5. CASE Goto(w, AfterCreateFailure) /\ UNCHANGED <<data, temps, fd>>
  <2>1. pc' = [pc EXCEPT ![w] = "new"]
    BY <1>5 DEF Goto, AfterCreateFailure
  <2>2. UNCHANGED <<disk, stream>>
    BY <1>1, <1>5 DEF createUniqueFile, disk, stream
  <2>3. "new" \in Labels /\ "none" \in Outcomes
    BY DEF Labels, Outcomes
  <2> QED BY <1>1, <2>1, <2>2, <2>3, MoveType
<1> QED BY <1>4, <1>5 DEF createUniqueFile

\* writeFileWithoutTemporary keeps the types.
LEMMA InPlaceType ==
  ASSUME TypeInv, NEW w \in Writers, writeFileWithoutTemporary(w)
  PROVE  TypeInv'
<1>1. UNCHANGED <<temps, doc, runs, put, off, bad, failed, before>>
  BY DEF writeFileWithoutTemporary
<1>2. failed' \in [Writers -> BOOLEAN]
  BY <1>1 DEF TypeInv, TypeOK
<1>3. /\ data \in Files /\ Len(data) \in Nat /\ path \in 0 .. Len(data)
      /\ temps \subseteq DOMAIN data /\ DOMAIN data = 1 .. Len(data) /\ inPlace \in BOOLEAN
  BY DiskType DEF TypeInv
<1>4. CASE /\ IF path = 0
              THEN data' = Append(data, <<>>) /\ path' = Len(data) + 1
              ELSE data' = [data EXCEPT ![path] = <<>>] /\ UNCHANGED path
           /\ fd' = [fd EXCEPT ![w] = path'] /\ inPlace' = TRUE
           /\ Goto(w, "write") /\ UNCHANGED outcome
  <2>1. /\ data' \in Files /\ Len(data) <= Len(data') /\ Len(data') \in Nat
        /\ path' \in 0 .. Len(data') /\ path' # 0
    <3>1. CASE path = 0
      <4>1. data' = Append(data, <<>>) /\ path' = Len(data) + 1
        BY <1>4, <3>1
      <4>2. data' \in Files /\ Len(data') = Len(data) + 1
        BY <1>3, <4>1, NewFile
      <4> QED BY <1>3, <4>1, <4>2
    <3>2. CASE path # 0
      <4>1. path \in 1 .. Len(data) /\ <<>> \in Seq(Pieces)
        BY <1>3, <3>2
      <4>2. data' = [data EXCEPT ![path] = <<>>] /\ path' = path
        BY <1>4, <3>2
      <4>3. data' \in Files /\ Len(data') = Len(data)
        BY <1>3, <4>1, <4>2, ChangedFile
      <4> QED BY <1>3, <3>2, <4>2, <4>3
    <3> QED BY <3>1, <3>2
  <2>2. temps' \subseteq DOMAIN data'
    BY <1>1, <1>3, <2>1 DEF Files
  <2>3. pc' = [pc EXCEPT ![w] = "write"]
    BY <1>4 DEF Goto
  <2>4. /\ put' \in [Writers -> Nat] /\ off' \in [Writers -> Nat]
        /\ off'[w] \in 0 .. put'[w] /\ put'[w] \in 0 .. Size[doc[w]]
        /\ \A v \in Writers : v # w => put'[v] = put[v] /\ off'[v] = off[v]
        /\ bad' \in [Writers -> BOOLEAN]
    BY <1>1 DEF TypeInv, TypeOK
  <2>5. "write" \in Labels /\ "none" \in Outcomes /\ inPlace' \in BOOLEAN
    BY <1>4 DEF Labels, Outcomes
  <2> QED BY <1>1, <1>2, <1>4, <2>1, <2>2, <2>3, <2>4, <2>5, StepType
<1>5. CASE Finish(w, "aborted") /\ UNCHANGED <<path, data, fd, inPlace>>
  <2>1. pc' = [pc EXCEPT ![w] = "idle"] /\ outcome' = [outcome EXCEPT ![w] = "aborted"]
    BY <1>5 DEF Finish, Goto
  <2>2. UNCHANGED <<disk, stream>>
    BY <1>1, <1>5 DEF disk, stream
  <2>3. "idle" \in Labels /\ "aborted" \in Outcomes
    BY DEF Labels, Outcomes
  <2> QED BY <1>1, <2>1, <2>2, <2>3, MoveType
<1> QED BY <1>4, <1>5 DEF writeFileWithoutTemporary

\* A piece handed to write(2) keeps the types, whichever label comes next.
LEMMA PieceStepType ==
  ASSUME TypeInv, NEW w \in Writers, fd[w] # 0, put[w] < Size[doc[w]], WritePiece(w),
         UNCHANGED <<path, temps, inPlace, doc, runs, fd, failed, before>>,
         NEW l \in Labels, pc' = [pc EXCEPT ![w] = l],
         NEW o \in Outcomes, outcome' = outcome \/ outcome' = [outcome EXCEPT ![w] = o]
  PROVE  TypeInv'
<1>1. /\ data \in Files /\ Len(data) \in Nat /\ path \in 0 .. Len(data)
      /\ temps \subseteq DOMAIN data /\ DOMAIN data = 1 .. Len(data) /\ inPlace \in BOOLEAN
  BY DiskType DEF TypeInv
<1>2. /\ data' \in Files /\ Len(data') = Len(data)
      /\ put' \in [Writers -> Nat] /\ off' \in [Writers -> Nat]
      /\ bad' \in [Writers -> BOOLEAN]
      /\ off'[w] \in 0 .. put'[w] /\ put'[w] \in 0 .. Size[doc[w]]
      /\ \A v \in Writers : v # w => put'[v] = put[v] /\ off'[v] = off[v]
  BY WritePieceType DEF TypeInv
<1>3. fd[w] \in 0 .. Len(data) /\ fd' = [fd EXCEPT ![w] = fd[w]] /\ failed' \in [Writers -> BOOLEAN]
  BY DEF TypeInv, TypeOK
<1>4. /\ Len(data) <= Len(data') /\ path' \in 0 .. Len(data') /\ fd[w] \in 0 .. Len(data')
      /\ temps' \subseteq DOMAIN data' /\ inPlace' \in BOOLEAN
  BY <1>1, <1>2, <1>3 DEF Files
<1> QED BY <1>2, <1>3, <1>4, StepType

\* flush_nonempty keeps the types.
LEMMA FlushType == ASSUME TypeInv, NEW w \in Writers, flush_nonempty(w) PROVE TypeInv'
<1>1. /\ fd[w] # 0 /\ put[w] < Size[doc[w]] /\ WritePiece(w) /\ pc[w] \in Labels
      /\ pc' = [pc EXCEPT ![w] = pc[w]]
      /\ UNCHANGED <<path, temps, inPlace, doc, runs, fd, failed, before, outcome>>
  BY DEF flush_nonempty, TypeInv, TypeOK, Labels
<1>2. "none" \in Outcomes
  BY DEF Outcomes
<1> QED BY <1>1, <1>2, PieceStepType

\* NoText keeps the types.
LEMMA NoTextType == ASSUME TypeInv, NEW w \in Writers, NoText(w) PROVE TypeInv'
<1>1. /\ pc' = [pc EXCEPT ![w] = "idle"] /\ outcome' = [outcome EXCEPT ![w] = "failed"]
      /\ UNCHANGED <<data, inPlace, path, temps, doc, runs, stream, before>>
  BY DEF NoText, Finish, Goto, disk
<1>2. "idle" \in Labels /\ "failed" \in Outcomes
  BY DEF Labels, Outcomes
<1>3. path' \in 0 .. Len(data) /\ temps' \subseteq temps /\ failed' \in [Writers -> BOOLEAN]
  BY <1>1 DEF NoText, TypeInv, TypeOK
<1> QED BY <1>1, <1>2, <1>3, QuietStepType

\* EndOfText keeps the types.
LEMMA EndOfTextType == ASSUME TypeInv, NEW w \in Writers, EndOfText(w) PROVE TypeInv'
<1> DEFINE l == IF fd[w] \in temps THEN "rename" ELSE "close"
<1>1. /\ pc' = [pc EXCEPT ![w] = l] /\ fd[w] # 0
      /\ UNCHANGED <<disk, doc, runs, stream, failed, before, outcome>>
  BY DEF EndOfText, Goto, TypeInv, TypeOK
<1>2. l \in Labels /\ "none" \in Outcomes
  BY DEF Labels, Outcomes
<1> HIDE DEF l
<1> QED BY <1>1, <1>2, MoveType

\* rename keeps the types.
LEMMA RenameType == ASSUME TypeInv, NEW w \in Writers, rename(w) PROVE TypeInv'
<1>1. /\ pc' = [pc EXCEPT ![w] = "close"] /\ fd[w] # 0 /\ fd[w] \in 0 .. Len(data)
      /\ UNCHANGED <<data, inPlace, doc, runs, stream, before, outcome>>
  BY DEF rename, Goto, TypeInv, TypeOK
<1>2. path' \in 0 .. Len(data) /\ temps' \subseteq temps /\ failed' \in [Writers -> BOOLEAN]
  <2>1. CASE path' = fd[w] /\ temps' = Renamed(w) /\ UNCHANGED failed
    BY <1>1, <2>1 DEF Renamed, TypeInv, TypeOK
  <2>2. CASE failed' = [failed EXCEPT ![w] = TRUE] /\ UNCHANGED <<path, temps>>
    BY <2>2 DEF TypeInv, TypeOK
  <2> QED BY <2>1, <2>2 DEF rename
<1>3. "close" \in Labels /\ "none" \in Outcomes
  BY DEF Labels, Outcomes
<1> QED BY <1>1, <1>2, <1>3, QuietStepType

\* closeStream keeps the types.
LEMMA CloseType == ASSUME TypeInv, NEW w \in Writers, closeStream(w) PROVE TypeInv'
<1>1. /\ pc' = [pc EXCEPT ![w] = "idle"] /\ outcome' = [outcome EXCEPT ![w] = Result(w)]
      /\ fd[w] # 0 /\ UNCHANGED <<path, temps, inPlace, doc, runs, fd, failed, before>>
  BY DEF closeStream, Finish, Goto, TypeInv, TypeOK
<1>2. "idle" \in Labels /\ Result(w) \in Outcomes
  BY DEF Labels, Outcomes, Result
<1>3. CASE put[w] < Size[doc[w]] /\ WritePiece(w)
  BY <1>1, <1>2, <1>3, PieceStepType
<1>4. CASE UNCHANGED <<put, data, off, bad>>
  <2>1. UNCHANGED <<disk, stream>>
    BY <1>1, <1>4 DEF disk, stream
  <2> QED BY <1>1, <1>2, <2>1, MoveType
<1> QED BY <1>3, <1>4 DEF closeStream

\* A crash keeps the types.
LEMMA CrashType == ASSUME TypeInv, NEW w \in Writers, Crash(w) PROVE TypeInv'
<1>1. /\ pc' = [pc EXCEPT ![w] = "idle"] /\ outcome' = [outcome EXCEPT ![w] = "crashed"]
      /\ UNCHANGED <<disk, doc, runs, stream, failed, before>>
  BY DEF Crash, Finish, Goto
<1>2. "idle" \in Labels /\ "crashed" \in Outcomes
  BY DEF Labels, Outcomes
<1> QED BY <1>1, <1>2, MoveType

\* The types are invariant.
LEMMA TypeInvariant == Spec => []TypeInv
<1>1. TypeInv /\ [Next]_vars => TypeInv'
  <2> SUFFICES ASSUME TypeInv, [Next]_vars PROVE TypeInv'
    OBVIOUS
  <2>1. ASSUME NEW w \in Writers, Begin(w) \/ WriterStep(w) \/ Crash(w)
        PROVE  TypeInv'
    BY <2>1, BeginType, CheckType, CreateType, InPlaceType, NoTextType, FlushType, EndOfTextType,
       RenameType, CloseType, CrashType DEF WriterStep
  <2>2. CASE UNCHANGED vars
    BY <2>2 DEF vars, disk, stream, TypeInv, TypeOK
  <2> QED BY <2>1, <2>2 DEF Next
<1> QED BY <1>1, InitType, PTL DEF Spec

\* Files, streams and processes keep their types, and a stream that is written
\* always has an open file.
THEOREM TypeCorrect == Spec => []TypeOK
<1>1. TypeInv => TypeOK
  BY DEF TypeInv
<1> QED BY <1>1, TypeInvariant, PTL

(***************************************************************************)
(* Temporary files                                                         *)
(***************************************************************************)

\* A run is under way exactly when its process is not idle.
RunInv == \A w \in Writers : pc[w] # "idle" <=> outcome[w] = "running"

\* Until a file is opened there is none; a stream that closes without a failed
\* rename, and a run that succeeded, have no temporary file.
TempInv ==
  \A w \in Writers :
    /\ pc[w] \in {"check", "new", "replace"} => fd[w] = 0
    /\ pc[w] \in {"close"} /\ ~failed[w] => fd[w] \notin temps
    /\ outcome[w] = "success" => fd[w] \notin temps

\* The steps of a process leave the others where they are.
LEMMA OthersKept ==
  ASSUME TypeInv, NEW w \in Writers, Begin(w) \/ WriterStep(w) \/ Crash(w),
         NEW v \in Writers, v # w
  PROVE  /\ pc'[v] = pc[v] /\ fd'[v] = fd[v] /\ outcome'[v] = outcome[v]
         /\ failed'[v] = failed[v] /\ doc'[v] = doc[v] /\ put'[v] = put[v]
         /\ off'[v] = off[v] /\ bad'[v] = bad[v]
<1> USE DEF TypeInv, TypeOK, Goto, Finish
<1>1. CASE Begin(w)
  BY <1>1 DEF Begin
<1>2. CASE shouldWrite(w)
  BY <1>2 DEF shouldWrite, stream
<1>3. CASE createUniqueFile(w)
  BY <1>3 DEF createUniqueFile
<1>4. CASE writeFileWithoutTemporary(w)
  BY <1>4 DEF writeFileWithoutTemporary
<1>5. CASE flush_nonempty(w)
  BY <1>5 DEF flush_nonempty, WritePiece
<1>6. CASE EndOfText(w)
  BY <1>6 DEF EndOfText, stream
<1>7. CASE rename(w)
  BY <1>7 DEF rename, stream
<1>8. CASE closeStream(w)
  BY <1>8 DEF closeStream, WritePiece
<1>9. CASE NoText(w) \/ Crash(w)
  BY <1>9 DEF NoText, Crash, stream
<1> QED BY <1>1, <1>2, <1>3, <1>4, <1>5, <1>6, <1>7, <1>8, <1>9 DEF WriterStep

\* Where a step takes the process, and how it ends the run.
LEMMA OwnMove ==
  ASSUME TypeInv, NEW w \in Writers
  PROVE  /\ Begin(w) => pc'[w] = "check" /\ outcome'[w] = "running"
         /\ shouldWrite(w) => \/ pc'[w] = "idle" /\ outcome'[w] = "success"
                              \/ pc'[w] \in {"new", "replace"} /\ outcome'[w] = outcome[w]
         /\ createUniqueFile(w) => pc'[w] \in {"new", "write"} /\ outcome'[w] = outcome[w]
         /\ writeFileWithoutTemporary(w) => \/ pc'[w] = "write" /\ outcome'[w] = outcome[w]
                                            \/ pc'[w] = "idle" /\ outcome'[w] = "aborted"
         /\ NoText(w) => pc'[w] = "idle" /\ outcome'[w] = "failed"
         /\ flush_nonempty(w) => pc'[w] = "write" /\ outcome'[w] = outcome[w]
         /\ EndOfText(w) => pc'[w] \in {"rename", "close"} /\ outcome'[w] = outcome[w]
         /\ rename(w) => pc'[w] = "close" /\ outcome'[w] = outcome[w]
         /\ closeStream(w) => pc'[w] = "idle" /\ outcome'[w] = Result(w)
         /\ Crash(w) => pc'[w] = "idle" /\ outcome'[w] = "crashed"
<1> USE DEF TypeInv, TypeOK, Goto, Finish
<1>1. Begin(w) => pc'[w] = "check" /\ outcome'[w] = "running"
  BY DEF Begin
<1>2. shouldWrite(w) => \/ pc'[w] = "idle" /\ outcome'[w] = "success"
                        \/ pc'[w] \in {"new", "replace"} /\ outcome'[w] = outcome[w]
  BY DEF shouldWrite, WriteAction
<1>3. createUniqueFile(w) => pc'[w] \in {"new", "write"} /\ outcome'[w] = outcome[w]
  BY DEF createUniqueFile, AfterCreateFailure
<1>4. writeFileWithoutTemporary(w) => \/ pc'[w] = "write" /\ outcome'[w] = outcome[w]
                                      \/ pc'[w] = "idle" /\ outcome'[w] = "aborted"
  BY DEF writeFileWithoutTemporary
<1>5. flush_nonempty(w) => pc'[w] = "write" /\ outcome'[w] = outcome[w]
  BY DEF flush_nonempty
<1>6. EndOfText(w) => pc'[w] \in {"rename", "close"} /\ outcome'[w] = outcome[w]
  BY DEF EndOfText
<1>7. rename(w) => pc'[w] = "close" /\ outcome'[w] = outcome[w]
  BY DEF rename
<1>8. closeStream(w) => pc'[w] = "idle" /\ outcome'[w] = Result(w)
  BY DEF closeStream
<1>9. Crash(w) => pc'[w] = "idle" /\ outcome'[w] = "crashed"
  BY DEF Crash
<1>10. NoText(w) => pc'[w] = "idle" /\ outcome'[w] = "failed"
  BY DEF NoText
<1> QED BY <1>1, <1>2, <1>3, <1>4, <1>5, <1>6, <1>7, <1>8, <1>9, <1>10

\* A run is under way exactly while its process works.
LEMMA RunInvariant == Spec => []RunInv
<1>1. Init => RunInv
  BY DEF Init, RunInv
<1>2. TypeInv /\ RunInv /\ [Next]_vars => RunInv'
  <2> SUFFICES ASSUME TypeInv, RunInv, [Next]_vars PROVE RunInv'
    OBVIOUS
  <2>1. CASE UNCHANGED vars
    BY <2>1 DEF vars, RunInv
  <2>2. ASSUME NEW w \in Writers, Begin(w) \/ WriterStep(w) \/ Crash(w)
        PROVE  RunInv'
    <3>1. \A v \in Writers : v # w => pc'[v] = pc[v] /\ outcome'[v] = outcome[v]
      BY <2>2, OthersKept
    <3>2. Begin(w) \/ pc[w] # "idle"
      BY <2>2 DEF WriterStep, shouldWrite, createUniqueFile, writeFileWithoutTemporary,
         flush_nonempty, NoText, EndOfText, rename, closeStream, Crash
    <3>3. pc'[w] # "idle" <=> outcome'[w] = "running"
      BY <2>2, <3>2, OwnMove DEF WriterStep, RunInv, Result
    <3> QED BY <3>1, <3>3 DEF RunInv
  <2> QED BY <2>1, <2>2 DEF Next
<1> QED BY <1>1, <1>2, TypeInvariant, PTL DEF Spec

\* A temporary file gets a name that no stream, path or run has had.
LEMMA TemporaryIsNew ==
  ASSUME TypeOK, NEW w \in Writers, createUniqueFile(w), pc'[w] = "write"
  PROVE  /\ data' = Append(data, <<>>) /\ temps' = temps \cup {TemporaryFile}
         /\ fd'[w] = TemporaryFile
         /\ TemporaryFile = Len(data) + 1 /\ Len(data) \in Nat
         /\ TemporaryFile # path /\ \A v \in Writers : TemporaryFile # fd[v]
<1>1. Len(data) \in Nat /\ DOMAIN data = 1 .. Len(data) /\ path \in 0 .. Len(data)
  BY DiskType
<1>2. TemporaryFile = Len(data) + 1 /\ TemporaryFile \notin DOMAIN data
  BY <1>1 DEF TemporaryFile
<1>3. TemporaryFile # path /\ \A v \in Writers : TemporaryFile # fd[v]
  BY <1>1, <1>2 DEF TypeOK
<1>4. ~Goto(w, AfterCreateFailure)
  BY DEF Goto, AfterCreateFailure, TypeOK
<1> QED BY <1>1, <1>2, <1>3, <1>4 DEF createUniqueFile, TypeOK

\* A step of a process leaves its own temporary file only behind an error.
LEMMA OwnTemporary ==
  ASSUME TypeInv, RunInv, TempInv, NEW w \in Writers, Begin(w) \/ WriterStep(w) \/ Crash(w)
  PROVE  /\ pc'[w] \in {"check", "new", "replace"} => fd'[w] = 0
         /\ pc'[w] = "close" /\ ~failed'[w] => fd'[w] \notin temps'
         /\ outcome'[w] = "success" => fd'[w] \notin temps'
<1>1. 0 \notin temps
  BY DiskType DEF TypeInv
<1>2. CASE Begin(w)
  BY <1>2, OwnMove DEF Begin, TypeInv, TypeOK
<1>3. CASE shouldWrite(w)
  <2>1. fd[w] = 0 /\ fd' = fd /\ temps' = temps
    BY <1>3 DEF shouldWrite, TempInv, stream, disk
  <2> QED BY <1>1, <1>3, <2>1, OwnMove
<1>4. CASE createUniqueFile(w)
  <2>1. outcome'[w] = "running" /\ pc'[w] \in {"new", "write"}
    BY <1>4, OwnMove DEF RunInv, createUniqueFile
  <2>2. CASE pc'[w] = "new"
    <3>1. UNCHANGED fd
      BY <1>4, <2>2 DEF createUniqueFile, Goto, TypeInv, TypeOK
    <3>2. fd[w] = 0
      BY <1>4 DEF createUniqueFile, TempInv
    <3> QED BY <2>1, <2>2, <3>1, <3>2
  <2> QED BY <2>1, <2>2
<1>5. CASE writeFileWithoutTemporary(w)
  <2>1. pc[w] = "new"
    BY <1>5 DEF writeFileWithoutTemporary
  <2> QED BY <1>5, <2>1, OwnMove DEF RunInv
<1>6. CASE flush_nonempty(w)
  <2>1. pc[w] = "write"
    BY <1>6 DEF flush_nonempty
  <2> QED BY <1>6, <2>1, OwnMove DEF RunInv
<1>7. CASE EndOfText(w)
  <2>1. pc[w] = "write" /\ temps' = temps /\ fd' = fd
    BY <1>7 DEF EndOfText, disk, stream
  <2>2. pc'[w] = "close" => fd[w] \notin temps
    BY <1>7 DEF EndOfText, Goto, TypeInv, TypeOK
  <2> QED BY <1>7, <2>1, <2>2, OwnMove DEF RunInv
<1>8. CASE rename(w)
  <2>1. pc[w] = "rename" /\ fd' = fd
    BY <1>8 DEF rename, stream
  <2>2. ~failed'[w] => fd[w] \notin temps'
    BY <1>8 DEF rename, Renamed, TypeInv, TypeOK
  <2> QED BY <1>8, <2>1, <2>2, OwnMove DEF RunInv
<1>9. CASE closeStream(w)
  <2>1. pc[w] = "close" /\ temps' = temps /\ fd' = fd /\ failed' = failed
    BY <1>9 DEF closeStream
  <2>2. Result(w) = "success" => ~failed[w]
    BY <2>1 DEF Result, TypeInv, TypeOK
  <2> QED BY <1>9, <2>1, <2>2, OwnMove DEF TempInv
<1>10. CASE NoText(w) \/ Crash(w)
  BY <1>10, OwnMove
<1> QED BY <1>2, <1>3, <1>4, <1>5, <1>6, <1>7, <1>8, <1>9, <1>10 DEF WriterStep

\* The only temporary file a step adds is the one its own process opens.
LEMMA TempsGrow ==
  ASSUME TypeInv, NEW w \in Writers, Begin(w) \/ WriterStep(w) \/ Crash(w),
         NEW f \in temps', f \notin temps
  PROVE  f = Len(data) + 1 /\ Len(data) \in Nat
<1>1. CASE createUniqueFile(w)
  <2>1. UNCHANGED temps \/ temps' = temps \cup {TemporaryFile}
    BY <1>1 DEF createUniqueFile
  <2> QED BY <2>1, DiskType DEF TemporaryFile, TypeInv
<1>2. CASE rename(w)
  BY <1>2 DEF rename, Renamed
<1>3. CASE ~createUniqueFile(w) /\ ~rename(w)
  BY <1>3 DEF WriterStep, Begin, shouldWrite, writeFileWithoutTemporary, flush_nonempty,
     NoText, EndOfText, closeStream, Crash, disk
<1> QED BY <1>1, <1>2, <1>3

\* The invariant of the temporary files.
LEMMA TempInvariant == Spec => []TempInv
<1>1. Init => TempInv
  BY DEF Init, TempInv
<1>2. TypeInv /\ RunInv /\ TempInv /\ [Next]_vars => TempInv'
  <2> SUFFICES ASSUME TypeInv, RunInv, TempInv, [Next]_vars PROVE TempInv'
    OBVIOUS
  <2>1. CASE UNCHANGED vars
    BY <2>1 DEF vars, TempInv, stream, disk
  <2>2. ASSUME NEW w \in Writers, Begin(w) \/ WriterStep(w) \/ Crash(w)
        PROVE  TempInv'
    <3>1. ASSUME NEW v \in Writers, v # w
          PROVE  /\ pc'[v] \in {"check", "new", "replace"} => fd'[v] = 0
                 /\ pc'[v] \in {"close"} /\ ~failed'[v] => fd'[v] \notin temps'
                 /\ outcome'[v] = "success" => fd'[v] \notin temps'
      <4>1. /\ pc'[v] = pc[v] /\ fd'[v] = fd[v] /\ failed'[v] = failed[v]
            /\ outcome'[v] = outcome[v]
        BY <2>2, <3>1, OthersKept
      <4>2. fd[v] \in 0 .. Len(data) /\ Len(data) \in Nat
        BY DiskType DEF TypeInv, TypeOK
      <4>3. fd[v] \notin temps => fd[v] \notin temps'
        BY <2>2, <4>2, TempsGrow
      <4> QED BY <4>1, <4>3 DEF TempInv
    <3> QED BY <2>2, <3>1, OwnTemporary DEF TempInv
  <2> QED BY <2>1, <2>2 DEF Next
<1> QED BY <1>1, <1>2, TypeInvariant, RunInvariant, PTL DEF Spec

\* Whatever fails and whoever else writes, a run that succeeds has left no
\* temporary file behind (createUniqueFile and rename in Registry::writeFile).
THEOREM TemporaryIsGone == Spec => []NoTemporaryAfterSuccess
<1>1. TempInv => NoTemporaryAfterSuccess
  BY DEF TempInv, NoTemporaryAfterSuccess
<1> QED BY <1>1, TempInvariant, PTL

(***************************************************************************)
(* Streams                                                                 *)
(***************************************************************************)

Open == {"write", "rename", "close"}

\* The file of the stream holds what the stream was given, and nothing else.
Written(w) ==
  /\ off[w] = put[w] /\ Len(data[fd[w]]) = put[w]
  /\ \A i \in 1 .. put[w] : data[fd[w]][i] = Piece(doc[w], i)

\* Nobody truncates the file of another: there is one process, or none has
\* written in place.
Single == \A v, w \in Writers : v = w
Calm == Single \/ ~inPlace

\* Where a run is tells how far its stream and its temporary file are.
PhaseInv ==
  \A w \in Writers :
    /\ pc[w] \in {"check", "new", "replace"} => put[w] = 0 /\ off[w] = 0 /\ ~bad[w]
    /\ pc[w] \in {"check", "new", "replace", "write", "rename"} => ~failed[w]
    /\ pc[w] \in {"rename", "close"} => put[w] + 1 >= Size[doc[w]]
    /\ "write" \notin Faults \/ put[w] = 0 => ~bad[w]

\* As long as it is calm, open streams have files of their own, each file holds
\* what its stream was given unless a write failed, and what will be renamed still
\* is a temporary file.
OwnFile(v, w) == v # w /\ pc[v] \in Open /\ pc[w] \in Open => fd[v] # fd[w]
Stream(w) ==
  /\ pc[w] \in Open /\ ~bad[w] => Written(w)
  /\ pc[w] = "rename" => fd[w] \in temps
  /\ pc[w] = "write" /\ ~inPlace => fd[w] \in temps

StreamInv ==
  Calm => /\ \A v, w \in Writers : OwnFile(v, w)
          /\ \A w \in Writers : Stream(w)

\* A write of the next piece leaves the other files alone, and keeps the file of
\* the stream in step unless it fails.
LEMMA WritePieceEffect ==
  ASSUME TypeInv, NEW w \in Writers, fd[w] # 0, put[w] < Size[doc[w]], WritePiece(w),
         UNCHANGED <<fd, doc>>
  PROVE  /\ put'[w] = put[w] + 1
         /\ bad[w] => bad'[w]
         /\ "write" \notin Faults => bad'[w] = bad[w]
         /\ \A f \in 1 .. Len(data) : f # fd[w] => data'[f] = data[f]
         /\ Written(w) /\ ~bad'[w] => Written(w)'
<1>1. fd[w] \in 1 .. Len(data) /\ data \in Files
  BY DiskType DEF TypeInv, TypeOK
<1>2. doc[w] \in Docs /\ Size[doc[w]] \in Nat /\ put[w] \in Nat /\ off[w] \in Nat
  BY TextType DEF TypeInv, TypeOK
<1>3. put'[w] = put[w] + 1
  BY DEF TypeInv, TypeOK, WritePiece
<1>4. CASE bad' = [bad EXCEPT ![w] = TRUE] /\ UNCHANGED <<data, off>> /\ Fault("write")
  <2>1. "write" \in Faults
    BY <1>4 DEF Fault
  <2>2. bad'[w] = TRUE
    BY <1>4 DEF TypeInv, TypeOK
  <2> QED BY <1>3, <1>4, <2>1, <2>2
<1>5. CASE /\ data' = [data EXCEPT ![fd[w]] =
                         WriteAt(@, off[w] + 1, Piece(doc[w], put[w] + 1))]
           /\ off' = [off EXCEPT ![w] = @ + 1] /\ UNCHANGED bad
  <2> DEFINE piece == Piece(doc[w], put[w] + 1)
             at == off[w] + 1
             content == WriteAt(data[fd[w]], at, piece)
  <2>1. data[fd[w]] \in Seq(Pieces)
    BY <1>1, ElementOfSeq DEF Files
  <2>2. at \in Nat /\ at \in Nat \ {0}
    BY <1>2
  <2>3. piece \in Pieces
    <3>1. put[w] + 1 \in 1 .. Size[doc[w]]
      BY <1>2
    <3> QED BY <1>2, <3>1, PieceType
  <2>4. data' = [data EXCEPT ![fd[w]] = content]
    BY <1>5
  <2>5. off'[w] = at
    BY <1>5 DEF TypeInv, TypeOK
  <2>6. piece = Piece(doc[w], put[w] + 1) /\ at = off[w] + 1
    OBVIOUS
  <2> HIDE DEF piece, at
  <2>7. content \in Seq(Pieces)
    BY <2>1, <2>2, <2>3, WriteAtType, Zenon
  <2>8. at = Len(data[fd[w]]) + 1 =>
          /\ Len(content) = at
          /\ \A i \in 1 .. Len(data[fd[w]]) : content[i] = data[fd[w]][i]
          /\ content[at] = piece
    BY <2>1, <2>2, <2>3, WriteAtEnd, Zenon
  <2> HIDE DEF content
  <2>9. \A g \in 1 .. Len(data) : data'[g] = IF g = fd[w] THEN content ELSE data[g]
    BY <1>1, <2>4, <2>7, ChangedFile
  <2>10. data'[fd'[w]] = content
    BY <1>1, <2>9
  <2>11. ASSUME Written(w) PROVE Written(w)'
    <3>1. at = Len(data[fd[w]]) + 1 /\ Len(data[fd[w]]) = put[w] /\ at = put[w] + 1
      BY <2>6, <2>11 DEF Written
    <3>2. \A i \in 1 .. put[w] + 1 : content[i] = Piece(doc[w], i)
      <4> SUFFICES ASSUME NEW i \in 1 .. put[w] + 1 PROVE content[i] = Piece(doc[w], i)
        OBVIOUS
      <4>1. CASE i = put[w] + 1
        BY <2>6, <2>8, <3>1, <4>1
      <4>2. CASE i # put[w] + 1
        <5>1. i \in 1 .. put[w]
          BY <1>2, <4>2
        <5> QED BY <2>8, <2>11, <3>1, <5>1 DEF Written
      <4> QED BY <4>1, <4>2
    <3>3. Len(content) = put[w] + 1
      BY <2>8, <3>1
    <3>4. doc'[w] = doc[w]
      OBVIOUS
    <3> QED BY <1>3, <2>5, <2>10, <3>1, <3>2, <3>3, <3>4 DEF Written
  <2> QED BY <1>3, <1>5, <2>9, <2>11
<1> QED BY <1>4, <1>5 DEF WritePiece

\* The steps of a process keep its phase.
LEMMA OwnPhase ==
  ASSUME TypeInv, PhaseInv, NEW w \in Writers, Begin(w) \/ WriterStep(w) \/ Crash(w)
  PROVE  /\ pc'[w] \in {"check", "new", "replace"} => put'[w] = 0 /\ off'[w] = 0 /\ ~bad'[w]
         /\ pc'[w] \in {"check", "new", "replace", "write", "rename"} => ~failed'[w]
         /\ pc'[w] \in {"rename", "close"} => put'[w] + 1 >= Size[doc'[w]]
         /\ "write" \notin Faults \/ put'[w] = 0 => ~bad'[w]
<1>1. CASE Begin(w)
  <2>1. put'[w] = 0 /\ off'[w] = 0 /\ ~bad'[w] /\ ~failed'[w]
    BY <1>1 DEF Begin, TypeInv, TypeOK
  <2> QED BY <1>1, <2>1, OwnMove
<1>2. CASE shouldWrite(w)
  <2>1. pc[w] = "check" /\ UNCHANGED <<put, off, bad, failed>>
    BY <1>2 DEF shouldWrite, stream
  <2> QED BY <1>2, <2>1, OwnMove DEF PhaseInv
<1>3. CASE createUniqueFile(w)
  <2>1. pc[w] = "replace" /\ UNCHANGED <<put, off, bad, failed>>
    BY <1>3 DEF createUniqueFile
  <2> QED BY <1>3, <2>1, OwnMove DEF PhaseInv
<1>4. CASE writeFileWithoutTemporary(w)
  <2>1. pc[w] = "new" /\ UNCHANGED <<put, off, bad, failed>>
    BY <1>4 DEF writeFileWithoutTemporary
  <2> QED BY <1>4, <2>1, OwnMove DEF PhaseInv
<1>5. CASE flush_nonempty(w)
  <2>1. pc[w] = "write" /\ put[w] < Size[doc[w]] /\ WritePiece(w) /\ fd[w] # 0
        /\ UNCHANGED <<fd, doc, failed>>
    BY <1>5 DEF flush_nonempty, TypeInv, TypeOK
  <2>2. ("write" \notin Faults => bad'[w] = bad[w]) /\ put'[w] = put[w] + 1 /\ put[w] \in Nat
    BY <2>1, WritePieceEffect DEF TypeInv, TypeOK
  <2> QED BY <1>5, <2>1, <2>2, OwnMove DEF PhaseInv
<1>6. CASE EndOfText(w)
  <2>1. pc[w] = "write" /\ put[w] + 1 >= Size[doc[w]] /\ UNCHANGED <<put, off, bad, failed, doc>>
    BY <1>6 DEF EndOfText, Buffered, stream
  <2> QED BY <1>6, <2>1, OwnMove DEF PhaseInv
<1>7. CASE rename(w)
  <2>1. pc[w] = "rename" /\ UNCHANGED <<put, bad, doc>>
    BY <1>7 DEF rename, stream
  <2> QED BY <1>7, <2>1, OwnMove DEF PhaseInv
<1>8. CASE closeStream(w)
  <2>1. pc[w] = "close" /\ fd[w] # 0 /\ UNCHANGED <<fd, doc>>
    BY <1>8 DEF closeStream, TypeInv, TypeOK
  <2>2. /\ "write" \notin Faults => bad'[w] = bad[w]
        /\ put'[w] = put[w] + 1 \/ UNCHANGED <<put, bad>>
        /\ put[w] \in Nat
    BY <1>8, <2>1, WritePieceEffect DEF closeStream, TypeInv, TypeOK
  <2> QED BY <1>8, <2>2, OwnMove DEF PhaseInv
<1>9. CASE NoText(w) \/ Crash(w)
  <2>1. UNCHANGED <<put, bad>>
    BY <1>9 DEF NoText, Crash, stream
  <2> QED BY <1>9, <2>1, OwnMove DEF PhaseInv
<1> QED BY <1>1, <1>2, <1>3, <1>4, <1>5, <1>6, <1>7, <1>8, <1>9 DEF WriterStep

\* The invariant of the phases.
LEMMA PhaseInvariant == Spec => []PhaseInv
<1>1. Init => PhaseInv
  BY DEF Init, PhaseInv
<1>2. TypeInv /\ PhaseInv /\ [Next]_vars => PhaseInv'
  <2> SUFFICES ASSUME TypeInv, PhaseInv, [Next]_vars PROVE PhaseInv'
    OBVIOUS
  <2>1. CASE UNCHANGED vars
    BY <2>1 DEF vars, PhaseInv, stream
  <2>2. ASSUME NEW w \in Writers, Begin(w) \/ WriterStep(w) \/ Crash(w)
        PROVE  PhaseInv'
    <3>1. ASSUME NEW v \in Writers, v # w
          PROVE  /\ pc'[v] = pc[v] /\ failed'[v] = failed[v] /\ doc'[v] = doc[v]
                 /\ put'[v] = put[v] /\ off'[v] = off[v] /\ bad'[v] = bad[v]
      BY <2>2, <3>1, OthersKept
    <3> QED BY <2>2, <3>1, OwnPhase DEF PhaseInv
  <2> QED BY <2>1, <2>2 DEF Next
<1> QED BY <1>1, <1>2, TypeInvariant, PTL DEF Spec

\* What a process does when it is calm leaves the open files of the others alone.
LEMMA OthersFiles ==
  ASSUME TypeInv, StreamInv, Calm', NEW w \in Writers, Begin(w) \/ WriterStep(w) \/ Crash(w),
         NEW v \in Writers, v # w, pc[v] \in Open
  PROVE  /\ Calm /\ data'[fd[v]] = data[fd[v]]
         /\ fd[v] \in temps => fd[v] \in temps'
         /\ inPlace' = inPlace
<1>1. ~Single /\ ~Single'
  BY DEF Single
<1>2. ~inPlace'
  BY <1>1 DEF Calm
<1>3. fd[v] \in 1 .. Len(data) /\ data \in Files
  <2>1. fd[v] \in 0 .. Len(data) /\ fd[v] # 0
    BY DEF TypeInv, TypeOK, Open
  <2> QED BY <2>1, DiskType DEF TypeInv
<1>4. CASE Begin(w) \/ shouldWrite(w) \/ EndOfText(w) \/ NoText(w) \/ Crash(w)
  BY <1>2, <1>4 DEF Begin, shouldWrite, NoText, EndOfText, Crash, disk, Calm
<1>5. CASE createUniqueFile(w)
  <2>1. \/ UNCHANGED <<data, temps>>
        \/ data' = Append(data, <<>>) /\ temps' = temps \cup {TemporaryFile}
    <3>1. TemporaryFile \notin DOMAIN data
      BY DiskType DEF TypeInv, TemporaryFile
    <3> QED BY <1>5, <3>1 DEF createUniqueFile
  <2>2. data'[fd[v]] = data[fd[v]]
    BY <1>3, <2>1, NewFile
  <2> QED BY <1>2, <1>5, <2>1, <2>2 DEF createUniqueFile, Calm
<1>6. CASE writeFileWithoutTemporary(w)
  BY <1>2, <1>6 DEF writeFileWithoutTemporary, Calm
<1>7. CASE flush_nonempty(w) \/ closeStream(w)
  <2>1. pc[w] \in Open /\ fd[w] # 0 /\ UNCHANGED <<fd, doc, inPlace, temps>>
    BY <1>7 DEF flush_nonempty, closeStream, Open, TypeInv, TypeOK
  <2>2. Calm
    BY <1>2, <2>1 DEF Calm
  <2>3. fd[v] # fd[w]
    BY <2>1, <2>2 DEF StreamInv, OwnFile
  <2>4. UNCHANGED data \/ (WritePiece(w) /\ put[w] < Size[doc[w]])
    BY <1>7 DEF flush_nonempty, closeStream
  <2>5. data'[fd[v]] = data[fd[v]]
    BY <1>3, <2>1, <2>3, <2>4, WritePieceEffect
  <2> QED BY <2>1, <2>2, <2>5
<1>8. CASE rename(w)
  <2>1. pc[w] \in Open /\ UNCHANGED <<data, inPlace>>
    BY <1>8 DEF rename, Open
  <2>2. Calm
    BY <1>2, <2>1 DEF Calm
  <2>3. fd[v] # fd[w]
    BY <2>1, <2>2 DEF StreamInv, OwnFile
  <2> QED BY <1>8, <2>1, <2>2, <2>3 DEF rename, Renamed
<1> QED BY <1>4, <1>5, <1>6, <1>7, <1>8 DEF WriterStep

\* A stream that is opened starts on an empty file.
LEMMA EmptyFile ==
  ASSUME TypeInv, PhaseInv, NEW w \in Writers, pc[w] \in {"new", "replace"},
         NEW f, fd' = [fd EXCEPT ![w] = f], data'[f] = <<>>, UNCHANGED <<put, off>>
  PROVE  Written(w)'
<1>1. fd'[w] = f /\ put'[w] = 0 /\ off'[w] = 0
  BY DEF TypeInv, TypeOK, PhaseInv
<1>2. Len(data'[f]) = 0 /\ 1 .. 0 = {}
  OBVIOUS
<1> QED BY <1>1, <1>2 DEF Written

\* The steps of a process keep its own stream in step.
LEMMA OwnStream ==
  ASSUME TypeInv, PhaseInv, StreamInv, Calm', NEW w \in Writers,
         Begin(w) \/ WriterStep(w) \/ Crash(w)
  PROVE  Stream(w)'
<1>0. Calm
  <2>1. inPlace => inPlace'
    BY DEF WriterStep, Begin, shouldWrite, createUniqueFile, writeFileWithoutTemporary,
       flush_nonempty, NoText, EndOfText, rename, closeStream, Crash, disk
  <2> QED BY <2>1 DEF Calm, Single
<1> USE <1>0
<1>1. CASE Begin(w) \/ shouldWrite(w) \/ NoText(w) \/ closeStream(w) \/ Crash(w)
  BY <1>1, OwnMove DEF Stream, Open
<1>2. CASE createUniqueFile(w)
  <2>1. CASE pc'[w] = "write"
    <3>1. /\ data' = Append(data, <<>>) /\ temps' = temps \cup {TemporaryFile}
          /\ fd'[w] = TemporaryFile /\ TemporaryFile = Len(data) + 1
      BY <1>2, <2>1, TemporaryIsNew DEF TypeInv
    <3>2. pc[w] \in {"new", "replace"} /\ UNCHANGED <<put, off>>
      BY <1>2 DEF createUniqueFile
    <3>3. fd' = [fd EXCEPT ![w] = TemporaryFile]
      BY <1>2, <2>1 DEF createUniqueFile, AfterCreateFailure, Goto, TypeInv, TypeOK
    <3>4. data'[TemporaryFile] = <<>>
      BY <3>1, NewFile, DiskType DEF TypeInv
    <3>5. Written(w)'
      BY <3>2, <3>3, <3>4, EmptyFile
    <3> QED BY <2>1, <3>1, <3>5 DEF Stream
  <2> QED BY <1>2, <2>1, OwnMove DEF Stream, Open
<1>3. CASE writeFileWithoutTemporary(w)
  <2>1. CASE pc'[w] = "write"
    <3>1. /\ IF path = 0
             THEN data' = Append(data, <<>>) /\ path' = Len(data) + 1
             ELSE data' = [data EXCEPT ![path] = <<>>] /\ UNCHANGED path
          /\ fd' = [fd EXCEPT ![w] = path'] /\ inPlace'
      BY <1>3, <2>1 DEF writeFileWithoutTemporary, Finish, Goto, TypeInv, TypeOK
    <3>2. pc[w] \in {"new", "replace"} /\ UNCHANGED <<put, off>>
      BY <1>3 DEF writeFileWithoutTemporary
    <3>3. data'[path'] = <<>>
      <4>1. CASE path = 0
        BY <3>1, <4>1, NewFile, DiskType DEF TypeInv
      <4>2. CASE path # 0
        <5>1. path \in 1 .. Len(data) /\ data \in Files /\ <<>> \in Seq(Pieces)
          BY <4>2, DiskType DEF TypeInv
        <5> QED BY <3>1, <4>2, <5>1, ChangedFile
      <4> QED BY <4>1, <4>2
    <3>4. Written(w)'
      BY <3>1, <3>2, <3>3, EmptyFile
    <3> QED BY <2>1, <3>1, <3>4 DEF Stream
  <2> QED BY <1>3, <2>1, OwnMove DEF Stream, Open
<1>4. CASE flush_nonempty(w)
  <2>1. /\ pc[w] = "write" /\ put[w] < Size[doc[w]] /\ WritePiece(w) /\ fd[w] # 0
        /\ UNCHANGED <<fd, doc, temps, inPlace, pc>>
    BY <1>4 DEF flush_nonempty, TypeInv, TypeOK
  <2>2. Stream(w)
    BY DEF StreamInv
  <2>3. (bad[w] => bad'[w]) /\ (Written(w) /\ ~bad'[w] => Written(w)')
    BY <2>1, WritePieceEffect
  <2> QED BY <2>1, <2>2, <2>3 DEF Stream, Open
<1>5. CASE EndOfText(w)
  <2>1. pc[w] = "write" /\ UNCHANGED <<put, off, bad, temps, fd, doc, data, inPlace>>
    BY <1>5 DEF EndOfText, stream, disk
  <2>2. Stream(w)
    BY DEF StreamInv
  <2>3. pc'[w] = "rename" => fd[w] \in temps
    BY <1>5 DEF EndOfText, Goto, TypeInv, TypeOK
  <2>4. Written(w) => Written(w)'
    BY <2>1 DEF Written
  <2> QED BY <1>5, <2>1, <2>2, <2>3, <2>4, OwnMove DEF Stream, Open
<1>6. CASE rename(w)
  <2>1. pc[w] = "rename" /\ UNCHANGED <<put, off, bad, fd, doc, data>>
    BY <1>6 DEF rename, stream
  <2>2. Stream(w)
    BY DEF StreamInv
  <2>3. Written(w) => Written(w)'
    BY <2>1 DEF Written
  <2> QED BY <1>6, <2>1, <2>2, <2>3, OwnMove DEF Stream, Open
<1> QED BY <1>1, <1>2, <1>3, <1>4, <1>5, <1>6 DEF WriterStep

\* A process that opens a stream gets a file that no other process has open.
LEMMA OwnFileKept ==
  ASSUME TypeInv, StreamInv, Calm', NEW w \in Writers, Begin(w) \/ WriterStep(w) \/ Crash(w),
         NEW v \in Writers, v # w, pc[v] \in Open, pc'[w] \in Open
  PROVE  fd'[w] # fd[v]
<1>1. Calm /\ inPlace' = inPlace
  BY OthersFiles
<1>2. ~inPlace'
  BY DEF Calm, Single
<1>3. CASE Begin(w) \/ shouldWrite(w) \/ closeStream(w) \/ NoText(w) \/ Crash(w)
  BY <1>3, OwnMove DEF Open
<1>4. CASE createUniqueFile(w)
  <2>1. pc'[w] = "write"
    BY <1>4, OwnMove DEF Open
  <2> QED BY <1>4, <2>1, TemporaryIsNew DEF TypeInv
<1>5. CASE writeFileWithoutTemporary(w)
  <2>1. pc'[w] = "write" => inPlace'
    BY <1>5 DEF writeFileWithoutTemporary, Finish, Goto, TypeInv, TypeOK
  <2> QED BY <1>2, <1>5, <2>1, OwnMove DEF Open
<1>6. CASE flush_nonempty(w) \/ EndOfText(w) \/ rename(w)
  <2>1. pc[w] \in Open /\ UNCHANGED fd
    BY <1>6 DEF flush_nonempty, EndOfText, rename, stream, Open
  <2> QED BY <1>1, <2>1 DEF StreamInv, OwnFile
<1> QED BY <1>3, <1>4, <1>5, <1>6 DEF WriterStep

\* The invariant of the streams.
LEMMA StreamInvariant == Spec => []StreamInv
<1>1. Init => StreamInv
  BY DEF Init, StreamInv, OwnFile, Stream, Open
<1>2. TypeInv /\ PhaseInv /\ StreamInv /\ [Next]_vars => StreamInv'
  <2> SUFFICES ASSUME TypeInv, PhaseInv, StreamInv, [Next]_vars PROVE StreamInv'
    OBVIOUS
  <2>1. CASE UNCHANGED vars
    BY <2>1 DEF vars, disk, stream, StreamInv, Calm, Single, OwnFile, Stream, Written
  <2>2. ASSUME NEW w \in Writers, Begin(w) \/ WriterStep(w) \/ Crash(w)
        PROVE  StreamInv'
    <3> SUFFICES ASSUME Calm'
                 PROVE  /\ \A u, v \in Writers : OwnFile(u, v)'
                        /\ \A v \in Writers : Stream(v)'
      BY DEF StreamInv
    <3>1. ASSUME NEW v \in Writers, v # w
          PROVE  /\ pc'[v] = pc[v] /\ fd'[v] = fd[v] /\ doc'[v] = doc[v]
                 /\ put'[v] = put[v] /\ off'[v] = off[v] /\ bad'[v] = bad[v]
      BY <2>2, <3>1, OthersKept
    <3>2. ASSUME NEW v \in Writers, v # w, pc[v] \in Open
          PROVE  /\ Calm /\ data'[fd[v]] = data[fd[v]] /\ inPlace' = inPlace
                 /\ fd[v] \in temps => fd[v] \in temps'
                 /\ pc'[w] \in Open => fd'[w] # fd[v]
      BY <2>2, <3>2, OthersFiles, OwnFileKept
    <3>3. ASSUME NEW v \in Writers PROVE Stream(v)'
      <4>1. CASE v = w
        BY <2>2, <4>1, OwnStream
      <4>2. CASE v # w /\ pc[v] \in Open
        <5>1. Stream(v)
          BY <3>2, <4>2 DEF StreamInv
        <5>2. Written(v) => Written(v)'
          BY <3>1, <3>2, <4>2 DEF Written
        <5> QED BY <3>1, <3>2, <4>2, <5>1, <5>2 DEF Stream
      <4>3. CASE v # w /\ pc[v] \notin Open
        BY <3>1, <4>3 DEF Stream, Open
      <4> QED BY <4>1, <4>2, <4>3
    <3>4. ASSUME NEW u \in Writers, NEW v \in Writers PROVE OwnFile(u, v)'
      <4>1. CASE u # w /\ v # w
        <5>1. CASE u # v /\ pc[u] \in Open /\ pc[v] \in Open
          <6>1. Calm
            BY <3>2, <4>1, <5>1
          <6> QED BY <3>1, <4>1, <5>1, <6>1 DEF StreamInv, OwnFile
        <5> QED BY <3>1, <4>1, <5>1 DEF OwnFile
      <4>2. CASE u = w \/ v = w
        BY <3>1, <3>2, <4>2 DEF OwnFile
      <4> QED BY <4>1, <4>2
    <3> QED BY <3>3, <3>4
  <2> QED BY <2>1, <2>2 DEF Next
<1> QED BY <1>1, <1>2, TypeInvariant, PhaseInvariant, PTL DEF Spec

(***************************************************************************)
(* The output path                                                         *)
(***************************************************************************)

\* A step that neither renames nor opens a file, and writes to no file or to
\* another one, leaves the output path as it is.
LEMMA PathKept ==
  ASSUME TypeInv, NEW w \in Writers, Begin(w) \/ WriterStep(w) \/ Crash(w),
         rename(w) => UNCHANGED path,
         writeFileWithoutTemporary(w) => UNCHANGED <<path, data>>,
         pc[w] \in Open => fd[w] # path
  PROVE  path' = path /\ (path # 0 => data'[path] = data[path]) /\ Content' = Content
<1>1. path' = path /\ (path # 0 => data'[path] = data[path])
  <2>0. data \in Files /\ path \in 0 .. Len(data) /\ Len(data) \in Nat
    BY DiskType DEF TypeInv
  <2>1. CASE Begin(w) \/ shouldWrite(w) \/ EndOfText(w) \/ NoText(w) \/ Crash(w)
    BY <2>1 DEF Begin, shouldWrite, NoText, EndOfText, Crash, disk
  <2>2. CASE createUniqueFile(w)
    <3>1. TemporaryFile \notin DOMAIN data
      BY DiskType DEF TypeInv, TemporaryFile
    <3>2. path' = path /\ (UNCHANGED data \/ data' = Append(data, <<>>))
      BY <2>2, <3>1 DEF createUniqueFile
    <3>3. path # 0 => path \in 1 .. Len(data)
      BY <2>0
    <3> QED BY <2>0, <3>2, <3>3, NewFile
  <2>3. CASE writeFileWithoutTemporary(w)
    BY <2>3
  <2>4. CASE flush_nonempty(w) \/ closeStream(w)
    <3>1. /\ pc[w] \in Open /\ fd[w] # 0 /\ fd[w] # path /\ UNCHANGED <<fd, doc, path>>
          /\ UNCHANGED data \/ (WritePiece(w) /\ put[w] < Size[doc[w]])
      BY <2>4 DEF flush_nonempty, closeStream, Open, TypeInv, TypeOK
    <3>2. path # 0 => path \in 1 .. Len(data)
      BY <2>0
    <3> QED BY <3>1, <3>2, WritePieceEffect
  <2>5. CASE rename(w)
    BY <2>5 DEF rename
  <2> QED BY <2>1, <2>2, <2>3, <2>4, <2>5 DEF WriterStep
<1> QED BY <1>1 DEF Content

\* A write of the stream that succeeds leaves the file in step with it.
LEMMA StreamKept ==
  ASSUME TypeInv, StreamInv, Calm, NEW w \in Writers,
         flush_nonempty(w) \/ closeStream(w), ~bad'[w]
  PROVE  Written(w)' /\ fd'[w] = fd[w] /\ doc'[w] = doc[w]
<1>1. pc[w] \in Open /\ fd[w] # 0 /\ UNCHANGED <<fd, doc>>
  BY DEF flush_nonempty, closeStream, Open, TypeInv, TypeOK
<1>2. ~bad[w] => Written(w)
  BY <1>1 DEF StreamInv, Stream
<1>3. CASE WritePiece(w) /\ put[w] < Size[doc[w]]
  BY <1>1, <1>2, <1>3, WritePieceEffect
<1>4. CASE UNCHANGED <<put, data, off, bad>>
  BY <1>1, <1>2, <1>4 DEF Written
<1> QED BY <1>1, <1>3, <1>4 DEF flush_nonempty, closeStream

\* A stream that is closed without an error has written the whole document.
LEMMA CloseWhole ==
  ASSUME TypeInv, PhaseInv, StreamInv, Calm, NEW w \in Writers, closeStream(w), ~bad'[w]
  PROVE  data'[fd[w]] = Text(doc[w]) /\ UNCHANGED path /\ fd[w] # 0
<1>1. /\ Written(w)' /\ fd'[w] = fd[w] /\ doc'[w] = doc[w] /\ UNCHANGED path /\ fd[w] # 0
      /\ TypeInv' /\ pc[w] = "close"
  BY StreamKept, CloseType DEF closeStream, TypeInv, TypeOK
<1>2. /\ doc[w] \in Docs /\ Size[doc[w]] \in Nat /\ put[w] \in 0 .. Size[doc[w]]
      /\ put[w] + 1 >= Size[doc[w]]
  BY <1>1, TextType DEF TypeInv, TypeOK, PhaseInv
<1>3. put'[w] = Size[doc[w]]
  <2>1. CASE put[w] < Size[doc[w]]
    BY <1>2, <2>1 DEF closeStream, WritePiece, TypeInv, TypeOK
  <2>2. CASE ~(put[w] < Size[doc[w]])
    BY <1>2, <2>2 DEF closeStream
  <2> QED BY <2>1, <2>2
<1>4. data'[fd[w]] \in Seq(Pieces)
  <2>1. data' \in Files /\ fd'[w] \in 1 .. Len(data')
    <3>1. fd'[w] \in 0 .. Len(data') /\ fd'[w] # 0 /\ data' \in Files
      BY <1>1 DEF TypeInv, TypeOK, Files
    <3> QED BY <3>1
  <2> QED BY <1>1, <2>1, ElementOfSeq DEF Files
<1>5. /\ Len(data'[fd[w]]) = Size[doc[w]]
      /\ \A i \in 1 .. Size[doc[w]] : data'[fd[w]][i] = Piece(doc[w], i)
  BY <1>1, <1>3 DEF Written
<1>6. /\ Text(doc[w]) \in Seq(Pieces) /\ Len(Text(doc[w])) = Size[doc[w]]
      /\ \A i \in 1 .. Size[doc[w]] : Text(doc[w])[i] = Piece(doc[w], i)
  BY <1>2, TextType
<1>7. data'[fd[w]] = Text(doc[w])
  BY <1>4, <1>5, <1>6, SeqEqual
<1> QED BY <1>1, <1>7

\* What a file may hold while a document is written to it.
Beginning(c) == \E d \in Docs : Len(c) <= Size[d] /\ \A i \in DOMAIN c : c[i] = Piece(d, i)

\* The pieces that a stream has written are the beginning of its document.
LEMMA WrittenBeginning ==
  ASSUME NEW content \in Seq(Pieces), NEW d \in Docs, NEW n \in 0 .. Size[d], Len(content) = n,
         \A i \in 1 .. n : content[i] = Piece(d, i)
  PROVE  Beginning(content)
<1>1. Size[d] \in Nat /\ DOMAIN content = 1 .. n
  BY TextType
<1> QED BY <1>1 DEF Beginning

\* Whoever reads the path while processes replace it, killed or not, finds the
\* beginning of one document, provided that the writes themselves do not fail
\* and the first file was whole (rename in Registry::writeFile).
THEOREM ReadersSeeOneDocument ==
  ASSUME "write" \notin Faults,
         \A files \in FirstFiles : files = <<>> \/ \E d \in Docs : files = <<Text(d)>>
  PROVE  Spec => []NeverMixed
<1> DEFINE Mixless == ~inPlace /\ path # 0 => Beginning(data[path])
<1>1. Init => Mixless
  <2> SUFFICES ASSUME Init, path # 0 PROVE Beginning(data[path])
    OBVIOUS
  <2>1. path = Len(data) /\ data \in FirstFiles
    BY DEF Init
  <2>2. data # <<>>
    BY <2>1
  <2>3. PICK d \in Docs : data = <<Text(d)>>
    BY <2>1, <2>2
  <2>4. data[path] = Text(d) /\ Len(Text(d)) = Size[d] /\ Size[d] \in Nat
    BY <2>1, <2>3, TextType
  <2>5. DOMAIN Text(d) = 1 .. Size[d] /\ \A i \in 1 .. Size[d] : Text(d)[i] = Piece(d, i)
    BY DEF Text
  <2> QED BY <2>4, <2>5 DEF Beginning
<1>2. TypeInv /\ TypeInv' /\ PhaseInv /\ PhaseInv' /\ StreamInv /\ StreamInv' /\ Mixless
        /\ [Next]_vars => Mixless'
  <2> SUFFICES ASSUME TypeInv, TypeInv', PhaseInv, PhaseInv', StreamInv, StreamInv', Mixless,
                      [Next]_vars, ~inPlace', path' # 0
               PROVE  Beginning(data'[path'])
    OBVIOUS
  <2>1. CASE UNCHANGED vars
    BY <2>1 DEF vars, disk
  <2>2. ASSUME NEW w \in Writers, Begin(w) \/ WriterStep(w) \/ Crash(w)
        PROVE  Beginning(data'[path'])
    <3>1. ~inPlace
      BY <2>2 DEF WriterStep, Begin, shouldWrite, createUniqueFile, writeFileWithoutTemporary,
         flush_nonempty, NoText, EndOfText, rename, closeStream, Crash, disk
    <3>2. Calm /\ ~bad[w] /\ ~bad'[w]
      BY <3>1 DEF Calm, PhaseInv
    <3>3. ASSUME Written(w)', path' = fd'[w] PROVE Beginning(data'[path'])
      <4>1. doc'[w] \in Docs /\ put'[w] \in 0 .. Size[doc'[w]]
        BY DEF TypeInv, TypeOK
      <4>2. data' \in Files /\ fd'[w] \in 1 .. Len(data')
        <5>1. fd'[w] \in 0 .. Len(data') /\ fd'[w] # 0 /\ data' \in Files
          BY <3>3 DEF TypeInv, TypeOK, Files
        <5> QED BY <5>1
      <4>3. data'[path'] \in Seq(Pieces)
        BY <3>3, <4>2, ElementOfSeq DEF Files
      <4>4. /\ Len(data'[path']) = put'[w]
            /\ \A i \in 1 .. put'[w] : data'[path'][i] = Piece(doc'[w], i)
        BY <3>3 DEF Written
      <4> QED BY <4>1, <4>3, <4>4, WrittenBeginning
    <3>4. CASE rename(w) /\ path' = fd[w]
      <4>1. fd'[w] = fd[w] /\ pc'[w] = "close"
        BY <3>4, OwnMove DEF rename, stream
      <4>2. Written(w)'
        BY <3>2, <4>1 DEF StreamInv, Stream, Calm, Open
      <4> QED BY <3>3, <3>4, <4>1, <4>2
    <3>5. CASE (flush_nonempty(w) \/ closeStream(w)) /\ fd[w] = path
      <4>1. Written(w)' /\ fd'[w] = fd[w]
        BY <3>2, <3>5, StreamKept
      <4>2. path' = path
        BY <3>5 DEF flush_nonempty, closeStream
      <4> QED BY <3>3, <3>5, <4>1, <4>2
    <3>6. CASE ~(rename(w) /\ path' = fd[w]) /\ ~((flush_nonempty(w) \/ closeStream(w)) /\ fd[w] = path)
      <4>1. (rename(w) => UNCHANGED path) /\ (writeFileWithoutTemporary(w) => UNCHANGED <<path, data>>)
        BY <3>6 DEF rename, writeFileWithoutTemporary
      <4>2. CASE pc[w] \in Open => fd[w] # path
        BY <2>2, <3>1, <4>1, <4>2, PathKept
      <4>3. CASE pc[w] \in Open /\ fd[w] = path
        <5>1. UNCHANGED <<path, data>>
          BY <2>2, <3>6, <4>1, <4>3 DEF Open, WriterStep, Begin, shouldWrite, createUniqueFile,
             NoText, EndOfText, rename, Crash, disk
        <5> QED BY <3>1, <5>1
      <4> QED BY <4>2, <4>3
    <3> QED BY <3>4, <3>5, <3>6
  <2> QED BY <2>1, <2>2 DEF Next
<1>3. Mixless => NeverMixed
  BY DEF Beginning, NeverMixed
<1> HIDE DEF Mixless
<1> QED BY <1>1, <1>2, <1>3, TypeInvariant, PhaseInvariant, StreamInvariant, PTL DEF Spec

\* The file at the path is whole when everybody has succeeded, because whoever
\* is done last has put it there: somebody has still to finish or to begin
\* again, or somebody owns the path.
Unsettled(w) ==
  \/ pc[w] \in {"check", "new", "replace", "write", "rename"}
  \/ pc[w] = "close" /\ failed[w]
  \/ pc[w] = "idle" /\ outcome[w] # "success"
Owner(w) ==
  \/ pc[w] = "close" /\ path = fd[w]
  \/ pc[w] = "idle" /\ Content = <<Text(doc[w])>>
PathInv == ~inPlace => \E w \in Writers : Unsettled(w) \/ Owner(w)

\* The step of a process that leaves it settled makes it the owner, or leaves
\* the path to its owner.
LEMMA SettlingStep ==
  ASSUME TypeInv, PhaseInv, StreamInv, ~inPlace, ~inPlace', NEW w \in Writers,
         Begin(w) \/ WriterStep(w) \/ Crash(w), ~Unsettled(w)'
  PROVE  Owner(w)' \/ (closeStream(w) /\ ~failed[w] /\ path' = path /\ Content' = Content)
<1> USE DEF Unsettled, Owner
<1>0. Calm
  BY DEF Calm
<1>1. CASE Begin(w) \/ createUniqueFile(w) \/ NoText(w) \/ flush_nonempty(w) \/ Crash(w)
  BY <1>1, OwnMove
<1>2. CASE shouldWrite(w)
  <2>1. pc'[w] = "idle" /\ outcome'[w] = "success"
    BY <1>2, OwnMove
  <2>2. Content = <<Text(doc[w])>>
    BY <1>2, <2>1 DEF shouldWrite, WriteAction, Content, Goto, TypeInv, TypeOK
  <2>3. UNCHANGED <<path, data, doc>>
    BY <1>2 DEF shouldWrite, disk
  <2> QED BY <2>1, <2>2, <2>3 DEF Content
<1>3. CASE writeFileWithoutTemporary(w)
  BY <1>3, OwnMove
<1>4. CASE EndOfText(w)
  <2>1. fd[w] \in temps
    BY <1>0, <1>4 DEF EndOfText, StreamInv, Stream
  <2>2. pc'[w] = "rename"
    BY <1>4, <2>1 DEF EndOfText, Goto, TypeInv, TypeOK
  <2> QED BY <2>2
<1>5. CASE rename(w)
  <2>1. pc'[w] = "close" /\ ~failed'[w] /\ fd' = fd
    BY <1>5, OwnMove DEF rename, stream
  <2>2. path' = fd[w]
    BY <1>5, <2>1 DEF rename, TypeInv, TypeOK
  <2> QED BY <2>1, <2>2
<1>6. CASE closeStream(w)
  <2>1. pc'[w] = "idle" /\ outcome'[w] = "success" /\ Result(w) = "success" /\ doc' = doc
    BY <1>6, OwnMove DEF closeStream
  <2>2. ~bad'[w] /\ ~failed[w]
    BY <2>1 DEF Result
  <2>3. data'[fd[w]] = Text(doc[w]) /\ UNCHANGED path /\ fd[w] # 0
    BY <1>0, <1>6, <2>2, CloseWhole
  <2>4. CASE path = fd[w]
    BY <2>1, <2>3, <2>4 DEF Content
  <2>5. CASE path # fd[w]
    <3>1. ~rename(w) /\ ~writeFileWithoutTemporary(w)
      BY <1>6 DEF closeStream, rename, writeFileWithoutTemporary
    <3> QED BY <1>6, <2>2, <2>5, <3>1, PathKept
  <2> QED BY <2>4, <2>5
<1> QED BY <1>1, <1>2, <1>3, <1>4, <1>5, <1>6 DEF WriterStep

\* However many processes write the path, killed or failing in any way but the
\* fallback to writing in place: when the last run of each has succeeded, the
\* path holds the whole document of one of them.
THEOREM LastWriterWins == Spec => []QuietFileIsWhole
<1>1. Init => PathInv
  BY WritersAssumption DEF WritersAssumption, Init, PathInv, Unsettled
<1>2. TypeInv /\ RunInv /\ PhaseInv /\ StreamInv /\ PathInv /\ [Next]_vars => PathInv'
  <2> SUFFICES ASSUME TypeInv, RunInv, PhaseInv, StreamInv, PathInv, [Next]_vars, ~inPlace'
               PROVE  \E u \in Writers : (Unsettled(u) \/ Owner(u))'
    BY DEF PathInv
  <2>1. CASE UNCHANGED vars
    BY <2>1 DEF vars, disk, stream, PathInv, Unsettled, Owner, Content
  <2>2. ASSUME NEW w \in Writers, Begin(w) \/ WriterStep(w) \/ Crash(w)
        PROVE  \E u \in Writers : (Unsettled(u) \/ Owner(u))'
    <3>1. ~inPlace
      BY <2>2 DEF WriterStep, Begin, shouldWrite, createUniqueFile, writeFileWithoutTemporary,
         flush_nonempty, NoText, EndOfText, rename, closeStream, Crash, disk
    <3>2. CASE Unsettled(w)' \/ Owner(w)'
      BY <3>2
    <3>3. CASE ~Unsettled(w)' /\ ~Owner(w)'
      <4>1. closeStream(w) /\ ~failed[w] /\ path' = path /\ Content' = Content
        BY <2>2, <3>1, <3>3, SettlingStep
      <4>2. PICK u \in Writers : Unsettled(u) \/ Owner(u)
        BY <3>1 DEF PathInv
      <4>3. CASE u = w
        <5>1. pc[w] = "close" /\ pc'[w] = "idle" /\ outcome'[w] = "success"
          BY <3>3, <4>1, OwnMove DEF closeStream, Unsettled
        <5>2. path = fd[w]
          BY <4>1, <4>2, <4>3, <5>1 DEF Unsettled, Owner
        <5>3. ~bad'[w] /\ doc' = doc
          BY <4>1, <5>1, OwnMove DEF closeStream, Result
        <5>4. data'[fd[w]] = Text(doc[w]) /\ fd[w] # 0
          BY <3>1, <4>1, <5>3, CloseWhole DEF Calm
        <5> QED BY <3>3, <4>1, <5>1, <5>2, <5>3, <5>4 DEF Owner, Content
      <4>4. CASE u # w
        <5>1. /\ pc'[u] = pc[u] /\ fd'[u] = fd[u] /\ outcome'[u] = outcome[u]
              /\ failed'[u] = failed[u] /\ doc'[u] = doc[u]
          BY <2>2, <4>4, OthersKept
        <5> QED BY <4>1, <4>2, <5>1 DEF Unsettled, Owner
      <4> QED BY <4>3, <4>4
    <3> QED BY <3>2, <3>3
  <2> QED BY <2>1, <2>2 DEF Next
<1>3. RunInv /\ PathInv => QuietFileIsWhole
  BY DEF RunInv, PathInv, QuietFileIsWhole, Unsettled, Owner
<1> QED BY <1>1, <1>2, <1>3, TypeInvariant, RunInvariant, PhaseInvariant, StreamInvariant,
           PTL DEF Spec

(***************************************************************************)
(* One writer keeps the promise                                            *)
(***************************************************************************)

\* What one process has done to the path: nothing while it works on a temporary
\* file or has failed to rename it; otherwise its stream writes the file there.
Observation(w) ==
  /\ pc[w] \in {"check", "new", "replace", "rename"} => Content = before[w]
  /\ pc[w] = "write" /\ fd[w] \in temps => Content = before[w]
  /\ pc[w] = "write" /\ fd[w] \notin temps => path = fd[w]
  /\ pc[w] = "close" /\ failed[w] => fd[w] # path /\ Content = before[w]
  /\ pc[w] = "close" /\ ~failed[w] => path = fd[w]
ObservedInv == path \notin temps /\ \A w \in Writers : Observation(w)

\* The observation of the process that takes a step.
LEMMA OwnObservation ==
  ASSUME Single, TypeInv, PhaseInv, StreamInv, ObservedInv, NEW w \in Writers,
         Begin(w) \/ WriterStep(w) \/ Crash(w)
  PROVE  path' \notin temps' /\ Observation(w)'
<1>0. path \notin temps /\ Observation(w) /\ Stream(w) /\ data \in Files /\ path \in 0 .. Len(data)
  BY DiskType DEF ObservedInv, StreamInv, Calm, TypeInv
<1>1. CASE Begin(w)
  <2>1. pc'[w] = "check" /\ UNCHANGED <<path, data, temps>>
    BY <1>1, OwnMove DEF Begin, disk
  <2>2. before'[w] = Content
    BY <1>1 DEF Begin, TypeInv, TypeOK
  <2> QED BY <1>0, <2>1, <2>2 DEF Observation, Content
<1>2. CASE shouldWrite(w)
  <2>1. pc[w] = "check" /\ UNCHANGED <<path, data, temps, before>>
    BY <1>2 DEF shouldWrite, disk
  <2> QED BY <1>0, <1>2, <2>1, OwnMove DEF Observation, Content
<1>3. CASE createUniqueFile(w)
  <2>1. pc[w] = "replace" /\ UNCHANGED before
    BY <1>3 DEF createUniqueFile
  <2>2. path' = path /\ Content' = Content
    BY <1>3, <2>1, PathKept DEF Open, rename, writeFileWithoutTemporary
  <2>3. CASE pc'[w] = "write"
    <3>1. temps' = temps \cup {TemporaryFile} /\ fd'[w] = TemporaryFile /\ TemporaryFile # path
      BY <1>3, <2>3, TemporaryIsNew DEF TypeInv
    <3> QED BY <1>0, <2>1, <2>2, <2>3, <3>1 DEF Observation
  <2>4. CASE pc'[w] # "write"
    <3>1. pc'[w] = "new" /\ UNCHANGED temps
      BY <1>3, <2>4, OwnMove DEF createUniqueFile, Goto, TypeInv, TypeOK
    <3> QED BY <1>0, <2>1, <2>2, <3>1 DEF Observation
  <2> QED BY <2>3, <2>4
<1>4. CASE writeFileWithoutTemporary(w)
  <2>1. UNCHANGED temps
    BY <1>4 DEF writeFileWithoutTemporary
  <2>2. CASE pc'[w] = "write"
    <3>1. /\ IF path = 0 THEN path' = Len(data) + 1 ELSE path' = path
          /\ fd' = [fd EXCEPT ![w] = path']
      BY <1>4, <2>2 DEF writeFileWithoutTemporary, Finish, Goto, TypeInv, TypeOK
    <3>2. fd'[w] = path'
      BY <3>1 DEF TypeInv, TypeOK
    <3>3. Len(data) + 1 \notin temps
      BY DiskType DEF TypeInv
    <3> QED BY <1>0, <2>1, <2>2, <3>1, <3>2, <3>3 DEF Observation
  <2>3. CASE pc'[w] # "write"
    <3>1. pc'[w] = "idle" /\ UNCHANGED path
      BY <1>4, <2>3, OwnMove DEF writeFileWithoutTemporary, Goto, TypeInv, TypeOK
    <3> QED BY <1>0, <2>1, <3>1 DEF Observation
  <2> QED BY <2>2, <2>3
<1>5. CASE flush_nonempty(w)
  <2>1. pc[w] = "write" /\ pc'[w] = "write" /\ UNCHANGED <<fd, path, temps, before>>
    BY <1>5, OwnMove DEF flush_nonempty
  <2>2. fd[w] \in temps => Content' = Content
    BY <1>0, <1>5, <2>1, PathKept DEF rename, writeFileWithoutTemporary
  <2> QED BY <1>0, <2>1, <2>2 DEF Observation
<1>6. CASE EndOfText(w)
  <2>1. pc[w] = "write" /\ ~failed[w] /\ UNCHANGED <<path, data, temps, before, fd, failed>>
    BY <1>6 DEF EndOfText, disk, stream, PhaseInv
  <2>2. /\ fd[w] \in temps => pc'[w] = "rename"
        /\ fd[w] \notin temps => pc'[w] = "close"
    BY <1>6 DEF EndOfText, Goto, TypeInv, TypeOK
  <2> QED BY <1>0, <2>1, <2>2 DEF Observation, Content
<1>7. CASE rename(w)
  <2>1. /\ pc[w] = "rename" /\ pc'[w] = "close" /\ ~failed[w] /\ fd[w] \in temps
        /\ UNCHANGED <<fd, data, before>>
    BY <1>0, <1>7, OwnMove DEF rename, stream, PhaseInv, Stream
  <2>2. CASE path' = fd[w] /\ temps' = Renamed(w) /\ UNCHANGED failed
    BY <2>1, <2>2 DEF Observation, Renamed
  <2>3. CASE failed' = [failed EXCEPT ![w] = TRUE] /\ UNCHANGED <<path, temps>>
    <3>1. failed'[w]
      BY <2>3 DEF TypeInv, TypeOK
    <3> QED BY <1>0, <2>1, <2>3, <3>1 DEF Observation, Content
  <2> QED BY <1>7, <2>2, <2>3 DEF rename
<1>8. CASE NoText(w) \/ closeStream(w) \/ Crash(w)
  <2>1. pc'[w] = "idle" /\ UNCHANGED <<path, temps>>
    BY <1>8, OwnMove DEF NoText, closeStream, Crash, disk
  <2> QED BY <1>0, <2>1 DEF Observation
<1> QED BY <1>1, <1>2, <1>3, <1>4, <1>5, <1>6, <1>7, <1>8 DEF WriterStep

\* The observations of a single process.
LEMMA ObservedInvariant == ASSUME Single PROVE Spec => []ObservedInv
<1>1. Init => ObservedInv
  BY DEF Init, ObservedInv, Observation
<1>2. TypeInv /\ PhaseInv /\ StreamInv /\ ObservedInv /\ [Next]_vars => ObservedInv'
  <2> SUFFICES ASSUME TypeInv, PhaseInv, StreamInv, ObservedInv, [Next]_vars PROVE ObservedInv'
    OBVIOUS
  <2>1. CASE UNCHANGED vars
    BY <2>1 DEF vars, disk, stream, ObservedInv, Observation, Content
  <2>2. ASSUME NEW w \in Writers, Begin(w) \/ WriterStep(w) \/ Crash(w)
        PROVE  ObservedInv'
    BY <2>2, OwnObservation DEF ObservedInv, Single
  <2> QED BY <2>1, <2>2 DEF Next
<1> QED BY <1>1, <1>2, TypeInvariant, PhaseInvariant, StreamInvariant, PTL DEF Spec

\* The initial states are initial states of the promise.
LEMMA PromiseInit == Init => Promise!Init
<1> SUFFICES ASSUME Init PROVE Promise!Init
  OBVIOUS
<1>1. Writer \in Writers
  BY WritersAssumption DEF WritersAssumption, Writer
<1>2. TypeInv
  BY InitType
<1>3. Content \in AnyContent
  BY <1>2, ContentType DEF TypeInv
<1>4. outcome[Writer] = "none" /\ doc[Writer] \in Docs /\ Opened = FALSE
  BY <1>1 DEF Init, Opened
<1> QED BY <1>3, <1>4 DEF Promise!Init, Observed

\* A run that is under way and does not own the path has left it alone.
LEMMA PathOfOthers ==
  ASSUME ObservedInv, TempInv, TypeInv, NEW w \in Writers, w = Writer, pc[w] # "idle", ~Opened
  PROVE  Content = before[w]
<1>1. pc[w] \in {"check", "new", "replace", "write", "rename", "close"}
  BY DEF TypeInv, TypeOK
<1>2. pc[w] \in {"write", "close"} => fd[w] # 0
  BY DEF TypeInv, TypeOK
<1>3. fd[w] # path \/ path = 0
  BY DEF Opened
<1> QED BY <1>1, <1>2, <1>3 DEF ObservedInv, Observation

\* Until a file is opened the path is not opened; afterwards, it is once it names
\* the file of the stream.
LEMMA OpenedByStep ==
  ASSUME TypeInv, TempInv, NEW w \in Writers, w = Writer, Begin(w) \/ WriterStep(w) \/ Crash(w)
  PROVE  /\ Opened \in BOOLEAN /\ Opened' \in BOOLEAN
         /\ Begin(w) => ~Opened'
         /\ pc[w] \in {"check", "new", "replace"} => ~Opened
         /\ ~writeFileWithoutTemporary(w) /\ ~rename(w) /\ ~Begin(w) => Opened' = Opened
         /\ rename(w) => Opened' = Opened \/ Opened' = TRUE
         /\ writeFileWithoutTemporary(w) /\ pc'[w] # "write" => Opened' = Opened
         /\ writeFileWithoutTemporary(w) /\ pc'[w] = "write" => Opened' = TRUE
<1>0. path \in 0 .. Len(data) /\ Len(data) \in Nat
  BY DiskType DEF TypeInv
<1>1. Begin(w) => ~Opened'
  BY DEF Begin, Opened, TypeInv, TypeOK
<1>2. pc[w] \in {"check", "new", "replace"} => ~Opened
  BY DEF TempInv, Opened
<1>3. CASE createUniqueFile(w)
  <2>1. UNCHANGED path /\ ~Opened
    BY <1>2, <1>3 DEF createUniqueFile
  <2>2. CASE pc'[w] = "write"
    <3>1. fd'[w] = TemporaryFile /\ TemporaryFile # path
      BY <1>3, <2>2, TemporaryIsNew DEF TypeInv
    <3> QED BY <1>3, <2>1, <3>1 DEF Opened, createUniqueFile, rename, writeFileWithoutTemporary, Begin
  <2>3. CASE pc'[w] # "write"
    <3>1. UNCHANGED fd
      BY <1>3, <2>3 DEF createUniqueFile, Goto, TypeInv, TypeOK
    <3> QED BY <1>3, <2>1, <3>1 DEF Opened, createUniqueFile, rename, writeFileWithoutTemporary, Begin
  <2> QED BY <2>2, <2>3
<1>4. CASE writeFileWithoutTemporary(w)
  <2>1. CASE pc'[w] = "write"
    <3>1. fd' = [fd EXCEPT ![w] = path'] /\ path' # 0
      BY <1>0, <1>4, <2>1 DEF writeFileWithoutTemporary, Finish, Goto, TypeInv, TypeOK
    <3>2. fd'[w] = path'
      BY <3>1 DEF TypeInv, TypeOK
    <3> QED BY <1>2, <1>4, <2>1, <3>1, <3>2 DEF Opened, writeFileWithoutTemporary, rename, Begin
  <2>2. CASE pc'[w] # "write"
    <3>1. UNCHANGED <<fd, path>>
      BY <1>4, <2>2 DEF writeFileWithoutTemporary, Goto, TypeInv, TypeOK
    <3> QED BY <1>2, <1>4, <2>2, <3>1 DEF Opened, writeFileWithoutTemporary, rename, Begin
  <2> QED BY <2>1, <2>2
<1>5. CASE rename(w)
  <2>1. UNCHANGED fd /\ (path' = fd[w] \/ UNCHANGED path) /\ fd[w] # 0
    BY <1>5 DEF rename, stream, TypeInv, TypeOK
  <2> QED BY <1>2, <1>5, <2>1 DEF Opened, writeFileWithoutTemporary, rename, Begin
<1>6. CASE shouldWrite(w) \/ NoText(w) \/ flush_nonempty(w) \/ EndOfText(w) \/ closeStream(w) \/ Crash(w)
  <2>1. UNCHANGED <<fd, path>>
    BY <1>6 DEF shouldWrite, NoText, flush_nonempty, EndOfText, closeStream, Crash, disk, stream
  <2>2. ~writeFileWithoutTemporary(w) /\ ~rename(w)
    BY <1>6 DEF shouldWrite, NoText, flush_nonempty, EndOfText, closeStream, Crash,
       writeFileWithoutTemporary, rename, Goto, Finish, TypeInv, TypeOK
  <2> QED BY <1>1, <1>2, <2>1, <2>2 DEF Opened
<1>7. CASE Begin(w)
  <2>1. ~writeFileWithoutTemporary(w) /\ ~rename(w) /\ pc[w] = "idle"
    BY <1>7 DEF Begin, writeFileWithoutTemporary, rename
  <2> QED BY <1>1, <1>7, <2>1 DEF Opened
<1> QED BY <1>3, <1>4, <1>5, <1>6, <1>7 DEF WriterStep

\* Every step of the process is a step of the promise, or none of it.
LEMMA PromiseStep ==
  ASSUME Single, TypeInv, TypeInv', RunInv, RunInv', TempInv, PhaseInv, StreamInv, ObservedInv,
         NEW w \in Writers, w = Writer, Begin(w) \/ WriterStep(w) \/ Crash(w)
  PROVE  Promise!Next \/ UNCHANGED <<Observed, doc[Writer], Opened, outcome[Writer]>>
<1>0. Observation(w) /\ Content' \in AnyContent /\ before'[w] \in AnyContent /\ Calm
  <2>1. Observation(w) /\ Calm
    BY DEF ObservedInv, Calm
  <2>2. Content' \in AnyContent
    <3>1. data' \in Files /\ path' \in 0 .. Len(data')
      BY DEF TypeInv, TypeOK, Files
    <3> QED BY <3>1, FileIsContent DEF Content
  <2> QED BY <2>1, <2>2 DEF TypeInv
<1>1. CASE Begin(w)
  <2>1. outcome[w] # "running" /\ outcome'[w] = "running"
    BY <1>1, OwnMove DEF Begin, RunInv
  <2>2. before'[w] = Content /\ doc'[w] \in Docs
    BY <1>1 DEF Begin, TypeInv, TypeOK
  <2>3. Observed' = Observed
    BY <2>1, <2>2 DEF Observed
  <2>4. Opened' = FALSE
    BY <1>1, OpenedByStep
  <2> QED BY <2>1, <2>2, <2>3, <2>4 DEF Promise!Next, Promise!Begin
<1>2. ASSUME outcome[w] = "running", outcome'[w] = "running", UNCHANGED <<before, doc>>,
             Opened' = Opened \/ Opened' = TRUE
      PROVE  Promise!Next \/ UNCHANGED <<Observed, doc[Writer], Opened, outcome[Writer]>>
  <2>1. UNCHANGED <<Observed, doc[Writer], outcome[Writer]>>
    BY <1>2 DEF Observed
  <2> QED BY <1>2, <2>1 DEF Promise!Next, Promise!Open
<1>3. ASSUME outcome[w] = "running", outcome'[w] \in {"aborted", "crashed"}, UNCHANGED <<before, doc>>,
             Opened' = Opened, Opened \/ Content' = before[w]
      PROVE  Promise!Next
  <2>1. Observed = before[w] /\ Observed' = Content'
    BY <1>3 DEF Observed
  <2> QED BY <1>0, <1>3, <2>1 DEF Promise!Next, Promise!Die, Promise!End
<1>4. ASSUME outcome[w] = "running", outcome'[w] = "success", UNCHANGED <<before, doc>>,
             Opened' = Opened, Opened \/ Content' = before[w], Content' = <<Text(doc[w])>>
      PROVE  Promise!Next
  <2>1. Observed = before[w] /\ Observed' = Content'
    BY <1>4 DEF Observed
  <2> QED BY <1>4, <2>1 DEF Promise!Next, Promise!Succeed, Promise!End, OneText
<1>5. ASSUME outcome[w] = "running", outcome'[w] = "failed", UNCHANGED <<before, doc>>,
             Opened' = Opened, Content' = IF Opened THEN <<<<>>>> ELSE before[w]
      PROVE  Promise!Next
  <2>1. Observed = before[w] /\ Observed' = Content'
    BY <1>5 DEF Observed
  <2> QED BY <1>5, <2>1 DEF Promise!Next, Promise!Fail, Promise!End
<1>6. CASE WriterStep(w) \/ Crash(w)
  <2>1. outcome[w] = "running" /\ UNCHANGED <<before, doc>> /\ pc[w] # "idle"
    BY <1>6 DEF RunInv, WriterStep, shouldWrite, createUniqueFile, writeFileWithoutTemporary,
       NoText, flush_nonempty, EndOfText, rename, closeStream, Crash
  <2>2. CASE shouldWrite(w)
    <3>0. Opened' = Opened
      BY <2>2, OpenedByStep DEF shouldWrite, writeFileWithoutTemporary, rename, Begin
    <3>1. CASE pc'[w] = "idle"
      <4>1. Content = <<Text(doc[w])>> /\ UNCHANGED <<path, data>> /\ pc[w] = "check"
        BY <2>2, <3>1 DEF shouldWrite, WriteAction, Content, Goto, TypeInv, TypeOK, disk
      <4>2. Content' = <<Text(doc[w])>> /\ Content' = before[w]
        BY <1>0, <4>1 DEF Content, Observation
      <4> QED BY <1>4, <2>1, <2>2, <3>0, <3>1, <4>2, OwnMove
    <3> QED BY <1>2, <2>1, <2>2, <3>0, <3>1, OwnMove
  <2>3. CASE createUniqueFile(w) \/ flush_nonempty(w) \/ EndOfText(w) \/ rename(w)
    <3>1. Opened' = Opened \/ Opened' = TRUE
      BY <2>3, OpenedByStep DEF createUniqueFile, flush_nonempty, EndOfText,
         writeFileWithoutTemporary, Begin
    <3> QED BY <1>2, <2>1, <2>3, <3>1, OwnMove
  <2>4. CASE writeFileWithoutTemporary(w)
    <3>1. CASE pc'[w] = "write"
      BY <1>2, <2>1, <2>4, <3>1, OwnMove, OpenedByStep
    <3>2. CASE pc'[w] # "write"
      <4>1. pc[w] = "new" /\ UNCHANGED <<path, data>>
        BY <2>4, <3>2 DEF writeFileWithoutTemporary, Goto, TypeInv, TypeOK
      <4>2. Content' = before[w]
        BY <1>0, <4>1 DEF Content, Observation
      <4>3. outcome'[w] = "aborted" /\ Opened' = Opened
        BY <2>4, <3>2, OwnMove, OpenedByStep
      <4> QED BY <1>3, <2>1, <4>2, <4>3
    <3> QED BY <3>1, <3>2
  <2>5. CASE NoText(w)
    <3>1. /\ pc[w] = "write" /\ put[w] = 0 /\ UNCHANGED <<path, data>>
          /\ outcome'[w] = "failed"
      BY <2>5, OwnMove DEF NoText, disk
    <3>2. Opened' = Opened
      BY <2>5, OpenedByStep DEF NoText, writeFileWithoutTemporary, rename, Begin
    <3>3. CASE Opened
      <4>1. path # 0 /\ fd[w] = path
        BY <3>3 DEF Opened
      <4>2. Written(w)
        BY <1>0, <3>1 DEF PhaseInv, StreamInv, Stream, Open
      <4>3. data[path] = <<>>
        <5>1. path \in 1 .. Len(data) /\ data \in Files
          BY <4>1, DiskType DEF TypeInv
        <5>2. data[path] \in Seq(Pieces)
          BY <5>1, ElementOfSeq DEF Files
        <5>3. Len(data[path]) = 0
          BY <3>1, <4>1, <4>2 DEF Written
        <5> QED BY <5>2, <5>3, EmptySeq
      <4>4. Content' = <<<<>>>>
        BY <3>1, <4>1, <4>3 DEF Content
      <4> QED BY <1>5, <2>1, <3>1, <3>2, <3>3, <4>4
    <3>4. CASE ~Opened
      <4>1. Content' = before[w]
        BY <2>1, <3>1, <3>4, PathOfOthers DEF Content
      <4> QED BY <1>5, <2>1, <3>1, <3>2, <3>4, <4>1
    <3> QED BY <3>3, <3>4
  <2>6. CASE closeStream(w)
    <3>1. outcome'[w] = Result(w) /\ pc[w] = "close" /\ fd[w] # 0
      BY <2>6, OwnMove DEF closeStream, TypeInv, TypeOK
    <3>2. Opened' = Opened
      BY <2>6, OpenedByStep DEF closeStream, writeFileWithoutTemporary, rename, Begin
    <3>3. CASE failed[w]
      <4>1. fd[w] # path /\ Content = before[w]
        BY <1>0, <3>1, <3>3 DEF Observation
      <4>2. Content' = Content
        BY <2>6, <3>1, <4>1, PathKept DEF rename, writeFileWithoutTemporary
      <4>3. ~Opened
        BY <4>1 DEF Opened
      <4>4. Result(w) \in {"aborted", "failed"}
        BY <3>3 DEF Result
      <4> QED BY <1>3, <1>5, <2>1, <3>1, <3>2, <4>1, <4>2, <4>3, <4>4
    <3>4. CASE ~failed[w]
      <4>1. path = fd[w] /\ Opened
        BY <1>0, <3>1, <3>4 DEF Observation, Opened
      <4>2. CASE bad'[w]
        BY <1>3, <2>1, <3>1, <3>2, <4>1, <4>2 DEF Result
      <4>3. CASE ~bad'[w]
        <5>1. data'[fd[w]] = Text(doc[w]) /\ UNCHANGED path /\ fd[w] # 0
          BY <1>0, <2>6, <4>3, CloseWhole
        <5>2. Content' = <<Text(doc[w])>>
          BY <4>1, <5>1 DEF Content
        <5>3. Result(w) = "success"
          BY <3>4, <4>3 DEF Result
        <5> QED BY <1>4, <2>1, <3>1, <3>2, <4>1, <5>2, <5>3
      <4> QED BY <4>2, <4>3
    <3> QED BY <3>3, <3>4
  <2>7. CASE Crash(w)
    <3>1. outcome'[w] = "crashed" /\ UNCHANGED <<path, data>>
      BY <2>7, OwnMove DEF Crash, disk
    <3>2. Opened' = Opened
      BY <2>7, OpenedByStep DEF Crash, disk, stream, Opened
    <3>3. Opened \/ Content' = before[w]
      BY <2>1, <3>1, PathOfOthers DEF Content
    <3> QED BY <1>3, <2>1, <3>1, <3>2, <3>3
  <2> QED BY <1>6, <2>2, <2>3, <2>4, <2>5, <2>6, <2>7 DEF WriterStep
<1> QED BY <1>1, <1>6

\* A single process keeps the promise the drivers may rely on, whatever fails and
\* whenever it is killed.  Success means that the whole document is there.  An
\* error leaves the path as it was; only when it was opened to write in place, and
\* there was nothing to write, it leaves it empty.  And a process that dies has
\* touched no path that it had not opened (writeFile and its callers).
THEOREM KeepsPromise == ASSUME \A v, w \in Writers : v = w PROVE Spec => ImplementsPromise
<1>1. Single
  BY DEF Single
<1>2. TypeInv /\ TypeInv' /\ RunInv /\ RunInv' /\ TempInv /\ PhaseInv /\ StreamInv /\ ObservedInv
        /\ [Next]_vars => [Promise!Next]_(Promise!vars)
  <2> SUFFICES ASSUME TypeInv, TypeInv', RunInv, RunInv', TempInv, PhaseInv, StreamInv,
                      ObservedInv, [Next]_vars
               PROVE  Promise!Next \/ UNCHANGED <<Observed, doc[Writer], Opened, outcome[Writer]>>
    BY DEF Promise!vars
  <2>1. CASE UNCHANGED vars
    BY <2>1 DEF vars, disk, stream, Observed, Content, Opened
  <2>2. ASSUME NEW w \in Writers, Begin(w) \/ WriterStep(w) \/ Crash(w)
        PROVE  Promise!Next \/ UNCHANGED <<Observed, doc[Writer], Opened, outcome[Writer]>>
    <3>1. w = Writer
      BY WritersAssumption DEF WritersAssumption, Writer
    <3> QED BY <1>1, <2>2, <3>1, PromiseStep
  <2> QED BY <2>1, <2>2 DEF Next
<1>3. Spec => []ObservedInv
  BY <1>1, ObservedInvariant
<1> QED BY <1>2, <1>3, PromiseInit, TypeInvariant, RunInvariant, TempInvariant, PhaseInvariant,
           StreamInvariant, PTL DEF Spec, ImplementsPromise, Promise!Spec

\* A single process that finds an equal interface does not touch the file: its
\* modification time survives, as the build system expects (shouldWrite).
THEOREM EqualFileSurvives ==
  ASSUME \A v, w \in Writers : v = w
  PROVE  Spec => []EqualFileUntouched
<1> DEFINE Found(w) == before[w] = <<Text(doc[w])>> /\ outcome[w] # "none" /\ ~inPlace
           Untouched ==
             \A w \in Writers :
               Found(w) => fd[w] = 0 /\ Content = before[w] /\ pc[w] \in {"idle", "check", "new"}
<1>1. Single
  BY DEF Single
<1>2. Init => Untouched
  BY DEF Init
<1>3. TypeInv /\ RunInv /\ Untouched /\ [Next]_vars => Untouched'
  <2> SUFFICES ASSUME TypeInv, RunInv, Untouched, [Next]_vars PROVE Untouched'
    OBVIOUS
  <2>1. CASE UNCHANGED vars
    BY <2>1 DEF vars, disk, stream, Content
  <2>2. ASSUME NEW w \in Writers, Begin(w) \/ WriterStep(w) \/ Crash(w), Found(w)'
        PROVE  fd'[w] = 0 /\ Content' = before'[w] /\ pc'[w] \in {"idle", "check", "new"}
    <3>1. CASE Begin(w)
      <4>1. fd'[w] = 0 /\ before'[w] = Content
        BY <3>1 DEF Begin, TypeInv, TypeOK
      <4>2. Content' = Content
        BY <3>1 DEF Begin, disk, Content
      <4> QED BY <3>1, <4>1, <4>2, OwnMove
    <3>2. CASE WriterStep(w) \/ Crash(w)
      <4>1. UNCHANGED <<before, doc>> /\ pc[w] # "idle" /\ ~inPlace
        BY <2>2, <3>2 DEF WriterStep, shouldWrite, createUniqueFile, writeFileWithoutTemporary,
           flush_nonempty, NoText, EndOfText, rename, closeStream, Crash, disk
      <4>2. outcome[w] = "running"
        BY <4>1 DEF RunInv
      <4>3. fd[w] = 0 /\ Content = <<Text(doc[w])>> /\ pc[w] \in {"check", "new"}
        BY <2>2, <4>1, <4>2
      <4>4. CASE shouldWrite(w)
        <5>1. data[path] = Text(doc[w]) /\ path # 0
          <6>1. path # 0
            BY <4>3 DEF Content
          <6> QED BY <4>3, <6>1 DEF Content
        <5>2. WriteAction(w) = {"skip"}
          BY <5>1 DEF WriteAction
        <5>3. pc'[w] \in {"idle", "new"}
          BY <4>4, <5>2 DEF shouldWrite, Finish, Goto, TypeInv, TypeOK
        <5>4. UNCHANGED <<fd, data, path>>
          BY <4>4 DEF shouldWrite, disk, stream
        <5> QED BY <2>2, <4>1, <4>3, <5>3, <5>4 DEF Content
      <4>5. CASE writeFileWithoutTemporary(w)
        <5>1. pc'[w] = "idle" /\ UNCHANGED <<fd, data, path>>
          BY <2>2, <4>5 DEF writeFileWithoutTemporary, Finish, Goto, TypeInv, TypeOK
        <5> QED BY <2>2, <4>1, <4>3, <5>1 DEF Content
      <4>6. CASE Crash(w)
        BY <2>2, <4>1, <4>3, <4>6, OwnMove DEF Crash, disk, stream, Content
      <4> QED BY <3>2, <4>3, <4>4, <4>5, <4>6 DEF WriterStep, createUniqueFile, flush_nonempty,
             NoText, EndOfText, rename, closeStream
    <3> QED BY <2>2, <3>1, <3>2
  <2>3. ASSUME NEW w \in Writers, Begin(w) \/ WriterStep(w) \/ Crash(w)
        PROVE  Untouched'
    BY <1>1, <2>2, <2>3 DEF Single
  <2> QED BY <2>1, <2>3 DEF Next
<1>4. Untouched => EqualFileUntouched
  BY DEF EqualFileUntouched
<1> HIDE DEF Untouched
<1> QED BY <1>2, <1>3, <1>4, TypeInvariant, RunInvariant, PTL DEF Spec
=============================================================================
