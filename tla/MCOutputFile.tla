--------------------------- MODULE MCOutputFile ---------------------------
(* Instances of OutputFile for TLC.                                        *)
EXTENDS OutputFile

\* Two documents of different length.
TwoDocs == {"short", "long"}
Sizes == [d \in TwoDocs |-> IF d = "short" THEN 1 ELSE 3]

\* The path does not exist, is empty, cut short, or holds a document.
AnyFile == {<<>>, <<<<>>>>, <<<<Piece("long", 1)>>>>} \cup {<<Text(d)>> : d \in TwoDocs}
WholeFile == {<<Text(d)>> : d \in TwoDocs}
=============================================================================
