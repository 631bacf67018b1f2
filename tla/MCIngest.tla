------------------------------ MODULE MCIngest ------------------------------
(* Instances of Ingest for TLC. *)
EXTENDS Ingest, TLC

CONSTANTS f1, f2

TwoFiles    == {f1, f2}
FirstOnly   == {f1}
SecondOnly  == {f2}
TwoAndThree == (f1 :> 2) @@ (f2 :> 3)
(* The first file ends in a line with an empty text, the second in one      *)
(* longer than the buffer, read as two; its end has a text that is too long. *)
SecondOfFirst  == {<<f1, 2>>}
SecondOfSecond == {<<f2, 2>>}
ThirdOfSecond  == {<<f2, 3>>}
=============================================================================
