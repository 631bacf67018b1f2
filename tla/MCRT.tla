-------------------------------- MODULE MCRT --------------------------------
(* Instances of RT for TLC. *)
EXTENDS RT, TLC

CONSTANTS f1, f2

In(c, n) == [choice |-> c, name |-> n]

ReportAndToggles == {In(REP_ONE_SUB, 7), In(REP_OPER, 2), In(PAUSE, 0), In(RESUME, 0)}

Nothing == {}

OneFile == {f1}
OneLine == [f \in Files |-> 1]
(* Its line has an empty text, over which RT may end. *)
ThatLine == {<<f1, 1>>}

(* The second is written in place, and may wait behind the first, whose     *)
(* last line has a text that is too long.                                   *)
TwoFiles == {f1, f2}
ThreeAndOne == f1 :> 3 @@ f2 :> 1
LastOfFirst == {<<f1, 3>>}
ReportOrPause == {In(REP_ONE_SUB, 7), In(PAUSE, 0)}
=============================================================================
