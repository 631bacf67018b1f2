------------------------------ MODULE Commands ------------------------------
(***************************************************************************)
(* The command word that the user interface sends to RT: the menu of       *)
(* ui2.c, the CommandType enumeration and the bit fields of struct Command *)
(* (intern.h), and the operator table that the menu number indexes         *)
(* (operatorAggregator.c).                                                 *)
(***************************************************************************)
EXTENDS Integers

(* CommandType *)
REP_ONE_SUB    == 1
REP_MANY_SUBS  == 2
REP_OPER       == 3
REP_MANY_OPERS == 4
PAUSE          == 5
RESUME         == 6
SHUT_DOWN      == 7

ReportTypes == {REP_ONE_SUB, REP_MANY_SUBS, REP_OPER, REP_MANY_OPERS}
ToggleTypes == {PAUSE, RESUME}

(* The two bit fields of struct Command: m_typeOfCommand : 8, m_Name : 24. *)
TypeValues == 256        \* 2^8
NameValues == 256 * 256 * 256   \* 2^24

Command == [type : 0 .. TypeValues - 1, name : 0 .. NameValues - 1]

Encode_NoTruncation(input) ==
    [type |-> input.choice,
     name |-> IF input.choice \in {REP_ONE_SUB, REP_OPER} THEN input.name ELSE 0]

(* What GetCommand stores for a menu choice and, for the two choices that   *)
(* ask for one, a name: assignment to a bit field keeps its low bits.       *)
Encode(input) ==
    [type |-> input.choice % TypeValues,
     name |-> IF input.choice \in {REP_ONE_SUB, REP_OPER}
                THEN input.name % NameValues
                ELSE 0]

(* The array names[] that OpAggregatorRepFunction indexes with m_Name, and  *)
(* the numbering that GetCommand shows to the user.                         *)
OperatorNames ==
    [i \in 0..5 |-> CASE i = 0 -> "Golan"     [] i = 1 -> "Cellcom"
                      [] i = 2 -> "Orange"    [] i = 3 -> "Pelephone"
                      [] i = 4 -> "Vodafone"  [] i = 5 -> "Partner"]
OperatorMenu == <<"Cellcom", "Orange", "Pelephone", "Partner", "Vodafone">>
=============================================================================
