--------------------------- MODULE MCCommandPath ----------------------------
(* Instances of CommandPath for TLC. *)
EXTENDS CommandPath

In(c, n) == [choice |-> c, name |-> n]

(* Two subscribers, an operator, both toggles. *)
EagerInputs == {In(REP_ONE_SUB, 7), In(REP_ONE_SUB, 9), In(REP_OPER, 2),
                In(PAUSE, 0), In(RESUME, 0)}

(* Every menu item, and a number outside the menu (its low bits are 7). *)
PacedInputs == {In(REP_ONE_SUB, 7), In(REP_ONE_SUB, 9), In(REP_MANY_SUBS, 0), 
                In(REP_OPER, 2), In(REP_MANY_OPERS, 0), In(PAUSE, 0), In(RESUME, 0),
                In(SHUT_DOWN, 0), In(TypeValues + SHUT_DOWN, 0)}

ToggleInputs == {In(REP_ONE_SUB, 7), In(PAUSE, 0), In(RESUME, 0)}
=============================================================================
