--------------------------- MODULE CommandService ---------------------------
(***************************************************************************)
(* What the command path promises to a user who waits for a command to be  *)
(* finished before entering the next one: a service with at most one       *)
(* command outstanding.  A report command is answered at most once, by the *)
(* aggregator for its own kind and under its own name; a command may also  *)
(* end without an answer (nothing aggregated under that name, a command    *)
(* that asks for no report, a restart).                                    *)
(***************************************************************************)
EXTENDS Commands, Sequences

CONSTANT NoCommand

VARIABLES outstanding, answered
vars == <<outstanding, answered>>

Answer(command) ==
    [by   |-> IF command.type = REP_ONE_SUB THEN "subscriber" ELSE "operator",
     name |-> command.name]

Init ==
    /\ outstanding = NoCommand
    /\ answered = << >>

Submit ==
    /\ outstanding = NoCommand
    /\ outstanding' \in Command
    /\ UNCHANGED answered

Reply ==
    /\ outstanding # NoCommand
    /\ outstanding.type \in {REP_ONE_SUB, REP_OPER}
    /\ answered' = Append(answered, Answer(outstanding))
    /\ outstanding' = NoCommand

Finish ==
    /\ outstanding # NoCommand
    /\ outstanding' = NoCommand
    /\ UNCHANGED answered

Next == Submit \/ Reply \/ Finish

Spec == Init /\ [][Next]_vars
=============================================================================
