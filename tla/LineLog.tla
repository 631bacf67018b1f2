------------------------------ MODULE LineLog -------------------------------
(***************************************************************************)
(* What the ingest threads promise to the two aggregators: one log of call *)
(* records.  The lines of a file enter it in file order, without gaps and  *)
(* without repetition; a line that was cut off ends its file.  Both        *)
(* aggregators read that same log from its beginning, each at its own      *)
(* pace.                                                                   *)
(***************************************************************************)
EXTENDS Integers, Sequences

CONSTANT Files

VARIABLES log, subSeen, opSeen
vars == <<log, subSeen, opSeen>>

(* A newline, a full buffer, or the end of what was written.                *)
Endings == {"newline", "buffer", "eof"}

LastOf(f) == {i \in DOMAIN log :
                 log[i].file = f /\ \A j \in DOMAIN log : log[j].file = f => j <= i}

Init == log = << >> /\ subSeen = << >> /\ opSeen = << >>

(* Line 1 if there is none of f yet, otherwise the one after the last.      *)
AppendLine(f) ==
    /\ \E n \in {1} \cup {log[i].line + 1 : i \in DOMAIN log}, ending \in Endings :
           /\ \/ n = 1 /\ \A i \in DOMAIN log : log[i].file # f
              \/ \E i \in LastOf(f) : log[i].ending # "eof" /\ n = log[i].line + 1
           /\ log' = Append(log, [file |-> f, line |-> n, ending |-> ending])
    /\ UNCHANGED <<subSeen, opSeen>>

SubRead ==
    /\ Len(subSeen) < Len(log)
    /\ subSeen' = Append(subSeen, log[Len(subSeen) + 1])
    /\ UNCHANGED <<log, opSeen>>

OpRead ==
    /\ Len(opSeen) < Len(log)
    /\ opSeen' = Append(opSeen, log[Len(opSeen) + 1])
    /\ UNCHANGED <<log, subSeen>>

Next == (\E f \in Files : AppendLine(f)) \/ SubRead \/ OpRead

Spec == Init /\ [][Next]_vars
=============================================================================
