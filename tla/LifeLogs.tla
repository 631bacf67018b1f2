------------------------------ MODULE LifeLogs ------------------------------
(***************************************************************************)
(* The log of LineLog over the lives of a process.  A life begins with an  *)
(* empty log, and its end takes the log away, with what the aggregators    *)
(* have been given; a file of which an earlier life has aggregated a line  *)
(* never enters the log again.                                             *)
(***************************************************************************)
EXTENDS LineLog

VARIABLE counted       \* lines that the subscriber aggregators of earlier lives were given

NewTo(f) == \A line \in counted : line.file # f

EndLife ==
    /\ log' = << >> /\ subSeen' = << >> /\ opSeen' = << >>
    /\ counted' = counted \cup {subSeen[i] : i \in DOMAIN subSeen}

LivesNext ==
    \/ /\ (\E f \in Files : NewTo(f) /\ AppendLine(f)) \/ SubRead \/ OpRead
       /\ UNCHANGED counted
    \/ EndLife

LivesSpec == Init /\ counted = {} /\ [][LivesNext]_<<vars, counted>>
=============================================================================
