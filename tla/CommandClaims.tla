--------------------------- MODULE CommandClaims ----------------------------
(***************************************************************************)
(* What the menu of the user interface and the messages of RT say about    *)
(* commands, as properties of CommandPath.  The code does not keep them;   *)
(* the README names, for each, the text it is taken from.                  *)
(***************************************************************************)
EXTENDS MCCommandPath

KindOf(type) == IF type = REP_ONE_SUB THEN "subscriber" ELSE "operator"

(* A report names a subscriber or operator that some command asked for      *)
(* ("One subscriber report will be created", despatcher.c): the two parts   *)
(* that a report thread reads through its pointer belong together.          *)
EveryReportWasRequested ==
    \A i \in DOMAIN reports : \E n \in DOMAIN sent :
        /\ sent[n].type \in {REP_ONE_SUB, REP_OPER}
        /\ KindOf(sent[n].type) = reports[i].by
        /\ sent[n].name = NameAt(reports[i].name)

(* The operator reported on is the one shown beside the number in the menu  *)
(* (ui2.c).                                                                 *)
OperatorIsTheOneChosen ==
    \A i \in DOMAIN reports :
        reports[i].by = "operator" =>
            OperatorNames[NameAt(reports[i].name)]
                = OperatorMenu[sent[reports[i].for].asked]

(* "System will resume" (despatcher.c): the data watcher's command thread   *)
(* releases its mutex after a RESUME that no PAUSE follows.                 *)
ResumeReleasesDataWatcher ==
    (Running /\ Slot # 0 /\ TypeAt(Slot) = RESUME)
        ~> (~Running \/ ~dwMutex \/ TypeAt(Slot) # RESUME)

(* Instances. *)
MixedInputs == {In(REP_ONE_SUB, 4), In(REP_OPER, 2)}
MenuInputs  == {In(REP_OPER, n) : n \in 1 .. 5}
=============================================================================
