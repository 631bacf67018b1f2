--------------------------------- MODULE RT ---------------------------------
(***************************************************************************)
(* The RT process as a whole: the threads of CommandPath and the threads   *)
(* of Ingest in one process.  They meet in four places: the flag isPause,  *)
(* which the dispatcher sets and the file watcher looks at; the aggregates *)
(* that a report needs; the stream that the report writer opens; and the   *)
(* end of the process, which any of them brings about for all.             *)
(*                                                                         *)
(* A restarted RT finds ./Input as the last one left it, and nothing else: *)
(* inotify tells it only of what comes after it set its watch.             *)
(***************************************************************************)
EXTENDS CommandPath

CONSTANTS
    Files, MovedIn, LinesPerFile, GapLines, LongLines,         \* as in Ingest
    OverrunLines, MayBeGone, ReportsMayFail, MaxStreams, NoFile

ASSUME RTAssumption ==
    /\ MovedIn \subseteq Files /\ NoFile \notin Files
    /\ LinesPerFile \in [Files -> Nat]
    /\ GapLines \cup LongLines \cup OverrunLines \subseteq Files \X (Nat \ {0})
    /\ MayBeGone \subseteq Files /\ ReportsMayFail \in BOOLEAN
    /\ MaxStreams \in Nat

VARIABLES
    present, written, watching, events, toggles,               \* as in Ingest
    watcherPc,                                                 \* its fwPc
    batch, streams, reporting, pausedReads,
    dataWatcherQueue, dataManagerQueue, readerQueue, parserQueue,
    aggregatorQueue, subAggrQueue, opAggrQueue,
    dwHand, dmHand, rdHand, rdLine, pos, paHand, spoiled, agHand, agSub,
    subSeen, opSeen, crashed,
    printed,       \* reports that the report writer has begun in this life of RT
    asked,         \* reports made in this life of RT
    counted        \* history: lines that earlier lives of RT have aggregated

I == INSTANCE Ingest WITH fwPc <- watcherPc, MaxToggles <- MaxCommands

memory == <<watching, events, toggles, watcherPc, batch, streams, reporting, pausedReads,
            dataWatcherQueue, dataManagerQueue, readerQueue, parserQueue, aggregatorQueue,
            subAggrQueue, opAggrQueue, dwHand, dmHand, rdHand, rdLine, pos, paHand,
            spoiled, agHand, agSub, subSeen, opSeen>>
disk == <<present, written>>
reportVars == <<asked, printed>>
ingestVars == <<disk, memory, crashed>>
rtvars == <<vars, ingestVars, reportVars, counted>>

(* What a step of the ingest threads leaves alone.                          *)
notIngest == <<uiVars, ipcQueue, rtVars, taken, dispPc, reportPath, watcherVars, reports,
               counted>>
-----------------------------------------------------------------------------
RTInit == Init /\ I!Init /\ asked = 0 /\ printed = 0 /\ counted = {}

(* What the ingest threads held goes with the process.                      *)
MemoryGone ==
    /\ watching' = FALSE /\ events' = << >> /\ toggles' = 0
    /\ watcherPc' = "start" /\ batch' = << >>
    /\ streams' = 0 /\ reporting' = FALSE /\ pausedReads' = 0
    /\ dataWatcherQueue' = << >> /\ dataManagerQueue' = << >> /\ readerQueue' = << >>
    /\ parserQueue' = << >> /\ aggregatorQueue' = << >>
    /\ subAggrQueue' = << >> /\ opAggrQueue' = << >>
    /\ dwHand' = << >> /\ dmHand' = << >> /\ paHand' = << >> /\ spoiled' = FALSE
    /\ rdHand' = << >> /\ rdLine' = << >> /\ pos' = [f \in Files |-> 0]
    /\ agHand' = << >> /\ agSub' = FALSE
    /\ subSeen' = << >> /\ opSeen' = << >>
    /\ asked' = 0 /\ printed' = 0
    /\ counted' = counted \cup {subSeen[i] : i \in DOMAIN subSeen}
    /\ crashed' = TRUE
    /\ UNCHANGED disk

(* The command path ends RT: a signal, or names[] read outside its entries. *)
End == (RTKilled \/ OpAggregatorRepOverrun) /\ MemoryGone

(* A report was made, and the writer is through with those before it.       *)
ReportWaits == ~reporting /\ printed < asked

(* The reader ends it over a NULL, any thread over spoiled memory, the      *)
(* report writer over a report that it cannot open.                         *)
FaultOver(cause) == Running /\ cause /\ EndRT /\ MemoryGone

ReaderFault == FaultOver(I!NullAtHand)
Fault == ReaderFault \/ FaultOver(spoiled) \/ FaultOver(ReportWaits /\ I!ReportFails)

Start == DispatcherCreate /\ crashed' = FALSE /\ UNCHANGED <<disk, memory, reportVars, counted>>
-----------------------------------------------------------------------------
(* The command path.                                                        *)

User ==
    /\ UserInterfaceCreate \/ \E input \in UserInputs : GetCommand(input)
    /\ UNCHANGED <<ingestVars, reportVars, counted>>

(* The flag is the file watcher's: FileWatcherPause and FileWatcherWakeUp.  *)
SetFlag ==
    /\ GetMsgSetFlag
    /\ IF isPause' = isPause THEN UNCHANGED ingestVars
       ELSE I!FileWatcherPause \/ I!FileWatcherWakeUp
    /\ UNCHANGED <<reportVars, counted>>

Dispatcher ==
    \/ SetFlag
    \/ /\ \/ GetMsgReceive \/ GetMsgReport \/ GetMsgToDataWatcher
          \/ GetMsgToFileWatcher \/ GetMsgIgnore
       /\ UNCHANGED <<ingestVars, reportVars, counted>>

(* HashMap_Remove finds something only where something was aggregated.      *)
ReportThread(switch, seen) ==
    /\ switch
    /\ reports' # reports => seen # << >>
    /\ asked' = asked + (Len(reports') - Len(reports))
    /\ UNCHANGED <<ingestVars, printed, counted>>

SubReport == ReportThread(SubAggregatorRepSwitch, subSeen)
OpReport == ReportThread(OpAggregatorRepSwitch, opSeen)

RequestThread(take) == take /\ UNCHANGED <<ingestVars, reportVars, counted>>

PauseThreads ==
    /\ \/ DataWatcherCommandTake \/ DataWatcherCommandLock
       \/ FileWatcherForpauseTake \/ FileWatcherForpauseCheck \/ SpuriousWakeup
    /\ UNCHANGED <<ingestVars, reportVars, counted>>
-----------------------------------------------------------------------------
(* The ingest threads.                                                      *)

Input ==
    /\ \E f \in Files : I!CreateFile(f) \/ I!MoveFile(f) \/ I!WriteFile(f)
    /\ UNCHANGED <<notIngest, reportVars>>

FileWatcher == Running /\ I!FileWatcherFunction /\ UNCHANGED <<notIngest, reportVars>>

(* Its data thread does not look at the mutex of its command thread.        *)
DataWatcher == Running /\ I!DataWatcherFunction /\ UNCHANGED <<notIngest, reportVars>>

DataManager == Running /\ I!DataManagerFunction /\ UNCHANGED <<notIngest, reportVars>>
Reader == Running /\ I!ReaderFunction /\ ~crashed' /\ UNCHANGED <<notIngest, reportVars>>
Parser == Running /\ I!ParserFunction /\ UNCHANGED <<notIngest, reportVars>>
Aggregator == Running /\ I!AggregatorFunction /\ UNCHANGED <<notIngest, reportVars>>
SubAggregator == Running /\ I!SubAggregatorFunction /\ UNCHANGED <<notIngest, reportVars>>
OpAggregator == Running /\ I!OpAggregatorFunction /\ UNCHANGED <<notIngest, reportVars>>

ReportWriter_PrintsAgain ==
    /\ Running
    /\ \/ I!OpenReport /\ asked > 0 /\ printed' = printed + 1
       \/ I!CloseReport /\ UNCHANGED printed
    /\ UNCHANGED <<notIngest, asked>>

(* The report writer opens a stream for each report, one after the other.   *)
ReportWriter ==
    /\ Running
    /\ \/ I!OpenReport /\ printed < asked /\ printed' = printed + 1
       \/ I!CloseReport /\ UNCHANGED printed
    /\ UNCHANGED <<notIngest, asked>>
-----------------------------------------------------------------------------
RTNext ==
    \/ User \/ Input \/ Start \/ End \/ Fault
    \/ Dispatcher \/ SubReport \/ OpReport \/ PauseThreads
    \/ RequestThread(AggregatorRepFunction)
    \/ RequestThread(SubAggregatorRepTake) \/ RequestThread(OpAggregatorRepTake)
    \/ FileWatcher \/ DataWatcher \/ DataManager \/ Reader \/ Parser
    \/ Aggregator \/ SubAggregator \/ OpAggregator \/ ReportWriter

RTSpec == RTInit /\ [][RTNext]_rtvars

(* The threads of a running RT are scheduled; of those on the report path   *)
(* it is not needed here.  Nobody need enter a command, bring a file or     *)
(* start a process, and spoiled memory need not end one.                    *)
RTFairness ==
    /\ WF_rtvars(Dispatcher)
    /\ WF_rtvars(RequestThread(DataWatcherCommandTake \/ DataWatcherCommandLock))
    /\ WF_rtvars(RequestThread(FileWatcherForpauseTake \/ FileWatcherForpauseCheck))
    /\ WF_rtvars(FileWatcher) /\ WF_rtvars(DataWatcher) /\ WF_rtvars(DataManager)
    /\ WF_rtvars(Reader \/ ReaderFault) /\ WF_rtvars(Parser) /\ WF_rtvars(Aggregator)
    /\ WF_rtvars(SubAggregator) /\ WF_rtvars(OpAggregator)

RTFairSpec == RTSpec /\ RTFairness
-----------------------------------------------------------------------------
(* The last PAUSE or RESUME that RT has received or will receive next.      *)
Standing ==
    LET received == taken \o ipcQueue
    IN IF \E i \in DOMAIN received :
              /\ TypeAt(received[i]) = PAUSE
              /\ \A k \in i .. Len(received) : TypeAt(received[k]) # RESUME
         THEN PAUSE ELSE RESUME

Unread(f) == \E i \in DOMAIN events : events[i] = f


(* A PAUSE that is dealt with holds: the flag is set whatever the threads   *)
(* that misread the dispatcher's message have done, and until the user      *)
(* sends RESUME the file watcher reads events at most once.                 *)
SettledPauseHolds ==
    (Running /\ Settled /\ Standing = PAUSE) => isPause /\ pausedReads <= 1

(* However RT ends and is started again, no line is aggregated in two of    *)
(* its lives: what an earlier life aggregated before it ended is lost, and  *)
(* never counted a second time.                                             *)
NoLineInTwoLives ==
    \A i \in DOMAIN subSeen : subSeen[i] \notin counted

(* The parts of the state have their shapes; the report writer begins no    *)
(* report that was not made in this life.                                   *)
RTTypeOK ==
    /\ TypeOK /\ I!TypeOK
    /\ asked \in 0 .. Len(reports) /\ printed \in 0 .. asked
    /\ counted \subseteq I!LineEntry

(* What the aggregators are given in the lives of RT is one log per life,   *)
(* in which files that an earlier life has counted lines of do not occur.   *)
Lives == INSTANCE LifeLogs WITH log <- subSeen \o subAggrQueue
ImplementsLifeLogs == Lives!LivesSpec

(* The files that no earlier life has aggregated a line of.                 *)
NewFiles == {f \in present : \A line \in counted : line.file # f}

(* RT ends by itself only over a stream, when as many files of which no     *)
(* earlier life has counted a line have come as it may open streams, or one *)
(* of them may have gone again, or a report was made that may not be        *)
(* written; or over a line read in this life that spoils memory.  Reports   *)
(* and files share the streams.                                             *)
FaultHasACause ==
    [][Fault => \/ Cardinality(NewFiles) >= MaxStreams
                \/ MayBeGone \cap NewFiles # {}
                \/ ReportsMayFail /\ printed < asked
                \/ \E f \in present : I!HarmfulRead(f)]_rtvars

(* Two ingest threads that wait for each other are not freed by any PAUSE,  *)
(* RESUME, report or file: only the end of RT undoes it.                    *)
WedgedUntilRTEnds == [][I!Wedged => I!Wedged' \/ ~Running']_rtvars
=============================================================================
