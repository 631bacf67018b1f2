------------------------------- MODULE Ingest -------------------------------
(***************************************************************************)
(* From a file in ./Input to the two aggregators: file watcher, data       *)
(* watcher, data manager, reader, parser and aggregator, one thread each,  *)
(* joined by the SafeQueues of initializer.c.                              *)
(*                                                                         *)
(* Two queues have two producers and close a cycle: dataManager inserts    *)
(* files into readerQueue and reader inserts parsed records into           *)
(* dataManagerQueue; reader feeds parserQueue and parser feeds readerQueue *)
(* again.  SafeQueueInsert waits while the queue is full.                  *)
(*                                                                         *)
(* A thread's hand holds what it has removed and not yet inserted.  A file *)
(* is counted in halves of lines: a writer may be caught in the middle of  *)
(* a line.  A line that does not fit into the reader's buffer counts as    *)
(* the several lines that fgets makes of it.                               *)
(***************************************************************************)
EXTENDS Integers, Sequences, FiniteSets

CONSTANTS
    Files,         \* files that come to ./Input
    MovedIn,       \* those renamed into it when complete; others are written there
    LinesPerFile,  \* [Files -> number of lines]
    GapLines,      \* <<file, line>>: fewer than thirteen texts, or an empty one
    LongLines,     \* those that fill the reader's buffer and go on in the next one
    OverrunLines,  \* those with a text of STRING_LEN or more, or more than thirteen
    MayBeGone,     \* files that may be away again, or unreadable, when opened
    ReportsMayFail,\* may ./Output be missing or closed to writing?
    QueueCap,      \* QUEUE_INITIAL_LENGTH
    MaxStreams,    \* streams the process may hold open
    MaxToggles,    \* bound: PAUSE and RESUME commands
    NoFile         \* the NULL that a failed fopen stores

ASSUME IngestAssumption ==
    /\ MovedIn \subseteq Files /\ NoFile \notin Files
    /\ LinesPerFile \in [Files -> Nat]
    /\ GapLines \cup LongLines \cup OverrunLines \subseteq Files \X (Nat \ {0})
    /\ MayBeGone \subseteq Files /\ ReportsMayFail \in BOOLEAN
    /\ QueueCap \in Nat \ {0} /\ MaxStreams \in Nat /\ MaxToggles \in Nat

VARIABLES
    present, written,      \* ./Input: the files in it, half lines in each
    watching, events,      \* inotify: is the watch set, events not yet read
    isPause, toggles,      \* flag of fileWatcher.c; commands so far
    fwPc, batch,           \* file watcher: next step, events read
    streams,               \* streams opened for files; none is ever closed
    reporting,             \* has the report writer a stream open?
    pausedReads,           \* history: reads of events since the last PAUSE
    dataWatcherQueue, dataManagerQueue, readerQueue, parserQueue,
    aggregatorQueue, subAggrQueue, opAggrQueue,
    dwHand, dmHand,        \* data watcher, data manager
    rdHand, rdLine, pos,   \* reader: item, line, half lines read of each file
    paHand, spoiled,       \* parser: line, has it used or left wild pointers
    agHand, agSub,         \* aggregator: item, is it in subAggrQueue already
    subSeen, opSeen,       \* what the two aggregators have removed
    crashed

inputVars   == <<present, written>>
watchVars   == <<watching, events>>
toggleVars  == <<isPause, toggles>>
fileVars    == <<fwPc, batch, streams, reporting>>
fwVars      == <<fileVars, pausedReads>>
readerVars  == <<rdHand, rdLine, pos>>
parserVars  == <<paHand, spoiled>>
aggVars     == <<agHand, agSub>>
seenVars    == <<subSeen, opSeen>>
vars == <<inputVars, watchVars, toggleVars, fwVars, dataWatcherQueue,
          dataManagerQueue, readerQueue, parserQueue, aggregatorQueue, subAggrQueue,
          opAggrQueue, dwHand, dmHand, readerVars, parserVars, aggVars, seenVars, crashed>>

Row(f) == [context |-> "ROW_DATA", file |-> f]
Line(f, n, ending) == [file |-> f, line |-> n, ending |-> ending]
Processed(line) == [context |-> "PROCESSED_DATA", entry |-> line]

HalfLines(f) == 2 * LinesPerFile[f]
Complete(f) == f \in present /\ written[f] = HalfLines(f)

(* SafeQueueRemove and SafeQueueInsert of a thread with an empty hand, and  *)
(* with a full one.                                                         *)
Remove(queue, hand) ==
    /\ ~crashed
    /\ queue # << >> /\ hand = << >>
    /\ hand' = <<Head(queue)>> /\ queue' = Tail(queue)

HasRoom(queue) == Len(queue) < QueueCap
Holds(hand, context) == hand # << >> /\ hand[1].context = context

Insert(hand, queue) ==
    /\ ~crashed
    /\ hand # << >> /\ HasRoom(queue)
    /\ queue' = queue \o hand /\ hand' = << >>
-----------------------------------------------------------------------------
Init ==
    /\ present = {} /\ written = [f \in Files |-> 0]
    /\ watching = FALSE /\ events = << >>
    /\ isPause = FALSE /\ toggles = 0
    /\ fwPc = "start" /\ batch = << >> /\ streams = 0 /\ reporting = FALSE
    /\ pausedReads = 0
    /\ dataWatcherQueue = << >> /\ dataManagerQueue = << >> /\ readerQueue = << >>
    /\ parserQueue = << >> /\ aggregatorQueue = << >>
    /\ subAggrQueue = << >> /\ opAggrQueue = << >>
    /\ dwHand = << >> /\ dmHand = << >> /\ paHand = << >> /\ spoiled = FALSE
    /\ rdHand = << >> /\ rdLine = << >> /\ pos = [f \in Files |-> 0]
    /\ agHand = << >> /\ agSub = FALSE
    /\ subSeen = << >> /\ opSeen = << >>
    /\ crashed = FALSE

pipeVars == <<dataWatcherQueue, dataManagerQueue, readerQueue, parserQueue,
              aggregatorQueue, subAggrQueue, opAggrQueue, dwHand, dmHand,
              readerVars, parserVars, aggVars, seenVars>>

(* ./Input: IN_CREATE as a file is created, IN_MOVED_TO as one is renamed   *)
(* into the directory; nothing when a file is written to.                   *)
Notify(f) == events' = IF watching THEN Append(events, f) ELSE events

CreateFile(f) ==
    /\ f \notin present \cup MovedIn
    /\ present' = present \cup {f}
    /\ Notify(f)
    /\ UNCHANGED <<written, watching, toggleVars, fwVars, pipeVars, crashed>>

MoveFile(f) ==
    /\ f \in MovedIn \ present
    /\ present' = present \cup {f}
    /\ written' = [written EXCEPT ![f] = HalfLines(f)]
    /\ Notify(f)
    /\ UNCHANGED <<watching, toggleVars, fwVars, pipeVars, crashed>>

WriteFile(f) ==
    /\ f \in present
    /\ written[f] < HalfLines(f)
    /\ written' = [written EXCEPT ![f] = @ + 1]
    /\ UNCHANGED <<present, watchVars, toggleVars, fwVars, pipeVars, crashed>>

(* The dispatcher's FileWatcherPause and FileWatcherWakeUp.                 *)
FileWatcherPause ==
    /\ ~crashed /\ ~isPause /\ toggles < MaxToggles
    /\ isPause' = TRUE /\ toggles' = toggles + 1
    /\ pausedReads' = 0
    /\ UNCHANGED <<inputVars, watchVars, fileVars, pipeVars, crashed>>

FileWatcherWakeUp ==
    /\ ~crashed /\ isPause /\ toggles < MaxToggles
    /\ isPause' = FALSE /\ toggles' = toggles + 1
    /\ UNCHANGED <<inputVars, watchVars, fwVars, pipeVars, crashed>>
-----------------------------------------------------------------------------
(* File watcher (FileWatcherFunction).                                      *)

StartWatch_FindsAFile ==
    /\ ~crashed /\ fwPc = "start"
    /\ watching' = TRUE
    /\ events' \in {<<f>> : f \in present} \cup {<< >>}
    /\ fwPc' = "test"
    /\ UNCHANGED <<inputVars, toggleVars, batch, streams, reporting, pausedReads,
                   pipeVars, crashed>>

StartWatch ==
    /\ ~crashed /\ fwPc = "start"
    /\ watching' = TRUE
    /\ fwPc' = "test"
    /\ UNCHANGED <<inputVars, events, toggleVars, batch, streams, reporting, pausedReads,
                   pipeVars, crashed>>

AfterBatch_NoTest == "read"
(* Where the loop goes after a batch: to the test of isPause.               *)
AfterBatch == "test"

TestPause ==
    /\ ~crashed /\ fwPc = "test"
    /\ ~isPause
    /\ fwPc' = "read"
    /\ UNCHANGED <<inputVars, watchVars, toggleVars, batch, streams, reporting, pausedReads,
                   pipeVars, crashed>>

(* read() blocks until there is an event and then returns all of them (the  *)
(* buffer has room for 1024).  The flag is not looked at again.             *)
ReadEvents ==
    /\ ~crashed /\ fwPc = "read"
    /\ events # << >>
    /\ batch' = events /\ events' = << >>
    /\ fwPc' = "batch"
    /\ pausedReads' = IF isPause THEN pausedReads + 1 ELSE 0
    /\ UNCHANGED <<inputVars, watching, toggleVars, streams, reporting, pipeVars, crashed>>

StreamLeft_StandardOnesAgain == streams + (IF reporting THEN 1 ELSE 0) + 3 < MaxStreams
(* The descriptors of the process, whoever opens them.                      *)
StreamLeft == streams + (IF reporting THEN 1 ELSE 0) < MaxStreams

(* What fopen may return: NULL when the process has no stream left, or the  *)
(* file is no longer there or not to be read.                               *)
Opened(f) == (IF StreamLeft THEN {f} ELSE {})
             \cup (IF StreamLeft /\ f \notin MayBeGone THEN {} ELSE {NoFile})

(* fopen, then SafeQueueInsert; the stream is opened before the thread can  *)
(* be kept waiting, which no other thread notices.                          *)
OpenFile ==
    /\ ~crashed /\ fwPc = "batch"
    /\ HasRoom(dataWatcherQueue)
    /\ \E file \in Opened(Head(batch)) :
           /\ dataWatcherQueue' = Append(dataWatcherQueue, Row(file))
           /\ streams' = IF file = NoFile THEN streams ELSE streams + 1
    /\ batch' = Tail(batch)
    /\ fwPc' = IF Len(batch) = 1 THEN AfterBatch ELSE "batch"
    /\ UNCHANGED <<inputVars, watchVars, toggleVars, reporting, pausedReads, dataManagerQueue,
                   readerQueue, parserQueue, aggregatorQueue, subAggrQueue, opAggrQueue,
                   dwHand, dmHand, readerVars, parserVars, aggVars, seenVars, crashed>>

(* The subscriber report writer, which needs a stream of the same process   *)
(* for as long as it prints: a report may be asked for once there is an     *)
(* aggregate.  It prints to the NULL of a failed fopen.                     *)
ReportToOpen == ~reporting /\ (subSeen # << >> \/ opSeen # << >>)

OpenReport ==
    /\ ~crashed /\ ReportToOpen /\ StreamLeft
    /\ reporting' = TRUE
    /\ UNCHANGED <<inputVars, watchVars, toggleVars, fwPc, batch, streams, pausedReads,
                   pipeVars, crashed>>

ReportFails == ~StreamLeft \/ ReportsMayFail

OpenReportFails ==
    /\ ~crashed /\ ReportToOpen /\ ReportFails
    /\ crashed' = TRUE
    /\ UNCHANGED <<inputVars, watchVars, toggleVars, fwVars, pipeVars>>

CloseReport ==
    /\ ~crashed /\ reporting
    /\ reporting' = FALSE
    /\ UNCHANGED <<inputVars, watchVars, toggleVars, fwPc, batch, streams, pausedReads,
                   pipeVars, crashed>>

FileWatcherFunction == StartWatch \/ TestPause \/ ReadEvents \/ OpenFile
-----------------------------------------------------------------------------
(* Data watcher (DataWatcherFunction): it never looks at m_mutex.           *)

DataWatcherRemove ==
    /\ Remove(dataWatcherQueue, dwHand)
    /\ UNCHANGED <<inputVars, watchVars, toggleVars, fwVars, dataManagerQueue,
                   readerQueue, parserQueue, aggregatorQueue, subAggrQueue, opAggrQueue,
                   dmHand, readerVars, parserVars, aggVars, seenVars, crashed>>

DataWatcherInsert ==
    /\ Insert(dwHand, dataManagerQueue)
    /\ UNCHANGED <<inputVars, watchVars, toggleVars, fwVars, dataWatcherQueue,
                   readerQueue, parserQueue, aggregatorQueue, subAggrQueue, opAggrQueue,
                   dmHand, readerVars, parserVars, aggVars, seenVars, crashed>>

DataWatcherFunction == DataWatcherRemove \/ DataWatcherInsert

(* Data manager (DataManagerFunction): files to the reader, records to the  *)
(* aggregator.                                                              *)

DataManagerRemove ==
    /\ Remove(dataManagerQueue, dmHand)
    /\ UNCHANGED <<inputVars, watchVars, toggleVars, fwVars, dataWatcherQueue,
                   readerQueue, parserQueue, aggregatorQueue, subAggrQueue, opAggrQueue,
                   dwHand, readerVars, parserVars, aggVars, seenVars, crashed>>

DataManagerToReader ==
    /\ Holds(dmHand, "ROW_DATA")
    /\ Insert(dmHand, readerQueue)
    /\ UNCHANGED <<inputVars, watchVars, toggleVars, fwVars, dataWatcherQueue,
                   dataManagerQueue, parserQueue, aggregatorQueue, subAggrQueue,
                   opAggrQueue, dwHand, readerVars, parserVars, aggVars, seenVars, crashed>>

DataManagerToAggregator ==
    /\ Holds(dmHand, "PROCESSED_DATA")
    /\ Insert(dmHand, aggregatorQueue)
    /\ UNCHANGED <<inputVars, watchVars, toggleVars, fwVars, dataWatcherQueue,
                   dataManagerQueue, readerQueue, parserQueue, subAggrQueue,
                   opAggrQueue, dwHand, readerVars, parserVars, aggVars, seenVars, crashed>>

DataManagerFunction ==
    DataManagerRemove \/ DataManagerToReader \/ DataManagerToAggregator
-----------------------------------------------------------------------------
(* Reader (ReaderFunction, SendAllStringsToParser).                         *)

ReaderRemove ==
    /\ Remove(readerQueue, rdHand)
    /\ UNCHANGED <<inputVars, watchVars, toggleVars, fwVars, dataWatcherQueue,
                   dataManagerQueue, parserQueue, aggregatorQueue, subAggrQueue,
                   opAggrQueue, dwHand, dmHand, rdLine, pos, parserVars, aggVars,
                   seenVars, crashed>>

ReadingFile == Holds(rdHand, "ROW_DATA") /\ rdLine = << >>

ReturnsRecord_NotWhileFilesWait == Holds(rdHand, "PROCESSED_DATA") /\ dmHand = << >>
ReturnsRecord == Holds(rdHand, "PROCESSED_DATA")

notReader == <<inputVars, watchVars, toggleVars, fwVars, dataWatcherQueue,
               dataManagerQueue, readerQueue, aggregatorQueue, subAggrQueue,
               opAggrQueue, dwHand, dmHand, parserVars, aggVars, seenVars>>

NullAtHand == ReadingFile /\ rdHand[1].file = NoFile

(* fgets on the NULL of a failed fopen.                                     *)
FgetsNull ==
    /\ ~crashed /\ NullAtHand
    /\ crashed' = TRUE
    /\ UNCHANGED <<notReader, readerVars, parserQueue>>

HalvesRead_PastEnd(available) == 2
(* fgets returns a line, with its newline or as much as the buffer holds,   *)
(* or what has been written of one.                                         *)
HalvesRead(available) == IF available >= 2 THEN 2 ELSE 1

Ending_ShortBuffer(f, n, available) == IF available = 1 THEN "eof" ELSE "buffer"
(* What made fgets return.                                                  *)
Ending(f, n, available) ==
    IF available = 1 THEN "eof"
    ELSE IF <<f, n>> \in LongLines THEN "buffer" ELSE "newline"

(* After the end of the file its indicator is set, and no more is read from *)
(* the stream: an odd position.                                             *)
Fgets ==
    /\ ~crashed /\ ReadingFile /\ rdHand[1].file # NoFile
    /\ LET f == rdHand[1].file
           n == (pos[f] \div 2) + 1
           available == written[f] - pos[f]
       IN /\ pos[f] % 2 = 0 /\ available > 0
          /\ pos' = [pos EXCEPT ![f] = @ + HalvesRead(available)]
          /\ rdLine' = <<Line(f, n, Ending(f, n, available))>>
    /\ UNCHANGED <<notReader, rdHand, parserQueue, crashed>>

FgetsEOF_WaitsForTheRest ==
    /\ ~crashed /\ ReadingFile /\ rdHand[1].file # NoFile
    /\ LET f == rdHand[1].file IN written[f] = pos[f] /\ pos[f] % 2 = 0
    /\ rdHand' = << >>
    /\ UNCHANGED <<notReader, rdLine, pos, parserQueue, crashed>>

FgetsEOF ==
    /\ ~crashed /\ ReadingFile /\ rdHand[1].file # NoFile
    /\ LET f == rdHand[1].file IN pos[f] % 2 = 1 \/ written[f] = pos[f]
    /\ rdHand' = << >>
    /\ UNCHANGED <<notReader, rdLine, pos, parserQueue, crashed>>

ReaderToParser ==
    /\ Insert(rdLine, parserQueue)
    /\ UNCHANGED <<notReader, rdHand, pos, crashed>>

ReaderToDataManager ==
    /\ ReturnsRecord
    /\ Insert(rdHand, dataManagerQueue)
    /\ UNCHANGED <<inputVars, watchVars, toggleVars, fwVars, dataWatcherQueue,
                   readerQueue, parserQueue, aggregatorQueue, subAggrQueue, opAggrQueue,
                   dwHand, dmHand, rdLine, pos, parserVars, aggVars, seenVars, crashed>>

ReaderFunction == \/ ReaderRemove \/ FgetsNull \/ Fgets \/ FgetsEOF
                  \/ ReaderToParser \/ ReaderToDataManager
-----------------------------------------------------------------------------
(* Parser (ParserFunction).  A part of a line, or one with too few texts,   *)
(* leaves pointers unset (LineFields); one with too many, or too long ones, *)
(* is written over what lies behind.  The process may end of it, here or    *)
(* wherever it next uses that memory.                                       *)

Whole(line) == line.ending = "newline" /\ <<line.file, line.line - 1>> \notin LongLines
Harmful(line) == ~Whole(line) \/ <<line.file, line.line>> \in GapLines \cup OverrunLines

ParserRemove ==
    /\ Remove(parserQueue, paHand)
    /\ spoiled' = (spoiled \/ Harmful(Head(parserQueue)))
    /\ UNCHANGED <<inputVars, watchVars, toggleVars, fwVars, dataWatcherQueue,
                   dataManagerQueue, readerQueue, aggregatorQueue, subAggrQueue,
                   opAggrQueue, dwHand, dmHand, readerVars, aggVars, seenVars, crashed>>

ParserInsert_ResultIgnored ==
    /\ ~crashed /\ paHand # << >>
    /\ readerQueue' = IF HasRoom(readerQueue)
                        THEN Append(readerQueue, Processed(paHand[1])) ELSE readerQueue
    /\ paHand' = << >>
    /\ UNCHANGED <<inputVars, watchVars, toggleVars, fwVars, dataWatcherQueue,
                   dataManagerQueue, parserQueue, aggregatorQueue, subAggrQueue,
                   opAggrQueue, dwHand, dmHand, readerVars, spoiled, aggVars,
                   seenVars, crashed>>

ParserInsert ==
    /\ ~crashed /\ paHand # << >> /\ HasRoom(readerQueue)
    /\ readerQueue' = Append(readerQueue, Processed(paHand[1]))
    /\ paHand' = << >>
    /\ UNCHANGED <<inputVars, watchVars, toggleVars, fwVars, dataWatcherQueue,
                   dataManagerQueue, parserQueue, aggregatorQueue, subAggrQueue,
                   opAggrQueue, dwHand, dmHand, readerVars, spoiled, aggVars,
                   seenVars, crashed>>

ParserFunction == ParserRemove \/ ParserInsert

(* Any thread that follows a wild pointer, or allocates from a spoiled heap. *)
MemoryFault ==
    /\ ~crashed /\ spoiled
    /\ crashed' = TRUE
    /\ UNCHANGED <<inputVars, watchVars, toggleVars, fwVars, pipeVars>>
-----------------------------------------------------------------------------
(* Aggregator (AggregatorFunction): the same item first to the subscriber   *)
(* aggregator, then to the operator aggregator; and what those two remove.  *)

notAggregator == <<inputVars, watchVars, toggleVars, fwVars, dataWatcherQueue,
                   dataManagerQueue, readerQueue, parserQueue, dwHand, dmHand,
                   readerVars, parserVars, crashed>>

AggregatorRemove ==
    /\ Remove(aggregatorQueue, agHand)
    /\ UNCHANGED <<notAggregator, subAggrQueue, opAggrQueue, agSub, seenVars>>

AggregatorToSub_ResultIgnored ==
    /\ ~crashed /\ agHand # << >> /\ ~agSub
    /\ subAggrQueue' = IF HasRoom(subAggrQueue)
                         THEN Append(subAggrQueue, agHand[1].entry) ELSE subAggrQueue
    /\ agSub' = TRUE
    /\ UNCHANGED <<notAggregator, aggregatorQueue, opAggrQueue, agHand, seenVars>>

AggregatorToSub ==
    /\ ~crashed /\ agHand # << >> /\ ~agSub /\ HasRoom(subAggrQueue)
    /\ subAggrQueue' = Append(subAggrQueue, agHand[1].entry)
    /\ agSub' = TRUE
    /\ UNCHANGED <<notAggregator, aggregatorQueue, opAggrQueue, agHand, seenVars>>

AggregatorToOp ==
    /\ ~crashed /\ agHand # << >> /\ agSub /\ HasRoom(opAggrQueue)
    /\ opAggrQueue' = Append(opAggrQueue, agHand[1].entry)
    /\ agSub' = FALSE /\ agHand' = << >>
    /\ UNCHANGED <<notAggregator, aggregatorQueue, subAggrQueue, seenVars>>

AggregatorFunction == AggregatorRemove \/ AggregatorToSub \/ AggregatorToOp

SubAggregatorFunction ==
    /\ ~crashed /\ subAggrQueue # << >>
    /\ subSeen' = Append(subSeen, Head(subAggrQueue))
    /\ subAggrQueue' = Tail(subAggrQueue)
    /\ UNCHANGED <<notAggregator, aggregatorQueue, opAggrQueue, aggVars, opSeen>>

OpAggregatorFunction ==
    /\ ~crashed /\ opAggrQueue # << >>
    /\ opSeen' = Append(opSeen, Head(opAggrQueue))
    /\ opAggrQueue' = Tail(opAggrQueue)
    /\ UNCHANGED <<notAggregator, aggregatorQueue, subAggrQueue, aggVars, subSeen>>
-----------------------------------------------------------------------------
Environment ==
    \/ \E f \in Files : CreateFile(f) \/ MoveFile(f) \/ WriteFile(f)
    \/ FileWatcherPause \/ FileWatcherWakeUp
    \/ OpenReport \/ OpenReportFails

Pipeline ==
    \/ DataWatcherFunction \/ DataManagerFunction \/ ReaderFunction \/ ParserFunction
    \/ AggregatorFunction \/ SubAggregatorFunction \/ OpAggregatorFunction

Next == Environment \/ FileWatcherFunction \/ Pipeline \/ CloseReport \/ MemoryFault

Spec == Init /\ [][Next]_vars

(* Each thread keeps running; whoever writes files, sends commands or asks  *)
(* for reports need not, and spoiled memory need not end the process.       *)
Fairness ==
    /\ WF_vars(FileWatcherFunction)
    /\ WF_vars(DataWatcherFunction)
    /\ WF_vars(DataManagerFunction)
    /\ WF_vars(ReaderFunction)
    /\ WF_vars(ParserFunction)
    /\ WF_vars(AggregatorFunction)
    /\ WF_vars(SubAggregatorFunction)
    /\ WF_vars(OpAggregatorFunction)
    /\ WF_vars(CloseReport)

FairSpec == Spec /\ Fairness
-----------------------------------------------------------------------------
LineEntry == [file : Files, line : Nat \ {0}, ending : {"newline", "buffer", "eof"}]
RowItem   == [context : {"ROW_DATA"}, file : Files \cup {NoFile}]
Record    == [context : {"PROCESSED_DATA"}, entry : LineEntry]
Queue(S)  == {q \in Seq(S) : Len(q) <= QueueCap}
Hand(S)   == {q \in Seq(S) : Len(q) <= 1}

InputTypes ==
    /\ present \subseteq Files /\ written \in [Files -> Nat] /\ pos \in [Files -> Nat]
    /\ \A f \in Files : pos[f] <= written[f] /\ written[f] <= HalfLines(f)

WatchTypes ==
    /\ watching \in BOOLEAN /\ events \in Seq(Files) /\ batch \in Seq(Files)
    /\ fwPc \in {"start", "test", "read", "batch"} /\ (fwPc = "batch" <=> batch # << >>)
    /\ isPause \in BOOLEAN /\ toggles \in 0 .. MaxToggles /\ pausedReads \in Nat
    /\ streams \in 0 .. MaxStreams /\ reporting \in BOOLEAN /\ crashed \in BOOLEAN

PipeTypes ==
    /\ dataWatcherQueue \in Queue(RowItem)
    /\ dataManagerQueue \in Queue(RowItem \cup Record)
    /\ readerQueue \in Queue(RowItem \cup Record)
    /\ aggregatorQueue \in Queue(Record)
    /\ parserQueue \in Queue(LineEntry)
    /\ subAggrQueue \in Queue(LineEntry) /\ opAggrQueue \in Queue(LineEntry)
    /\ dwHand \in Hand(RowItem) /\ dmHand \in Hand(RowItem \cup Record)
    /\ rdHand \in Hand(RowItem \cup Record) /\ rdLine \in Hand(LineEntry)
    /\ paHand \in Hand(LineEntry) /\ spoiled \in BOOLEAN
    /\ agHand \in Hand(Record) /\ agSub \in BOOLEAN
    /\ subSeen \in Seq(LineEntry) /\ opSeen \in Seq(LineEntry)

(* Shape of the state: which kind of item each queue and each hand holds;   *)
(* no queue is over its length.                                             *)
TypeOK == InputTypes /\ WatchTypes /\ PipeTypes

(* What the two aggregators are given is one log of records: per file in    *)
(* file order, nothing skipped or repeated, whatever the eight threads and  *)
(* the two producers of dataManagerQueue and readerQueue do in between.     *)
Log == INSTANCE LineLog WITH log <- subSeen \o subAggrQueue
ImplementsLineLog == Log!Spec

(* A line is seen whole, unless it is longer than the buffer or is what had *)
(* been written so far of a line of a file written in place; of that file   *)
(* nothing is read afterwards.                                              *)
LinesInPartAreLongOrLast ==
    \A line \in {parserQueue[i] : i \in DOMAIN parserQueue}
                \cup {subSeen[i] : i \in DOMAIN subSeen} :
        \/ Whole(line)
        \/ {<<line.file, line.line>>, <<line.file, line.line - 1>>} \cap LongLines # {}
        \/ line.file \notin MovedIn /\ pos[line.file] = 2 * line.line - 1

(* After PAUSE the file watcher reads events at most once more: the read it *)
(* had entered already, whose files may come at any later time.             *)
PauseAdmitsOneRead == isPause => pausedReads <= 1

(* A line of a file has been read that spoils memory.                       *)
HarmfulRead(f) ==
    \/ f \notin MovedIn /\ pos[f] % 2 = 1
    \/ \E line \in GapLines \cup LongLines \cup OverrunLines :
           line[1] = f /\ pos[f] >= 2 * line[2] - 1

(* The process ends over a stream only when at least as many files have     *)
(* come as it may open streams (the file watcher closes none, and the       *)
(* report writer needs one), or one that may have gone again, or when a     *)
(* report may not be written; otherwise it takes a line that spoils memory. *)
CrashHasACause ==
    crashed => \/ Cardinality(present) >= MaxStreams
               \/ MayBeGone \cap present # {}
               \/ ReportsMayFail /\ (subSeen # << >> \/ opSeen # << >>)
               \/ \E f \in present : HarmfulRead(f)

(* Items that keep a place or a hand of the cycle data manager, reader,     *)
(* parser occupied.                                                         *)
InCycle == Len(dataManagerQueue) + Len(readerQueue) + Len(parserQueue)
           + Len(dmHand) + Len(rdHand) + Len(rdLine) + Len(paHand)

Busy == \/ InCycle + Len(dataWatcherQueue) + Len(dwHand) > 0
        \/ Len(aggregatorQueue) + Len(agHand) + Len(subAggrQueue) + Len(opAggrQueue) > 0

Idle(hand, queue) == hand = << >> /\ queue = << >>
WaitsFor(hand, queue) == hand # << >> /\ ~HasRoom(queue)

(* Two threads of the cycle wait for each other: reader and parser over a   *)
(* file, or reader and data manager over a record.                          *)
Wedged ==
    \/ WaitsFor(rdLine, parserQueue) /\ WaitsFor(paHand, readerQueue)
    \/ /\ ReturnsRecord /\ WaitsFor(rdHand, dataManagerQueue)
       /\ Holds(dmHand, "ROW_DATA") /\ WaitsFor(dmHand, readerQueue)

(* Every thread of the pipeline waits at a queue: for something to come or  *)
(* for room.                                                                *)
AllWait ==
    /\ Idle(dwHand, dataWatcherQueue) \/ WaitsFor(dwHand, dataManagerQueue)
    /\ \/ Idle(dmHand, dataManagerQueue)
       \/ Holds(dmHand, "ROW_DATA") /\ WaitsFor(dmHand, readerQueue)
       \/ Holds(dmHand, "PROCESSED_DATA") /\ WaitsFor(dmHand, aggregatorQueue)
    /\ \/ Idle(rdHand, readerQueue) /\ rdLine = << >>
       \/ WaitsFor(rdLine, parserQueue)
       \/ ReturnsRecord /\ WaitsFor(rdHand, dataManagerQueue)
    /\ Idle(paHand, parserQueue) \/ WaitsFor(paHand, readerQueue)
    /\ \/ Idle(agHand, aggregatorQueue)
       \/ WaitsFor(agHand, IF agSub THEN opAggrQueue ELSE subAggrQueue)
    /\ subAggrQueue = << >> /\ opAggrQueue = << >>

(* The threads of the pipeline never all stop while there is work, unless   *)
(* two of them wait for each other, which takes two full queues and the     *)
(* hands between them: a file of fewer than 2 * QueueCap + 2 lines cannot   *)
(* stop them by itself.  None stops anywhere but at a queue, whatever is    *)
(* written to a file while it is read.                                      *)
StuckOnlyUnderLoad ==
    (Busy /\ ~crashed /\ ~ENABLED Pipeline) =>
        AllWait /\ Wedged /\ InCycle >= 2 * QueueCap + 2

(* Two threads that wait for each other do so for ever: no other thread     *)
(* takes anything out of the two full queues, and no PAUSE, RESUME or file  *)
(* changes that.                                                            *)
WedgedForever == [][Wedged => Wedged']_vars

SeenByBoth(f) ==
    \A n \in 1 .. LinesPerFile[f] :
        \A seen \in {subSeen, opSeen} : \E i \in DOMAIN seen :
            seen[i] \in {Line(f, n, "newline"), Line(f, n, "buffer")}

(* A file that is complete when its event is still unread reaches both      *)
(* aggregators in full, unless the process ends, two threads wait for each  *)
(* other or a PAUSE is never taken back: what came in during a PAUSE is     *)
(* read after the RESUME, with no new event.                                *)
CompleteFilesAreAggregated ==
    \A f \in Files :
        (Complete(f) /\ \E i \in DOMAIN events : events[i] = f)
            ~> (SeenByBoth(f) \/ []isPause \/ Wedged \/ crashed)
=============================================================================
