---------------------------- MODULE Ingest_proofs ----------------------------
(***************************************************************************)
(* Theorems about the ingest threads, for any files, any length of the     *)
(* queues, any number of streams and any number of toggles.                *)
(***************************************************************************)
EXTENDS Ingest, SequenceTheorems, FiniteSetTheorems, TLAPS
-----------------------------------------------------------------------------
(* What queues and hands are made of.                                       *)

LEMMA Removed ==
    ASSUME NEW S, NEW q \in Queue(S), q # << >>
    PROVE  Head(q) \in S /\ <<Head(q)>> \in Hand(S) /\ Tail(q) \in Queue(S)
BY IngestAssumption DEF Hand, Queue

LEMMA Appended ==
    ASSUME NEW S, NEW q \in Queue(S), HasRoom(q), NEW x \in S
    PROVE  Append(q, x) \in Queue(S)
BY IngestAssumption DEF Queue, HasRoom

LEMMA Inserted ==
    ASSUME NEW S, NEW T, NEW q \in Queue(S), HasRoom(q),
           NEW h \in Hand(T), h # << >>, h[1] \in S
    PROVE  q \o h = Append(q, h[1]) /\ q \o h \in Queue(S)
BY IngestAssumption DEF Hand, Queue, HasRoom

LEMMA InHand ==
    ASSUME NEW S, NEW h \in Hand(S), h # << >>
    PROVE  h[1] \in S /\ h = <<h[1]>> /\ Len(h) = 1
BY DEF Hand

LEMMA Empty == \A S : << >> \in Hand(S) /\ << >> \in Seq(S) /\ << >> \in Queue(S)
BY IngestAssumption DEF Hand, Queue

LEMMA OneInHand == ASSUME NEW S, NEW x \in S PROVE <<x>> \in Hand(S)
BY DEF Hand

LEMMA ItemsOfRows ==
    /\ \A f \in Files \cup {NoFile} : Row(f) \in RowItem
    /\ \A e \in LineEntry : Processed(e) \in Record
    /\ \A x \in RowItem : x.context = "ROW_DATA" /\ x.file \in Files \cup {NoFile}
    /\ \A x \in Record : x.context = "PROCESSED_DATA" /\ x.entry \in LineEntry
    /\ \A x \in RowItem \cup Record : x.context = "ROW_DATA" => x \in RowItem
    /\ \A x \in RowItem \cup Record : x.context = "PROCESSED_DATA" => x \in Record
BY DEF Row, Processed, RowItem, Record
-----------------------------------------------------------------------------
(* Type correctness.                                                        *)

LEMMA HalfLinesNat == \A f \in Files : HalfLines(f) \in Nat
BY IngestAssumption DEF HalfLines

LEMMA TypeInit == Init => TypeOK
<1> SUFFICES ASSUME Init PROVE TypeOK
  OBVIOUS
<1>1. InputTypes
  BY HalfLinesNat DEF Init, InputTypes
<1>2. WatchTypes
  <2>1. << >> \in Seq(Files) /\ 0 \in 0 .. MaxToggles /\ 0 \in 0 .. MaxStreams
    BY EmptySeq, IngestAssumption
  <2> QED
    BY <2>1 DEF Init, WatchTypes
<1>3. PipeTypes
  BY Empty DEF Init, PipeTypes
<1> QED
  BY <1>1, <1>2, <1>3 DEF TypeOK

(* What is kept by a step that leaves the variables of a part alone.        *)
LEMMA InputSame == InputTypes /\ UNCHANGED <<inputVars, pos>> => InputTypes'
BY DEF InputTypes, inputVars, HalfLines

otherVars == <<inputVars, watchVars, toggleVars, fwVars>>

LEMMA WatchSame ==
    WatchTypes /\ UNCHANGED <<watchVars, toggleVars, fwVars, crashed>> => WatchTypes'
BY DEF WatchTypes, watchVars, toggleVars, fwVars, fileVars

LEMMA FilesSame ==
    TypeOK /\ UNCHANGED <<otherVars, pos, crashed>> /\ PipeTypes' => TypeOK'
BY InputSame, WatchSame DEF TypeOK, otherVars

LEMMA PipeSame == PipeTypes /\ UNCHANGED pipeVars => PipeTypes'
BY DEF PipeTypes, pipeVars, readerVars, parserVars, aggVars, seenVars

LEMMA TypeInput ==
    ASSUME TypeOK, NEW f \in Files, CreateFile(f) \/ MoveFile(f) \/ WriteFile(f)
    PROVE  TypeOK'
<1>1. InputTypes /\ WatchTypes /\ PipeTypes
  BY DEF TypeOK
<1>2. UNCHANGED <<pipeVars, pos, toggleVars, fwVars, crashed, watching>>
  BY DEF CreateFile, MoveFile, WriteFile, watchVars, pipeVars, readerVars, parserVars
<1>3. events' \in Seq(Files)
  <2>1. events \in Seq(Files) /\ Append(events, f) \in Seq(Files)
    BY <1>1, AppendProperties DEF WatchTypes
  <2> QED
    BY <2>1 DEF CreateFile, MoveFile, WriteFile, Notify, watchVars
<1>4. WatchTypes'
  BY <1>1, <1>2, <1>3 DEF WatchTypes, toggleVars, fwVars, fileVars
<1>5. present' \subseteq Files
  BY <1>1 DEF CreateFile, MoveFile, WriteFile, InputTypes
<1>6. /\ written' \in [Files -> Nat]
      /\ \A g \in Files : written[g] <= written'[g] /\ written'[g] <= HalfLines(g)
  BY <1>1, HalfLinesNat DEF CreateFile, MoveFile, WriteFile, InputTypes
<1>7. InputTypes'
  <2>1. \A g \in Files : written[g] \in Nat /\ written'[g] \in Nat /\ pos[g] \in Nat
    BY <1>1, <1>6 DEF InputTypes
  <2>2. \A g \in Files : pos'[g] <= written'[g]
    BY <2>1, <1>1, <1>2, <1>6 DEF InputTypes
  <2> QED
    BY <1>1, <1>2, <1>5, <1>6, <2>2 DEF InputTypes, HalfLines
<1> QED
  BY <1>1, <1>2, <1>4, <1>7, PipeSame DEF TypeOK

LEMMA TypeToggles ==
    ASSUME TypeOK, FileWatcherPause \/ FileWatcherWakeUp
    PROVE  TypeOK'
<1>1. UNCHANGED <<inputVars, watchVars, fileVars, pipeVars, pos, crashed>>
  BY DEF FileWatcherPause, FileWatcherWakeUp, fwVars, pipeVars, readerVars, parserVars
<1>2. isPause' \in BOOLEAN /\ toggles' \in 0 .. MaxToggles /\ pausedReads' \in Nat
  <2>1. MaxToggles \in Nat /\ toggles \in 0 .. MaxToggles /\ pausedReads \in Nat
    BY IngestAssumption DEF TypeOK, WatchTypes
  <2>2. toggles' = toggles + 1 /\ toggles < MaxToggles /\ pausedReads' \in {0, pausedReads}
    BY DEF FileWatcherPause, FileWatcherWakeUp, fwVars
  <2>3. isPause' \in BOOLEAN
    BY DEF FileWatcherPause, FileWatcherWakeUp
  <2> QED
    BY <2>1, <2>2, <2>3
<1>3. WatchTypes'
  BY <1>1, <1>2 DEF TypeOK, WatchTypes, watchVars, fileVars
<1> QED
  BY <1>1, <1>3, InputSame, PipeSame DEF TypeOK

LEMMA TypeReports ==
    ASSUME TypeOK, OpenReport \/ OpenReportFails \/ CloseReport \/ MemoryFault
    PROVE  TypeOK'
<1>1. UNCHANGED <<inputVars, pipeVars, pos>>
  BY DEF OpenReport, OpenReportFails, CloseReport, MemoryFault, pipeVars, readerVars
<1>2. UNCHANGED <<watchVars, toggleVars, fwPc, batch, streams, pausedReads>>
  BY DEF OpenReport, OpenReportFails, CloseReport, MemoryFault, fwVars, fileVars
<1>3. reporting' \in BOOLEAN /\ crashed' \in BOOLEAN
  BY DEF OpenReport, OpenReportFails, CloseReport, MemoryFault, fwVars, fileVars,
         TypeOK, WatchTypes
<1>4. WatchTypes'
  BY <1>2, <1>3 DEF TypeOK, WatchTypes, watchVars, toggleVars
<1> QED
  BY <1>1, <1>4, InputSame, PipeSame DEF TypeOK

LEMMA TypeFileWatcher == ASSUME TypeOK, FileWatcherFunction PROVE TypeOK'
<1>1. UNCHANGED <<inputVars, toggleVars, pos, crashed>>
  BY DEF FileWatcherFunction, StartWatch, TestPause, ReadEvents, OpenFile, pipeVars, readerVars
<1>2. CASE StartWatch \/ TestPause \/ ReadEvents
  <2>1. UNCHANGED pipeVars
    BY <1>2 DEF StartWatch, TestPause, ReadEvents
  <2>2. events' \in Seq(Files) /\ batch' \in Seq(Files) /\ watching' \in BOOLEAN
    BY <1>2, Empty DEF StartWatch, TestPause, ReadEvents, TypeOK, WatchTypes, watchVars
  <2>3. fwPc' \in {"start", "test", "read", "batch"} /\ (fwPc' = "batch" <=> batch' # << >>)
    BY <1>2 DEF StartWatch, TestPause, ReadEvents, TypeOK, WatchTypes
  <2>4. pausedReads' \in Nat /\ UNCHANGED <<streams, reporting>>
    BY <1>2 DEF StartWatch, TestPause, ReadEvents, TypeOK, WatchTypes
  <2>5. WatchTypes'
    BY <1>1, <2>2, <2>3, <2>4 DEF TypeOK, WatchTypes, toggleVars
  <2> QED
    BY <1>1, <2>1, <2>5, InputSame, PipeSame DEF TypeOK
<1>3. CASE OpenFile
  <2>1. batch \in Seq(Files) /\ batch # << >>
    BY <1>3 DEF OpenFile, TypeOK, WatchTypes
  <2>2. /\ Head(batch) \in Files /\ Tail(batch) \in Seq(Files)
        /\ (Len(batch) = 1 <=> Tail(batch) = << >>)
    <3>1. /\ Head(batch) \in Files /\ Tail(batch) \in Seq(Files)
          /\ Len(Tail(batch)) = Len(batch) - 1 /\ Len(batch) \in Nat
      BY <2>1, HeadTailProperties, LenProperties
    <3>2. Tail(batch) = << >> <=> Len(Tail(batch)) = 0
      BY <3>1, EmptySeq
    <3> QED
      BY <3>1, <3>2
  <2>3. PICK file \in Opened(Head(batch)) :
            /\ dataWatcherQueue' = Append(dataWatcherQueue, Row(file))
            /\ streams' = IF file = NoFile THEN streams ELSE streams + 1
    BY <1>3 DEF OpenFile
  <2>4. dataWatcherQueue' \in Queue(RowItem)
    <3>1. Row(file) \in RowItem
      BY <2>2, ItemsOfRows DEF Opened
    <3>2. dataWatcherQueue \in Queue(RowItem) /\ HasRoom(dataWatcherQueue)
      BY <1>3 DEF OpenFile, TypeOK, PipeTypes
    <3> QED
      BY <2>3, <3>1, <3>2, Appended
  <2>5. PipeTypes'
    BY <1>3, <2>4 DEF OpenFile, TypeOK, PipeTypes, readerVars, parserVars, aggVars, seenVars
  <2>6. streams' \in 0 .. MaxStreams
    <3>1. streams \in 0 .. MaxStreams /\ MaxStreams \in Nat
      BY IngestAssumption DEF TypeOK, WatchTypes
    <3>2. file # NoFile => streams < MaxStreams
      BY <3>1 DEF Opened, StreamLeft
    <3> QED
      BY <2>3, <3>1, <3>2
  <2>7. fwPc' \in {"start", "test", "read", "batch"} /\ (fwPc' = "batch" <=> batch' # << >>)
    BY <1>3, <2>1, <2>2 DEF OpenFile, AfterBatch
  <2>8. WatchTypes'
    BY <1>1, <1>3, <2>2, <2>6, <2>7 DEF OpenFile, TypeOK, WatchTypes, watchVars, toggleVars
  <2> QED
    BY <1>1, <2>5, <2>8, InputSame DEF TypeOK
<1> QED
  BY <1>2, <1>3 DEF FileWatcherFunction

LEMMA TypeDataWatcher == ASSUME TypeOK, DataWatcherFunction PROVE TypeOK'
<1>1. UNCHANGED <<otherVars, pos, crashed>>
  BY DEF DataWatcherFunction, DataWatcherRemove, DataWatcherInsert, otherVars, readerVars
<1>2. CASE DataWatcherRemove
  <2>1. dwHand' \in Hand(RowItem) /\ dataWatcherQueue' \in Queue(RowItem)
    BY <1>2, Removed DEF DataWatcherRemove, Remove, TypeOK, PipeTypes
  <2> QED
    BY <1>1, <1>2, <2>1, FilesSame
    DEF DataWatcherRemove, TypeOK, PipeTypes, readerVars, parserVars, aggVars, seenVars
<1>3. CASE DataWatcherInsert
  <2>1. dwHand # << >> /\ dwHand \in Hand(RowItem) /\ dwHand[1] \in RowItem \cup Record
    BY <1>3, InHand DEF DataWatcherInsert, Insert, TypeOK, PipeTypes
  <2>2. dwHand' \in Hand(RowItem) /\ dataManagerQueue' \in Queue(RowItem \cup Record)
    BY <1>3, <2>1, Inserted, Empty DEF DataWatcherInsert, Insert, TypeOK, PipeTypes
  <2> QED
    BY <1>1, <1>3, <2>2, FilesSame
    DEF DataWatcherInsert, TypeOK, PipeTypes, readerVars, parserVars, aggVars, seenVars
<1> QED
  BY <1>2, <1>3 DEF DataWatcherFunction

LEMMA TypeDataManager == ASSUME TypeOK, DataManagerFunction PROVE TypeOK'
<1>1. UNCHANGED <<otherVars, pos, crashed>>
  BY DEF DataManagerFunction, DataManagerRemove, DataManagerToReader,
         DataManagerToAggregator, otherVars, readerVars, parserVars
<1>2. CASE DataManagerRemove
  <2>1. dmHand' \in Hand(RowItem \cup Record) /\ dataManagerQueue' \in Queue(RowItem \cup Record)
    BY <1>2, Removed DEF DataManagerRemove, Remove, TypeOK, PipeTypes
  <2> QED
    BY <1>1, <1>2, <2>1, FilesSame
    DEF DataManagerRemove, TypeOK, PipeTypes, readerVars, parserVars, aggVars, seenVars
<1>3. CASE DataManagerToReader
  <2>1. dmHand # << >> /\ dmHand \in Hand(RowItem \cup Record) /\ dmHand[1] \in RowItem \cup Record
    BY <1>3, InHand DEF DataManagerToReader, Insert, TypeOK, PipeTypes
  <2>2. dmHand' \in Hand(RowItem \cup Record) /\ readerQueue' \in Queue(RowItem \cup Record)
    BY <1>3, <2>1, Inserted, Empty DEF DataManagerToReader, Insert, TypeOK, PipeTypes
  <2> QED
    BY <1>1, <1>3, <2>2, FilesSame
    DEF DataManagerToReader, TypeOK, PipeTypes, readerVars, parserVars, aggVars, seenVars
<1>4. CASE DataManagerToAggregator
  <2>1. dmHand # << >> /\ dmHand \in Hand(RowItem \cup Record) /\ dmHand[1] \in Record
    BY <1>4, InHand, ItemsOfRows DEF DataManagerToAggregator, Holds, Insert, TypeOK, PipeTypes
  <2>2. dmHand' \in Hand(RowItem \cup Record) /\ aggregatorQueue' \in Queue(Record)
    BY <1>4, <2>1, Inserted, Empty DEF DataManagerToAggregator, Insert, TypeOK, PipeTypes
  <2> QED
    BY <1>1, <1>4, <2>2, FilesSame
    DEF DataManagerToAggregator, TypeOK, PipeTypes, readerVars, parserVars, aggVars, seenVars
<1> QED
  BY <1>2, <1>3, <1>4 DEF DataManagerFunction

LEMMA TypeReader == ASSUME TypeOK, ReaderFunction PROVE TypeOK'
<1> DEFINE Items == RowItem \cup Record
<1>1. UNCHANGED otherVars
  BY DEF ReaderFunction, ReaderRemove, FgetsNull, Fgets, FgetsEOF, ReaderToParser,
         ReaderToDataManager, notReader, otherVars
<1>2. CASE ReaderRemove
  <2>1. rdHand' \in Hand(Items) /\ readerQueue' \in Queue(Items)
    BY <1>2, Removed DEF ReaderRemove, Remove, TypeOK, PipeTypes
  <2>2. UNCHANGED <<pos, crashed>>
    BY <1>2 DEF ReaderRemove
  <2> QED
    BY <1>1, <1>2, <2>1, <2>2, FilesSame
    DEF ReaderRemove, TypeOK, PipeTypes, parserVars, aggVars, seenVars
<1>3. CASE FgetsNull
  <2>1. crashed' = TRUE /\ UNCHANGED <<pos, pipeVars>>
    BY <1>3 DEF FgetsNull, notReader, readerVars, parserVars, pipeVars
  <2>2. WatchTypes'
    BY <1>1, <2>1 DEF TypeOK, WatchTypes, otherVars, watchVars, toggleVars, fwVars, fileVars
  <2> QED
    BY <1>1, <2>1, <2>2, InputSame, PipeSame DEF TypeOK, otherVars
<1>4. CASE Fgets
  <2> DEFINE f == rdHand[1].file
             n == (pos[f] \div 2) + 1
             available == written[f] - pos[f]
  <2>1. f \in Files
    BY <1>4, InHand, ItemsOfRows DEF Fgets, ReadingFile, Holds, TypeOK, PipeTypes
  <2>2. /\ pos[f] \in Nat /\ written[f] \in Nat /\ written[f] <= HalfLines(f)
        /\ pos[f] % 2 = 0 /\ available > 0
        /\ pos' = [pos EXCEPT ![f] = @ + HalvesRead(available)]
    BY <1>4, <2>1 DEF Fgets, TypeOK, InputTypes
  <2>3. HalvesRead(available) \in Nat /\ pos[f] + HalvesRead(available) <= written[f]
    BY <2>2 DEF HalvesRead
  <2>4. InputTypes'
    BY <1>1, <2>1, <2>2, <2>3 DEF TypeOK, InputTypes, otherVars, inputVars, HalfLines
  <2>5. Line(f, n, Ending(f, n, available)) \in LineEntry
    BY <2>1, <2>2 DEF Line, LineEntry, Ending
  <2>6. rdLine' \in Hand(LineEntry)
    BY <1>4, <2>5, OneInHand DEF Fgets
  <2>7. PipeTypes'
    BY <1>4, <2>6 DEF Fgets, notReader, TypeOK, PipeTypes, parserVars, aggVars, seenVars
  <2>8. UNCHANGED crashed
    BY <1>4 DEF Fgets
  <2> QED
    BY <1>1, <2>4, <2>7, <2>8, WatchSame DEF TypeOK, otherVars
<1>5. CASE FgetsEOF
  <2>1. rdHand' \in Hand(Items) /\ UNCHANGED <<pos, crashed>>
    BY <1>5, Empty DEF FgetsEOF
  <2> QED
    BY <1>1, <1>5, <2>1, FilesSame
    DEF FgetsEOF, notReader, TypeOK, PipeTypes, parserVars, aggVars, seenVars
<1>6. CASE ReaderToParser
  <2>1. rdLine # << >> /\ rdLine \in Hand(LineEntry) /\ rdLine[1] \in LineEntry
    BY <1>6, InHand DEF ReaderToParser, Insert, TypeOK, PipeTypes
  <2>2. rdLine' \in Hand(LineEntry) /\ parserQueue' \in Queue(LineEntry)
    BY <1>6, <2>1, Inserted, Empty DEF ReaderToParser, Insert, TypeOK, PipeTypes
  <2>3. UNCHANGED <<pos, crashed>>
    BY <1>6 DEF ReaderToParser
  <2> QED
    BY <1>1, <1>6, <2>2, <2>3, FilesSame
    DEF ReaderToParser, notReader, TypeOK, PipeTypes, parserVars, aggVars, seenVars
<1>7. CASE ReaderToDataManager
  <2>1. rdHand # << >> /\ rdHand \in Hand(Items) /\ rdHand[1] \in Items
    BY <1>7, InHand DEF ReaderToDataManager, Insert, TypeOK, PipeTypes
  <2>2. rdHand' \in Hand(Items) /\ dataManagerQueue' \in Queue(Items)
    BY <1>7, <2>1, Inserted, Empty DEF ReaderToDataManager, Insert, TypeOK, PipeTypes
  <2>3. UNCHANGED <<pos, crashed>>
    BY <1>7 DEF ReaderToDataManager
  <2> QED
    BY <1>1, <1>7, <2>2, <2>3, FilesSame
    DEF ReaderToDataManager, TypeOK, PipeTypes, parserVars, aggVars, seenVars
<1> QED
  BY <1>2, <1>3, <1>4, <1>5, <1>6, <1>7 DEF ReaderFunction

LEMMA TypeParser == ASSUME TypeOK, ParserFunction PROVE TypeOK'
<1>1. UNCHANGED <<otherVars, pos, crashed>>
  BY DEF ParserFunction, ParserRemove, ParserInsert, otherVars, readerVars, parserVars
<1>2. CASE ParserRemove
  <2>1. paHand' \in Hand(LineEntry) /\ parserQueue' \in Queue(LineEntry)
    BY <1>2, Removed DEF ParserRemove, Remove, TypeOK, PipeTypes
  <2>2. spoiled' \in BOOLEAN
    BY <1>2 DEF ParserRemove, TypeOK, PipeTypes, Harmful, Whole
  <2> QED
    BY <1>1, <1>2, <2>1, <2>2, FilesSame
    DEF ParserRemove, TypeOK, PipeTypes, readerVars, parserVars, aggVars, seenVars
<1>3. CASE ParserInsert
  <2>1. Processed(paHand[1]) \in RowItem \cup Record
    BY <1>3, InHand, ItemsOfRows DEF ParserInsert, TypeOK, PipeTypes
  <2>2. paHand' \in Hand(LineEntry) /\ readerQueue' \in Queue(RowItem \cup Record)
    BY <1>3, <2>1, Appended, Empty DEF ParserInsert, TypeOK, PipeTypes
  <2> QED
    BY <1>1, <1>3, <2>2, FilesSame
    DEF ParserInsert, TypeOK, PipeTypes, readerVars, parserVars, aggVars, seenVars
<1> QED
  BY <1>2, <1>3 DEF ParserFunction

LEMMA TypeAggregator ==
    ASSUME TypeOK, AggregatorFunction \/ SubAggregatorFunction \/ OpAggregatorFunction
    PROVE  TypeOK'
<1>1. UNCHANGED <<otherVars, pos, crashed>>
  BY DEF AggregatorFunction, AggregatorRemove, AggregatorToSub, AggregatorToOp,
         SubAggregatorFunction, OpAggregatorFunction, notAggregator, otherVars, readerVars
<1>2. CASE AggregatorRemove
  <2>1. agHand' \in Hand(Record) /\ aggregatorQueue' \in Queue(Record)
    BY <1>2, Removed DEF AggregatorRemove, Remove, TypeOK, PipeTypes
  <2> QED
    BY <1>1, <1>2, <2>1, FilesSame
    DEF AggregatorRemove, notAggregator, TypeOK, PipeTypes, readerVars, parserVars, seenVars
<1>3. CASE AggregatorToSub
  <2>1. agHand[1].entry \in LineEntry
    BY <1>3, InHand, ItemsOfRows DEF AggregatorToSub, TypeOK, PipeTypes
  <2>2. subAggrQueue' \in Queue(LineEntry) /\ agSub' = TRUE
    BY <1>3, <2>1, Appended DEF AggregatorToSub, TypeOK, PipeTypes
  <2> QED
    BY <1>1, <1>3, <2>2, FilesSame
    DEF AggregatorToSub, notAggregator, TypeOK, PipeTypes, readerVars, parserVars, seenVars
<1>4. CASE AggregatorToOp
  <2>1. agHand[1].entry \in LineEntry
    BY <1>4, InHand, ItemsOfRows DEF AggregatorToOp, TypeOK, PipeTypes
  <2>2. opAggrQueue' \in Queue(LineEntry) /\ agHand' \in Hand(Record) /\ agSub' = FALSE
    BY <1>4, <2>1, Appended, Empty DEF AggregatorToOp, TypeOK, PipeTypes
  <2> QED
    BY <1>1, <1>4, <2>2, FilesSame
    DEF AggregatorToOp, notAggregator, TypeOK, PipeTypes, readerVars, parserVars, seenVars
<1>5. CASE SubAggregatorFunction
  <2>1. Head(subAggrQueue) \in LineEntry /\ subAggrQueue' \in Queue(LineEntry)
    BY <1>5, Removed DEF SubAggregatorFunction, TypeOK, PipeTypes
  <2>2. subSeen' \in Seq(LineEntry)
    BY <1>5, <2>1, AppendProperties DEF SubAggregatorFunction, TypeOK, PipeTypes
  <2> QED
    BY <1>1, <1>5, <2>1, <2>2, FilesSame
    DEF SubAggregatorFunction, notAggregator, TypeOK, PipeTypes, readerVars, parserVars, aggVars
<1>6. CASE OpAggregatorFunction
  <2>1. Head(opAggrQueue) \in LineEntry /\ opAggrQueue' \in Queue(LineEntry)
    BY <1>6, Removed DEF OpAggregatorFunction, TypeOK, PipeTypes
  <2>2. opSeen' \in Seq(LineEntry)
    BY <1>6, <2>1, AppendProperties DEF OpAggregatorFunction, TypeOK, PipeTypes
  <2> QED
    BY <1>1, <1>6, <2>1, <2>2, FilesSame
    DEF OpAggregatorFunction, notAggregator, TypeOK, PipeTypes, readerVars, parserVars, aggVars
<1> QED
  BY <1>2, <1>3, <1>4, <1>5, <1>6 DEF AggregatorFunction

LEMMA TypeStep == TypeOK /\ [Next]_vars => TypeOK'
<1> SUFFICES ASSUME TypeOK, [Next]_vars PROVE TypeOK'
  OBVIOUS
<1>1. CASE Environment
  BY <1>1, TypeInput, TypeToggles, TypeReports DEF Environment
<1>2. CASE FileWatcherFunction
  BY <1>2, TypeFileWatcher
<1>3. CASE Pipeline
  BY <1>3, TypeDataWatcher, TypeDataManager, TypeReader, TypeParser, TypeAggregator DEF Pipeline
<1>4. CASE CloseReport \/ MemoryFault
  BY <1>4, TypeReports
<1>5. CASE UNCHANGED vars
  BY <1>5, FilesSame, PipeSame
  DEF vars, pipeVars, otherVars, readerVars, parserVars, TypeOK
<1> QED
  BY <1>1, <1>2, <1>3, <1>4, <1>5 DEF Next

(* TypeOK: every queue and hand holds items of its kind, no queue of        *)
(* SafeQueueInsert grows beyond its length, no reader is ahead of the file  *)
(* it reads and no more streams are opened than the process may hold.       *)
THEOREM IngestTypeCorrect == Spec => []TypeOK
<1> QED
  BY TypeInit, TypeStep, PTL DEF Spec
-----------------------------------------------------------------------------
(* The steps of the threads behind the file watcher, and what the others    *)
(* leave alone.                                                             *)

LEMMA PipelineSteps ==
    Pipeline =>
        \/ DataWatcherRemove \/ DataWatcherInsert
        \/ DataManagerRemove \/ DataManagerToReader \/ DataManagerToAggregator
        \/ ReaderRemove \/ FgetsNull \/ Fgets \/ FgetsEOF
        \/ ReaderToParser \/ ReaderToDataManager
        \/ ParserRemove \/ ParserInsert
        \/ AggregatorRemove \/ AggregatorToSub \/ AggregatorToOp
        \/ SubAggregatorFunction \/ OpAggregatorFunction
BY DEF Pipeline, DataWatcherFunction, DataManagerFunction, ReaderFunction, ParserFunction,
       AggregatorFunction

LEMMA PipelineFrame == Pipeline => UNCHANGED <<inputVars, watchVars, toggleVars, fwVars>>
BY PipelineSteps
DEF DataWatcherRemove, DataWatcherInsert, DataManagerRemove, DataManagerToReader,
    DataManagerToAggregator, ReaderRemove, FgetsNull, Fgets, FgetsEOF, ReaderToParser,
    ReaderToDataManager, notReader, ParserRemove, ParserInsert,
    AggregatorRemove, AggregatorToSub, AggregatorToOp, SubAggregatorFunction,
    OpAggregatorFunction, notAggregator

LEMMA InputFrame ==
    Environment \/ StartWatch \/ TestPause \/ ReadEvents \/ CloseReport
    \/ MemoryFault \/ UNCHANGED vars
        => UNCHANGED pipeVars
BY DEF Environment, CreateFile, MoveFile, WriteFile, FileWatcherPause, FileWatcherWakeUp,
       OpenReport, OpenReportFails, CloseReport, MemoryFault, StartWatch, TestPause,
       ReadEvents, vars, pipeVars

LEMMA NextSteps ==
    [Next]_vars =>
        \/ Environment \/ StartWatch \/ TestPause \/ ReadEvents \/ CloseReport
        \/ MemoryFault \/ UNCHANGED vars
        \/ OpenFile \/ Pipeline
BY DEF Next, FileWatcherFunction

-----------------------------------------------------------------------------
(* PAUSE.  The watcher is beyond its test of isPause only before it has     *)
(* read anything since the PAUSE.                                           *)

OneReadLeft == isPause => pausedReads + (IF fwPc = "read" THEN 1 ELSE 0) <= 1

LEMMA OneReadLeftStep == TypeOK /\ OneReadLeft /\ [Next]_vars => OneReadLeft'
<1> SUFFICES ASSUME TypeOK, OneReadLeft, [Next]_vars PROVE OneReadLeft'
  OBVIOUS
<1>1. pausedReads \in Nat
  BY DEF TypeOK, WatchTypes
<1>2. CASE UNCHANGED <<isPause, fwVars>>
  BY <1>2 DEF OneReadLeft, fwVars, fileVars
<1>3. CASE FileWatcherPause \/ FileWatcherWakeUp
  BY <1>1, <1>3 DEF FileWatcherPause, FileWatcherWakeUp, OneReadLeft, fwVars, fileVars
<1>4. CASE OpenReport \/ CloseReport
  BY <1>1, <1>4 DEF OpenReport, CloseReport, OneReadLeft, toggleVars
<1>5. CASE StartWatch \/ TestPause \/ OpenFile
  BY <1>1, <1>5 DEF StartWatch, TestPause, OpenFile, AfterBatch, OneReadLeft, toggleVars
<1>6. CASE ReadEvents
  BY <1>1, <1>6 DEF ReadEvents, OneReadLeft, toggleVars
<1>7. \/ FileWatcherPause \/ FileWatcherWakeUp \/ OpenReport \/ CloseReport
      \/ StartWatch \/ TestPause \/ OpenFile \/ ReadEvents
      \/ UNCHANGED <<isPause, fwVars>>
  <2>1. CASE \E f \in Files : CreateFile(f) \/ MoveFile(f) \/ WriteFile(f)
    BY <2>1 DEF CreateFile, MoveFile, WriteFile, toggleVars
  <2>2. CASE Pipeline
    BY <2>2, PipelineFrame DEF toggleVars
  <2>3. CASE OpenReportFails \/ MemoryFault \/ UNCHANGED vars
    BY <2>3 DEF OpenReportFails, MemoryFault, vars, toggleVars
  <2> QED
    BY <2>1, <2>2, <2>3 DEF Next, Environment, FileWatcherFunction
<1> QED
  BY <1>2, <1>3, <1>4, <1>5, <1>6, <1>7

(* PauseAdmitsOneRead: after PAUSE the file watcher reads events at most    *)
(* once more, whatever is written, asked for or paused meanwhile.           *)
THEOREM PauseAdmitsOneReadAlways == Spec => []PauseAdmitsOneRead
<1>1. Init => OneReadLeft
  BY DEF Init, OneReadLeft
<1>2. TypeOK /\ OneReadLeft => PauseAdmitsOneRead
  BY DEF TypeOK, WatchTypes, OneReadLeft, PauseAdmitsOneRead
<1> QED
  BY <1>1, <1>2, IngestTypeCorrect, OneReadLeftStep, PTL DEF Spec
-----------------------------------------------------------------------------
(* A reader with a line in its hand has the line's file in its hand too, so *)
(* that it takes nothing out of readerQueue.                                *)

LineOfFile == rdLine # << >> => Holds(rdHand, "ROW_DATA")

LEMMA LineOfFileStep == LineOfFile /\ [Next]_vars => LineOfFile'
<1> SUFFICES ASSUME LineOfFile, [Next]_vars PROVE LineOfFile'
  OBVIOUS
<1>1. CASE ReaderRemove \/ Fgets \/ FgetsEOF \/ ReaderToParser \/ ReaderToDataManager
  BY <1>1 DEF ReaderRemove, Remove, Fgets, FgetsEOF, ReadingFile, ReaderToParser,
     ReaderToDataManager, ReturnsRecord, Insert, Holds, LineOfFile
<1>2. CASE UNCHANGED <<rdHand, rdLine>>
  BY <1>2 DEF LineOfFile, Holds
<1>3. \/ ReaderRemove \/ Fgets \/ FgetsEOF \/ ReaderToParser \/ ReaderToDataManager
      \/ UNCHANGED <<rdHand, rdLine>>
  <2>1. CASE Pipeline
    BY <2>1, PipelineSteps
    DEF DataWatcherRemove, DataWatcherInsert, DataManagerRemove, DataManagerToReader,
        DataManagerToAggregator, FgetsNull, ParserRemove, ParserInsert,
        AggregatorRemove, AggregatorToSub, AggregatorToOp, SubAggregatorFunction,
        OpAggregatorFunction, notAggregator, readerVars, parserVars, pipeVars
  <2>2. CASE OpenFile
    BY <2>2 DEF OpenFile, readerVars, parserVars
  <2> QED
    BY <2>1, <2>2, NextSteps, InputFrame DEF pipeVars, readerVars, parserVars
<1> QED
  BY <1>1, <1>2, <1>3

(* What can move one of the two waiting threads: room in its queue.         *)
LEMMA WedgedStep == TypeOK /\ LineOfFile /\ [Next]_vars => (Wedged => Wedged')
<1> SUFFICES ASSUME TypeOK, LineOfFile, [Next]_vars, Wedged PROVE Wedged'
  OBVIOUS
<1>1. CASE WaitsFor(rdLine, parserQueue) /\ WaitsFor(paHand, readerQueue)
  <2>1. rdHand # << >> /\ rdLine # << >> /\ paHand # << >>
    BY <1>1 DEF WaitsFor, LineOfFile, Holds
  <2>2. UNCHANGED <<rdLine, parserQueue, paHand, readerQueue>>
    <3>1. CASE Pipeline
      BY <1>1, <2>1, <3>1, PipelineSteps
      DEF DataWatcherRemove, DataWatcherInsert, DataManagerRemove, DataManagerToReader,
          DataManagerToAggregator, ReaderRemove, FgetsNull, Fgets, FgetsEOF, ReadingFile,
          ReaderToParser, ReaderToDataManager, notReader, ParserRemove, ParserInsert,
          AggregatorRemove, AggregatorToSub, AggregatorToOp,
          SubAggregatorFunction, OpAggregatorFunction, notAggregator, readerVars, parserVars,
          pipeVars, Remove, Insert, WaitsFor
    <3>2. CASE OpenFile
      BY <3>2 DEF OpenFile, readerVars, parserVars
    <3> QED
      BY <3>1, <3>2, NextSteps, InputFrame DEF pipeVars, readerVars, parserVars
  <2> QED
    BY <1>1, <2>2 DEF Wedged, WaitsFor, HasRoom
<1>2. CASE /\ ReturnsRecord /\ WaitsFor(rdHand, dataManagerQueue)
           /\ Holds(dmHand, "ROW_DATA") /\ WaitsFor(dmHand, readerQueue)
  <2>1. UNCHANGED <<rdHand, dataManagerQueue, dmHand, readerQueue>>
    <3>1. CASE Pipeline
      BY <1>2, <3>1, PipelineSteps
      DEF DataWatcherRemove, DataWatcherInsert, DataManagerRemove, DataManagerToReader,
          DataManagerToAggregator, ReaderRemove, FgetsNull, Fgets, FgetsEOF, ReadingFile,
          ReaderToParser, ReaderToDataManager, notReader, ParserRemove, ParserInsert,
          AggregatorRemove, AggregatorToSub, AggregatorToOp,
          SubAggregatorFunction, OpAggregatorFunction, notAggregator, readerVars, parserVars,
          pipeVars, Remove, Insert, WaitsFor, ReturnsRecord, Holds
    <3>2. CASE OpenFile
      BY <3>2 DEF OpenFile, readerVars, parserVars
    <3> QED
      BY <3>1, <3>2, NextSteps, InputFrame DEF pipeVars, readerVars, parserVars
  <2> QED
    BY <1>2, <2>1 DEF Wedged, WaitsFor, HasRoom, ReturnsRecord, Holds
<1> QED
  BY <1>1, <1>2 DEF Wedged

(* WedgedForever: reader and parser over a file, or reader and data manager *)
(* over a record, once they wait for each other, do so for ever.            *)
THEOREM WedgedStaysWedged == Spec => WedgedForever
<1>1. Init => LineOfFile
  BY DEF Init, LineOfFile
<1> QED
  BY <1>1, IngestTypeCorrect, LineOfFileStep, WedgedStep, PTL DEF Spec, WedgedForever
-----------------------------------------------------------------------------
(* Who can wait for whom.                                                   *)

LEMMA Full ==
    ASSUME NEW S, NEW q \in Queue(S), ~HasRoom(q)
    PROVE  Len(q) = QueueCap /\ q # << >>
BY IngestAssumption DEF Queue, HasRoom

LEMMA Lengths ==
    ASSUME TypeOK
    PROVE  /\ Len(dataManagerQueue) \in Nat /\ Len(readerQueue) \in Nat
           /\ Len(parserQueue) \in Nat
           /\ Len(dmHand) \in Nat /\ Len(rdHand) \in Nat
           /\ Len(rdLine) \in Nat /\ Len(paHand) \in Nat
           /\ Len(dataWatcherQueue) \in Nat /\ Len(dwHand) \in Nat
BY DEF TypeOK, PipeTypes, Queue, Hand

(* The two aggregators take what they are given, so the aggregator does not *)
(* wait, nor does the data manager with a record.                           *)
LEMMA NobodyWaitsForAggregators ==
    ASSUME TypeOK, AllWait
    PROVE  /\ Idle(agHand, aggregatorQueue)
           /\ ~WaitsFor(dmHand, aggregatorQueue)
<1>1. QueueCap > 0 /\ Len(subAggrQueue) = 0 /\ Len(opAggrQueue) = 0
  BY IngestAssumption DEF AllWait
<1>2. HasRoom(subAggrQueue) /\ HasRoom(opAggrQueue)
  BY <1>1 DEF HasRoom
<1>3. Idle(agHand, aggregatorQueue)
  BY <1>2 DEF AllWait, WaitsFor
<1>4. HasRoom(aggregatorQueue)
  BY <1>1, <1>3 DEF Idle, HasRoom
<1> QED
  BY <1>3, <1>4 DEF WaitsFor

(* When all wait and there is work, two of the cycle wait for each other:   *)
(* the reader is one of them, the parser or the data manager the other.     *)
LEMMA WaitersAreWedged ==
    ASSUME TypeOK, AllWait, Busy
    PROVE  Wedged /\ InCycle >= 2 * QueueCap + 2
<1>1. /\ dataManagerQueue \in Queue(RowItem \cup Record)
      /\ readerQueue \in Queue(RowItem \cup Record) /\ parserQueue \in Queue(LineEntry)
      /\ dmHand \in Hand(RowItem \cup Record) /\ rdHand \in Hand(RowItem \cup Record)
      /\ rdLine \in Hand(LineEntry) /\ paHand \in Hand(LineEntry)
  BY DEF TypeOK, PipeTypes
<1>2. QueueCap \in Nat \ {0}
  BY IngestAssumption
<1>3. CASE WaitsFor(rdLine, parserQueue)
  <2>1. Len(parserQueue) = QueueCap /\ parserQueue # << >>
    BY <1>1, <1>3, Full DEF WaitsFor
  <2>2. WaitsFor(paHand, readerQueue)
    BY <2>1 DEF AllWait, Idle
  <2>3. Len(readerQueue) = QueueCap
    BY <1>1, <2>2, Full DEF WaitsFor
  <2>4. Len(rdLine) = 1 /\ Len(paHand) = 1
    BY <1>1, <1>3, <2>2, InHand DEF WaitsFor
  <2>5. InCycle >= 2 * QueueCap + 2
    BY <1>2, <2>1, <2>3, <2>4, Lengths DEF InCycle
  <2> QED
    BY <1>3, <2>2, <2>5 DEF Wedged
<1>4. CASE ReturnsRecord /\ WaitsFor(rdHand, dataManagerQueue)
  <2>1. Len(dataManagerQueue) = QueueCap /\ dataManagerQueue # << >>
    BY <1>1, <1>4, Full DEF WaitsFor
  <2>2. Holds(dmHand, "ROW_DATA") /\ WaitsFor(dmHand, readerQueue)
    BY <2>1, NobodyWaitsForAggregators DEF AllWait, Idle
  <2>3. Len(readerQueue) = QueueCap
    BY <1>1, <2>2, Full DEF WaitsFor
  <2>4. Len(rdHand) = 1 /\ Len(dmHand) = 1
    BY <1>1, <1>4, <2>2, InHand DEF WaitsFor
  <2>5. InCycle >= 2 * QueueCap + 2
    BY <1>2, <2>1, <2>3, <2>4, Lengths DEF InCycle
  <2> QED
    BY <1>4, <2>2, <2>5 DEF Wedged
<1>5. CASE Idle(rdHand, readerQueue) /\ rdLine = << >>
  <2>1. HasRoom(readerQueue)
    BY <1>2, <1>5 DEF Idle, HasRoom
  <2>2. Idle(paHand, parserQueue) /\ Idle(dmHand, dataManagerQueue)
    BY <2>1, NobodyWaitsForAggregators DEF AllWait, WaitsFor
  <2>3. HasRoom(dataManagerQueue)
    BY <1>2, <2>2 DEF Idle, HasRoom
  <2>4. Idle(dwHand, dataWatcherQueue)
    BY <2>3 DEF AllWait, WaitsFor
  <2>5. Idle(agHand, aggregatorQueue) /\ subAggrQueue = << >> /\ opAggrQueue = << >>
    BY NobodyWaitsForAggregators DEF AllWait
  <2>6. Len(<< >>) = 0
    BY Empty
  <2>7. ~Busy
    BY <1>5, <2>2, <2>4, <2>5, <2>6 DEF Idle, Busy, InCycle
  <2> QED
    BY <2>7
<1> QED
  BY <1>3, <1>4, <1>5 DEF AllWait

(* Whatever the files and however long the queues: the threads of the       *)
(* pipeline all wait with work left only when two of them wait for each     *)
(* other over two full queues, with 2 * QueueCap + 2 items in the cycle.    *)
THEOREM WaitingNeedsLoad ==
    Spec => [](AllWait /\ Busy => Wedged /\ InCycle >= 2 * QueueCap + 2)
<1>1. TypeOK => (AllWait /\ Busy => Wedged /\ InCycle >= 2 * QueueCap + 2)
  BY WaitersAreWedged
<1> QED
  BY <1>1, IngestTypeCorrect, PTL
-----------------------------------------------------------------------------
(* Where a thread of the pipeline can go on: the guards of the actions of   *)
(* Pipeline, thread by thread.                                              *)

CanRemove(queue, hand) == queue # << >> /\ hand = << >>
CanInsert(hand, queue) == hand # << >> /\ HasRoom(queue)

DataWatcherReady == \/ CanRemove(dataWatcherQueue, dwHand)
                    \/ CanInsert(dwHand, dataManagerQueue)

DataManagerReady ==
    \/ CanRemove(dataManagerQueue, dmHand)
    \/ Holds(dmHand, "ROW_DATA") /\ CanInsert(dmHand, readerQueue)
    \/ Holds(dmHand, "PROCESSED_DATA") /\ CanInsert(dmHand, aggregatorQueue)

CanRead(f) == written[f] - pos[f] > 0 /\ pos[f] % 2 = 0
AtEOF(f)   == pos[f] % 2 = 1 \/ written[f] = pos[f]

ReaderReady ==
    \/ CanRemove(readerQueue, rdHand)
    \/ NullAtHand
    \/ /\ ReadingFile /\ rdHand[1].file # NoFile
       /\ CanRead(rdHand[1].file) \/ AtEOF(rdHand[1].file)
    \/ CanInsert(rdLine, parserQueue)
    \/ ReturnsRecord /\ CanInsert(rdHand, dataManagerQueue)

ParserReady == \/ CanRemove(parserQueue, paHand)
               \/ CanInsert(paHand, readerQueue)

AggregatorsReady ==
    \/ CanRemove(aggregatorQueue, agHand)
    \/ CanInsert(agHand, IF agSub THEN opAggrQueue ELSE subAggrQueue)
    \/ subAggrQueue # << >> \/ opAggrQueue # << >>

Ready == DataWatcherReady \/ DataManagerReady \/ ReaderReady \/ ParserReady \/ AggregatorsReady

(* No action of the pipeline has a weaker guard than the one named here.    *)
LEMMA OnlyTheReadyGoOn == Pipeline => Ready /\ ~crashed
<1> USE DEF Ready, CanRemove, CanInsert, Remove, Insert
<1>1. CASE DataWatcherFunction
  BY <1>1 DEF DataWatcherFunction, DataWatcherRemove, DataWatcherInsert, DataWatcherReady
<1>2. CASE DataManagerFunction
  BY <1>2 DEF DataManagerFunction, DataManagerRemove, DataManagerToReader,
              DataManagerToAggregator, DataManagerReady
<1>3. CASE ReaderFunction
  BY <1>3 DEF ReaderFunction, ReaderRemove, FgetsNull, Fgets, FgetsEOF, ReaderToParser,
              ReaderToDataManager, ReaderReady, CanRead, AtEOF
<1>4. CASE ParserFunction
  BY <1>4 DEF ParserFunction, ParserRemove, ParserInsert, ParserReady
<1>5. CASE AggregatorFunction \/ SubAggregatorFunction \/ OpAggregatorFunction
  BY <1>5 DEF AggregatorFunction, AggregatorRemove, AggregatorToSub, AggregatorToOp,
              SubAggregatorFunction, OpAggregatorFunction, AggregatorsReady
<1> QED
  BY <1>1, <1>2, <1>3, <1>4, <1>5 DEF Pipeline

(* What a hand holds is a file or a record.                                 *)
LEMMA EitherKind ==
    ASSUME NEW hand \in Hand(RowItem \cup Record)
    PROVE  hand = << >> \/ Holds(hand, "ROW_DATA") \/ Holds(hand, "PROCESSED_DATA")
<1> SUFFICES ASSUME hand # << >>
             PROVE  Holds(hand, "ROW_DATA") \/ Holds(hand, "PROCESSED_DATA")
  OBVIOUS
<1>1. hand[1] \in RowItem \cup Record
  BY InHand
<1> QED
  BY <1>1 DEF RowItem, Record, Holds

(* A reader with a file in its hand can always read on or be done with it:  *)
(* it never reads past what is written.                                     *)
LEMMA ReadersGoOn == ASSUME TypeOK, ReadingFile PROVE ReaderReady
<1>1. CASE rdHand[1].file = NoFile
  BY <1>1 DEF ReaderReady, NullAtHand
<1>2. CASE rdHand[1].file # NoFile
  <2> DEFINE f == rdHand[1].file
  <2>1. rdHand \in Hand(RowItem \cup Record) /\ Holds(rdHand, "ROW_DATA")
    BY DEF TypeOK, PipeTypes, ReadingFile
  <2>2. rdHand[1] \in RowItem \cup Record /\ rdHand[1].context = "ROW_DATA"
    BY <2>1, InHand DEF Holds
  <2>3. f \in Files
    BY <1>2, <2>2 DEF RowItem, Record
  <2>4. pos[f] \in Nat /\ written[f] \in Nat /\ pos[f] <= written[f]
    BY <2>3 DEF TypeOK, InputTypes
  <2>5. CanRead(f) \/ AtEOF(f)
    BY <2>4 DEF CanRead, AtEOF
  <2> QED
    BY <1>2, <2>5 DEF ReaderReady
<1> QED
  BY <1>1, <1>2

(* Who is not ready waits at a queue, one thread after the other.           *)
LEMMA TheOthersWait == ASSUME TypeOK, ~Ready PROVE AllWait
<1> USE DEF CanRemove, CanInsert, Idle, WaitsFor
<1>1. Idle(dwHand, dataWatcherQueue) \/ WaitsFor(dwHand, dataManagerQueue)
  BY DEF Ready, DataWatcherReady
<1>2. \/ Idle(dmHand, dataManagerQueue)
      \/ Holds(dmHand, "ROW_DATA") /\ WaitsFor(dmHand, readerQueue)
      \/ Holds(dmHand, "PROCESSED_DATA") /\ WaitsFor(dmHand, aggregatorQueue)
  <2>1. dmHand = << >> \/ Holds(dmHand, "ROW_DATA") \/ Holds(dmHand, "PROCESSED_DATA")
    BY EitherKind DEF TypeOK, PipeTypes
  <2> QED
    BY <2>1 DEF Ready, DataManagerReady
<1>3. \/ Idle(rdHand, readerQueue) /\ rdLine = << >>
      \/ WaitsFor(rdLine, parserQueue)
      \/ ReturnsRecord /\ WaitsFor(rdHand, dataManagerQueue)
  <2>1. rdHand = << >> \/ Holds(rdHand, "ROW_DATA") \/ ReturnsRecord
    BY EitherKind DEF TypeOK, PipeTypes, ReturnsRecord
  <2>2. ~ReaderReady /\ ~ReadingFile
    BY ReadersGoOn DEF Ready
  <2>3. rdHand # << >> \/ readerQueue = << >>
    BY <2>2 DEF ReaderReady
  <2>4. rdLine # << >> => WaitsFor(rdLine, parserQueue)
    BY <2>2 DEF ReaderReady
  <2>5. ReturnsRecord => WaitsFor(rdHand, dataManagerQueue)
    BY <2>2 DEF ReaderReady, ReturnsRecord, Holds
  <2> QED
    BY <2>1, <2>2, <2>3, <2>4, <2>5 DEF ReadingFile
<1>4. Idle(paHand, parserQueue) \/ WaitsFor(paHand, readerQueue)
  BY DEF Ready, ParserReady
<1>5. /\ \/ Idle(agHand, aggregatorQueue)
         \/ WaitsFor(agHand, IF agSub THEN opAggrQueue ELSE subAggrQueue)
      /\ subAggrQueue = << >> /\ opAggrQueue = << >>
  BY DEF Ready, AggregatorsReady
<1> QED
  BY <1>1, <1>2, <1>3, <1>4, <1>5 DEF AllWait

(* Whatever the files, whatever is written to them meanwhile and however    *)
(* long the queues: when no thread of the pipeline can go on and there is   *)
(* work left, each waits at a queue, and two of them wait for each other    *)
(* over two full queues, with 2 * QueueCap + 2 items in the cycle.  This is *)
(* StuckOnlyUnderLoad with Ready for ENABLED Pipeline.                      *)
THEOREM StopsOnlyAtQueues ==
    Spec => [](Busy /\ ~Ready => AllWait /\ Wedged /\ InCycle >= 2 * QueueCap + 2)
<1>1. TypeOK => (Busy /\ ~Ready => AllWait /\ Wedged /\ InCycle >= 2 * QueueCap + 2)
  BY TheOthersWait, WaitersAreWedged
<1> QED
  BY <1>1, IngestTypeCorrect, PTL
=============================================================================
