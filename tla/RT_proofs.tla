----------------------------- MODULE RT_proofs ------------------------------
(***************************************************************************)
(* The whole RT process implements the command path that CommandPath       *)
(* models by itself: what the ingest threads and the report writer do is a *)
(* stutter for it, or the end of RT.  Between its starts and its ends it   *)
(* is Ingest as well, to which commands are PAUSE and RESUME at any time.  *)
(* What is proved of the two therefore holds in the process as a whole, in *)
(* each of its lives, and so does what its lives are to one another.       *)
(***************************************************************************)
EXTENDS RT, PacedUser_proofs, FiniteSetTheorems

(* The ingest threads read the flag, and never set it.                      *)

LEMMA WatchersKeepFlag ==
    ASSUME I!FileWatcherFunction \/ I!DataWatcherFunction \/ I!DataManagerFunction
    PROVE  isPause' = isPause
<1>1. CASE I!FileWatcherFunction
    BY <1>1 DEF I!FileWatcherFunction, I!StartWatch, I!TestPause, I!ReadEvents, I!OpenFile,
                I!toggleVars
<1>2. CASE I!DataWatcherFunction
    BY <1>2 DEF I!DataWatcherFunction, I!DataWatcherRemove, I!DataWatcherInsert, I!toggleVars
<1>3. CASE I!DataManagerFunction
    BY <1>3 DEF I!DataManagerFunction, I!DataManagerRemove, I!DataManagerToReader,
                I!DataManagerToAggregator, I!toggleVars
<1>4. QED BY <1>1, <1>2, <1>3

LEMMA ReadersKeepFlag ==
    ASSUME I!ReaderFunction \/ I!ParserFunction
    PROVE  isPause' = isPause
<1>1. CASE I!ReaderFunction
    BY <1>1 DEF I!ReaderFunction, I!ReaderRemove, I!FgetsNull, I!Fgets, I!FgetsEOF,
                I!ReaderToParser, I!ReaderToDataManager, I!notReader, I!toggleVars
<1>2. CASE I!ParserFunction
    BY <1>2 DEF I!ParserFunction, I!ParserRemove, I!ParserInsert, I!toggleVars
<1>3. QED BY <1>1, <1>2

LEMMA AggregatorsKeepFlag ==
    ASSUME I!AggregatorFunction \/ I!SubAggregatorFunction \/ I!OpAggregatorFunction
    PROVE  isPause' = isPause
BY DEF I!AggregatorFunction, I!AggregatorRemove, I!AggregatorToSub, I!AggregatorToOp,
       I!SubAggregatorFunction, I!OpAggregatorFunction, I!notAggregator, I!toggleVars

LEMMA OthersKeepFlag ==
    ASSUME \/ \E f \in Files : I!CreateFile(f) \/ I!MoveFile(f) \/ I!WriteFile(f)
           \/ I!OpenReport \/ I!CloseReport
    PROVE  isPause' = isPause
BY DEF I!CreateFile, I!MoveFile, I!WriteFile, I!OpenReport, I!CloseReport, I!toggleVars

LEMMA StutterOfCommandPath ==
    ASSUME UNCHANGED notIngest, isPause' = isPause
    PROVE  UNCHANGED vars
BY DEF notIngest, vars, uiVars, rtVars, dispVars, reportPath, watcherVars

(* Every step of the process is a step of the command path or a stutter.    *)
LEMMA StepRefines ==
    ASSUME [RTNext]_rtvars
    PROVE  [Next]_vars
<1>1. CASE UNCHANGED rtvars
    BY <1>1 DEF rtvars
<1>2. CASE User \/ Start \/ End \/ Dispatcher
    BY <1>2 DEF User, Start, End, Dispatcher, SetFlag, Next, Environment, Threads, GetMsg
<1>3. CASE Fault
    BY <1>3 DEF Fault, ReaderFault, FaultOver, RTKilled, Next, Environment
<1>4. CASE SubReport \/ OpReport \/ PauseThreads
    BY <1>4 DEF SubReport, OpReport, ReportThread, PauseThreads, Next, Environment, Threads
<1>5. CASE \/ RequestThread(AggregatorRepFunction)
           \/ RequestThread(SubAggregatorRepTake) \/ RequestThread(OpAggregatorRepTake)
    BY <1>5 DEF RequestThread, Next, Threads
<1>6. CASE Input \/ ReportWriter
    BY <1>6, OthersKeepFlag, StutterOfCommandPath DEF Input, ReportWriter
<1>7. CASE FileWatcher \/ DataWatcher \/ DataManager
    BY <1>7, WatchersKeepFlag, StutterOfCommandPath DEF FileWatcher, DataWatcher, DataManager
<1>8. CASE Reader \/ Parser
    BY <1>8, ReadersKeepFlag, StutterOfCommandPath DEF Reader, Parser
<1>9. CASE Aggregator \/ SubAggregator \/ OpAggregator
    BY <1>9, AggregatorsKeepFlag, StutterOfCommandPath
    DEF Aggregator, SubAggregator, OpAggregator
<1>10. QED
    BY <1>1, <1>2, <1>3, <1>4, <1>5, <1>6, <1>7, <1>8, <1>9 DEF RTNext

(* The process as a whole, with files coming in, reports printed and faults *)
(* of the ingest threads, is the command path of CommandPath to a user.     *)
THEOREM WholeImplementsCommandPath == RTSpec => Spec
<1>1. RTInit => Init
    BY DEF RTInit
<1>2. [RTNext]_rtvars => [Next]_vars
    BY StepRefines
<1>3. QED
    BY <1>1, <1>2, PTL DEF RTSpec, Spec

(* So files, faults and prints cannot make a report thread act on a command *)
(* older than its pointer, or answer a command twice.                       *)
THEOREM WholeReadsNeverOlder == RTSpec => [](ReadsNeverOlder /\ AtMostOneReport)
BY WholeImplementsCommandPath, ReportsNeverOlder, OneReportPerCommand, PTL
-----------------------------------------------------------------------------
(* A PAUSE that is dealt with.  The file watcher's first read after the     *)
(* flag was set takes it out of reach of the next one.                      *)

ReadInv == isPause => \/ pausedReads = 0
                      \/ pausedReads = 1 /\ watcherPc # "read"

LEMMA ReadSame == ASSUME ReadInv, UNCHANGED <<isPause, pausedReads, watcherPc>> PROVE ReadInv'
BY DEF ReadInv

LEMMA ReadFileWatcher == ASSUME ReadInv, I!FileWatcherFunction PROVE ReadInv'
<1>1. CASE I!StartWatch \/ I!TestPause
    BY <1>1 DEF I!StartWatch, I!TestPause, I!toggleVars, ReadInv
<1>2. CASE I!ReadEvents
    BY <1>2 DEF I!ReadEvents, I!toggleVars, ReadInv
<1>3. CASE I!OpenFile
    BY <1>3 DEF I!OpenFile, I!AfterBatch, I!toggleVars, ReadInv
<1>4. QED BY <1>1, <1>2, <1>3 DEF I!FileWatcherFunction

LEMMA OthersKeepReads ==
    ASSUME \/ I!DataWatcherFunction \/ I!DataManagerFunction \/ I!ReaderFunction
           \/ I!ParserFunction \/ I!AggregatorFunction \/ I!SubAggregatorFunction
           \/ I!OpAggregatorFunction \/ I!OpenReport \/ I!CloseReport
           \/ \E f \in Files : I!CreateFile(f) \/ I!MoveFile(f) \/ I!WriteFile(f)
    PROVE  UNCHANGED <<isPause, pausedReads, watcherPc>>
<1> USE DEF I!toggleVars, I!fwVars, I!fileVars
<1>1. CASE I!DataWatcherFunction
    BY <1>1 DEF I!DataWatcherFunction, I!DataWatcherRemove, I!DataWatcherInsert
<1>2. CASE I!DataManagerFunction
    BY <1>2 DEF I!DataManagerFunction, I!DataManagerRemove, I!DataManagerToReader,
                I!DataManagerToAggregator
<1>3. CASE I!ReaderFunction
    BY <1>3 DEF I!ReaderFunction, I!ReaderRemove, I!FgetsNull, I!Fgets, I!FgetsEOF,
                I!ReaderToParser, I!ReaderToDataManager, I!notReader
<1>4. CASE I!ParserFunction
    BY <1>4 DEF I!ParserFunction, I!ParserRemove, I!ParserInsert
<1>5. CASE I!AggregatorFunction \/ I!SubAggregatorFunction \/ I!OpAggregatorFunction
    BY <1>5 DEF I!AggregatorFunction, I!AggregatorRemove, I!AggregatorToSub, I!AggregatorToOp,
                I!SubAggregatorFunction, I!OpAggregatorFunction, I!notAggregator
<1>6. CASE \/ I!OpenReport \/ I!CloseReport
           \/ \E f \in Files : I!CreateFile(f) \/ I!MoveFile(f) \/ I!WriteFile(f)
    BY <1>6 DEF I!OpenReport, I!CloseReport, I!CreateFile, I!MoveFile, I!WriteFile
<1>7. QED BY <1>1, <1>2, <1>3, <1>4, <1>5, <1>6

LEMMA ReadSetFlag == ASSUME ReadInv, SetFlag PROVE ReadInv'
<1>1. CASE UNCHANGED ingestVars /\ isPause' = isPause
    BY <1>1 DEF ingestVars, memory, ReadInv
<1>2. CASE I!FileWatcherPause
    BY <1>2 DEF I!FileWatcherPause, ReadInv
<1>3. CASE I!FileWatcherWakeUp
    BY <1>3 DEF I!FileWatcherWakeUp, ReadInv
<1>4. QED BY <1>1, <1>2, <1>3 DEF SetFlag

(* The command path sets the flag in SetFlag alone. *)
LEMMA CommandPathKeepsFlag ==
    ASSUME \/ User \/ Start \/ SubReport \/ OpReport \/ PauseThreads
           \/ Dispatcher /\ ~SetFlag
           \/ RequestThread(AggregatorRepFunction)
           \/ RequestThread(SubAggregatorRepTake) \/ RequestThread(OpAggregatorRepTake)
    PROVE  UNCHANGED <<isPause, memory, disk>>
<1> USE DEF ingestVars, dispVars
<1>1. CASE User \/ Start
    BY <1>1 DEF User, Start, UserInterfaceCreate, GetCommand, DispatcherCreate
<1>2. CASE SubReport \/ OpReport
    BY <1>2 DEF SubReport, OpReport, ReportThread, SubAggregatorRepSwitch, OpAggregatorRepSwitch
<1>3. CASE PauseThreads
    BY <1>3 DEF PauseThreads, DataWatcherCommandTake, DataWatcherCommandLock,
                FileWatcherForpauseTake, FileWatcherForpauseCheck, SpuriousWakeup
<1>4. CASE Dispatcher /\ ~SetFlag
    BY <1>4 DEF Dispatcher, GetMsgReceive, GetMsgReport, GetMsgToDataWatcher,
                GetMsgToFileWatcher, GetMsgIgnore
<1>5. CASE \/ RequestThread(AggregatorRepFunction)
           \/ RequestThread(SubAggregatorRepTake) \/ RequestThread(OpAggregatorRepTake)
    BY <1>5 DEF RequestThread, AggregatorRepFunction, SubAggregatorRepTake, OpAggregatorRepTake
<1>6. QED BY <1>1, <1>2, <1>3, <1>4, <1>5

LEMMA LifeEnds == ASSUME End \/ Fault PROVE isPause' = FALSE /\ MemoryGone
BY DEF End, Fault, ReaderFault, FaultOver, RTKilled, OpAggregatorRepOverrun, EndRT

LEMMA ReadStep == ReadInv /\ [RTNext]_rtvars => ReadInv'
<1> SUFFICES ASSUME ReadInv, [RTNext]_rtvars PROVE ReadInv'
    OBVIOUS
<1>1. CASE UNCHANGED rtvars
    BY <1>1, ReadSame DEF rtvars, vars, dispVars, ingestVars, memory
<1>2. CASE \/ User \/ Start \/ SubReport \/ OpReport \/ PauseThreads
           \/ Dispatcher /\ ~SetFlag
           \/ RequestThread(AggregatorRepFunction)
           \/ RequestThread(SubAggregatorRepTake) \/ RequestThread(OpAggregatorRepTake)
    BY <1>2, CommandPathKeepsFlag, ReadSame DEF memory
<1>3. CASE SetFlag
    BY <1>3, ReadSetFlag
<1>4. CASE End \/ Fault
    BY <1>4, LifeEnds DEF ReadInv
<1>5. CASE FileWatcher
    BY <1>5, ReadFileWatcher DEF FileWatcher
<1>6. CASE \/ Input \/ DataWatcher \/ DataManager \/ Reader \/ Parser \/ Aggregator
           \/ SubAggregator \/ OpAggregator \/ ReportWriter
    BY <1>6, OthersKeepReads, ReadSame
    DEF Input, DataWatcher, DataManager, Reader, Parser, Aggregator, SubAggregator,
        OpAggregator, ReportWriter
<1>7. QED BY <1>1, <1>2, <1>3, <1>4, <1>5, <1>6 DEF RTNext

(* A PAUSE that has been dealt with is in force, for any user: the flag is  *)
(* what the dispatcher last set, and the file watcher has read at most once *)
(* since, whatever the threads that misread msg have done.                  *)
THEOREM SettledPauseHoldsAlways == RTSpec => []SettledPauseHolds
<1>1. RTInit => ReadInv
    BY DEF RTInit, Init, ReadInv
<1>2. IInv /\ FlagInv /\ ReadInv => SettledPauseHolds
  <2> SUFFICES ASSUME IInv, FlagInv, ReadInv, Settled, Standing = PAUSE
               PROVE  isPause /\ pausedReads <= 1
      BY DEF SettledPauseHolds
  <2>1. ipcQueue = << >> /\ dispPc = "remove" /\ taken \in Seq(Nat)
      BY DEF Settled, IInv, TypeOK
  <2>2. taken \o ipcQueue = taken /\ DOMAIN taken = 1 .. Len(taken)
      BY <2>1, QueueLengths
  <2>3. PICK i \in 1 .. Len(taken) : /\ TypeAt(taken[i]) = PAUSE
                                     /\ \A k \in i .. Len(taken) : TypeAt(taken[k]) # RESUME
      BY <2>2, ToggleWords DEF Standing
  <2>4. isPause
      BY <2>1, <2>3 DEF FlagInv, PauseIsLast, ActedOn
  <2>5. QED BY <2>4 DEF ReadInv
<1>3. RTSpec => [](IInv /\ FlagInv)
    BY WholeImplementsCommandPath, FlagInvariance, PTL
<1>4. QED
    BY <1>1, <1>2, <1>3, ReadStep, PTL DEF RTSpec
-----------------------------------------------------------------------------
(* The lives of RT.  A file makes one event, as it comes to ./Input, so all *)
(* that RT holds is of files that no earlier life has aggregated a line of. *)

RowsOf(S) == [context : {"ROW_DATA"}, file : S \cup {NoFile}]
LinesOf(S) == [file : S, line : Int, ending : {"newline", "buffer", "eof"}]
RecordsOf(S) == [context : {"PROCESSED_DATA"}, entry : LinesOf(S)]
ItemsOf(S) == RowsOf(S) \cup RecordsOf(S)

QueuesOf(S) ==
    /\ dataWatcherQueue \in Seq(RowsOf(S))
    /\ dataManagerQueue \in Seq(ItemsOf(S)) /\ readerQueue \in Seq(ItemsOf(S))
    /\ aggregatorQueue \in Seq(RecordsOf(S))
    /\ parserQueue \in Seq(LinesOf(S)) /\ subAggrQueue \in Seq(LinesOf(S))
    /\ subSeen \in Seq(LinesOf(S))

HandOf(S) == {<< >>} \cup {<<x>> : x \in S}

HandsOf(S) ==
    /\ dwHand \in HandOf(RowsOf(S))
    /\ dmHand \in HandOf(ItemsOf(S)) /\ rdHand \in HandOf(ItemsOf(S))
    /\ rdLine \in HandOf(LinesOf(S)) /\ paHand \in HandOf(LinesOf(S))
    /\ agHand \in HandOf(RecordsOf(S))

(* Everything in the memory of RT is about files of S. *)
OnlyOf(S) ==
    /\ events \in Seq(S) /\ batch \in Seq(S) /\ (watcherPc = "batch" => batch # << >>)
    /\ QueuesOf(S) /\ HandsOf(S)

LifeInv ==
    /\ present \subseteq Files /\ pos \in [Files -> Int]
    /\ \A line \in counted : line.file \in present
    /\ OnlyOf(NewFiles)

LEMMA Taken ==
    ASSUME NEW S, NEW q \in Seq(S), q # << >>
    PROVE  Head(q) \in S /\ <<Head(q)>> \in HandOf(S) /\ Tail(q) \in Seq(S)
BY DEF HandOf

LEMMA Held ==
    ASSUME NEW S, NEW h \in HandOf(S), h # << >>
    PROVE  h[1] \in S /\ h = <<h[1]>>
BY DEF HandOf

LEMMA Put ==
    ASSUME NEW S, NEW T, NEW q \in Seq(S), NEW h \in HandOf(T), h # << >>, h[1] \in S
    PROVE  q \o h \in Seq(S)
<1>1. h = <<h[1]>>
    BY Held
<1>2. q \o <<h[1]>> \in Seq(S)
    OBVIOUS
<1>3. QED BY <1>1, <1>2

LEMMA NoneLeft == \A S : << >> \in Seq(S) /\ << >> \in HandOf(S)
BY EmptySeq DEF HandOf

(* More files may be held than before. *)
LEMMA OnlyOfMore ==
    ASSUME NEW S, NEW T, S \subseteq T
    PROVE  OnlyOf(S) => OnlyOf(T)
<1>1. /\ RowsOf(S) \subseteq RowsOf(T) /\ LinesOf(S) \subseteq LinesOf(T)
    BY DEF RowsOf, LinesOf
<1>2. RecordsOf(S) \subseteq RecordsOf(T)
    BY <1>1 DEF RecordsOf
<1>3. ItemsOf(S) \subseteq ItemsOf(T)
    BY <1>1, <1>2 DEF ItemsOf
<1>4. \A A, B : A \subseteq B => Seq(A) \subseteq Seq(B)
    OBVIOUS
<1>5. /\ Seq(RowsOf(S)) \subseteq Seq(RowsOf(T)) /\ Seq(LinesOf(S)) \subseteq Seq(LinesOf(T))
      /\ Seq(RecordsOf(S)) \subseteq Seq(RecordsOf(T))
      /\ Seq(ItemsOf(S)) \subseteq Seq(ItemsOf(T)) /\ Seq(S) \subseteq Seq(T)
    BY <1>1, <1>2, <1>3, <1>4
<1>6. /\ HandOf(RowsOf(S)) \subseteq HandOf(RowsOf(T))
      /\ HandOf(LinesOf(S)) \subseteq HandOf(LinesOf(T))
      /\ HandOf(RecordsOf(S)) \subseteq HandOf(RecordsOf(T))
      /\ HandOf(ItemsOf(S)) \subseteq HandOf(ItemsOf(T))
    BY <1>1, <1>2, <1>3 DEF HandOf
<1>7. QED BY <1>5, <1>6 DEF OnlyOf, QueuesOf, HandsOf

LEMMA Sorts ==
    ASSUME NEW S
    PROVE  /\ \A f \in S \cup {NoFile} : I!Row(f) \in RowsOf(S)
           /\ \A e \in LinesOf(S) : I!Processed(e) \in ItemsOf(S)
           /\ \A x \in ItemsOf(S) : x.context = "ROW_DATA" => x \in RowsOf(S)
           /\ \A x \in ItemsOf(S) : x.context = "PROCESSED_DATA" => x \in RecordsOf(S)
           /\ \A x \in RowsOf(S) : x \in ItemsOf(S) /\ x.file \in S \cup {NoFile}
           /\ \A x \in RecordsOf(S) : x \in ItemsOf(S) /\ x.entry \in LinesOf(S)
BY DEF RowsOf, RecordsOf, ItemsOf, I!Row, I!Processed


LEMMA LongTail ==
    ASSUME NEW A, NEW q \in Seq(A), q # << >>, Len(q) # 1
    PROVE  Tail(q) # << >>
<1>1. Len(Tail(q)) = Len(q) - 1
    BY HeadTailProperties
<1>2. Len(q) \in Nat \ {0} /\ Len(<< >>) = 0
    BY EmptySeq
<1>3. Len(Tail(q)) # 0
    BY <1>1, <1>2
<1>4. QED BY <1>2, <1>3

LEMMA OnlyFileWatcher ==
    ASSUME NEW S, OnlyOf(S), I!FileWatcherFunction
    PROVE  OnlyOf(S)'
<1> USE DEF OnlyOf, I!pipeVars, I!readerVars, I!parserVars, I!aggVars, I!seenVars, I!watchVars
<1>1. CASE I!StartWatch \/ I!TestPause
    BY <1>1 DEF I!StartWatch, I!TestPause, QueuesOf, HandsOf
<1>2. CASE I!ReadEvents
    BY <1>2, NoneLeft DEF I!ReadEvents, QueuesOf, HandsOf
<1>3. CASE I!OpenFile
  <2>1. batch # << >> /\ Head(batch) \in S /\ batch' = Tail(batch) /\ batch' \in Seq(S)
      BY <1>3, Taken DEF I!OpenFile
  <2>2. PICK file \in I!Opened(Head(batch)) :
            dataWatcherQueue' = Append(dataWatcherQueue, I!Row(file))
      BY <1>3 DEF I!OpenFile
  <2>3. dataWatcherQueue' \in Seq(RowsOf(S))
    <3>1. I!Row(file) \in RowsOf(S)
        BY <2>1, Sorts DEF I!Opened
    <3>2. QED BY <2>2, <3>1, AppendProperties DEF QueuesOf
  <2>4. watcherPc' = "batch" => batch' # << >>
    <3>1. watcherPc' = "batch" => Len(batch) # 1
        BY <1>3 DEF I!OpenFile, I!AfterBatch
    <3>2. Len(batch) # 1 => Tail(batch) # << >>
        BY <2>1, LongTail
    <3>3. QED BY <2>1, <3>1, <3>2
  <2>5. QueuesOf(S)' /\ HandsOf(S)' /\ events' = events
      BY <1>3, <2>3 DEF I!OpenFile, QueuesOf, HandsOf
  <2>6. QED BY <2>1, <2>4, <2>5
<1>4. QED BY <1>1, <1>2, <1>3 DEF I!FileWatcherFunction

LEMMA OnlyDataThreads ==
    ASSUME NEW S, OnlyOf(S), I!DataWatcherFunction \/ I!DataManagerFunction
    PROVE  OnlyOf(S)'
<1> USE DEF OnlyOf, QueuesOf, HandsOf, I!readerVars, I!parserVars, I!aggVars, I!seenVars,
            I!watchVars, I!fwVars, I!fileVars
<1>1. CASE I!DataWatcherRemove
    BY <1>1, Taken DEF I!DataWatcherRemove, I!Remove
<1>2. CASE I!DataWatcherInsert
  <2>1. dataManagerQueue \o dwHand \in Seq(ItemsOf(S))
      BY <1>2, Held, Put, Sorts DEF I!DataWatcherInsert, I!Insert
  <2>2. QED BY <1>2, <2>1, NoneLeft DEF I!DataWatcherInsert, I!Insert
<1>3. CASE I!DataManagerRemove
    BY <1>3, Taken DEF I!DataManagerRemove, I!Remove
<1>4. CASE I!DataManagerToReader
  <2>1. readerQueue \o dmHand \in Seq(ItemsOf(S))
      BY <1>4, Held, Put DEF I!DataManagerToReader, I!Insert
  <2>2. QED BY <1>4, <2>1, NoneLeft DEF I!DataManagerToReader, I!Insert
<1>5. CASE I!DataManagerToAggregator
  <2>1. aggregatorQueue \o dmHand \in Seq(RecordsOf(S))
    <3>1. dmHand # << >> /\ dmHand[1] \in RecordsOf(S)
        BY <1>5, Held, Sorts DEF I!DataManagerToAggregator, I!Insert, I!Holds
    <3>2. QED BY <3>1, Put
  <2>2. QED BY <1>5, <2>1, NoneLeft DEF I!DataManagerToAggregator, I!Insert
<1>6. QED BY <1>1, <1>2, <1>3, <1>4, <1>5 DEF I!DataWatcherFunction, I!DataManagerFunction

LEMMA OnlyReader ==
    ASSUME NEW S, S \subseteq Files, pos \in [Files -> Int], OnlyOf(S), I!ReaderFunction
    PROVE  OnlyOf(S)' /\ pos' \in [Files -> Int]
<1> USE DEF OnlyOf, QueuesOf, HandsOf, I!readerVars, I!parserVars, I!aggVars, I!seenVars,
            I!watchVars, I!fwVars, I!fileVars, I!notReader
<1>1. CASE I!ReaderRemove
    BY <1>1, Taken DEF I!ReaderRemove, I!Remove
<1>2. CASE I!FgetsNull
    BY <1>2 DEF I!FgetsNull
<1>3. CASE I!Fgets
  <2> DEFINE f == rdHand[1].file
             n == (pos[f] \div 2) + 1
  <2>1. f \in S
      BY <1>3, Held, Sorts DEF I!Fgets, I!ReadingFile, I!Holds
  <2>2. pos[f] \in Int /\ n \in Int
      BY <2>1
  <2>3. PICK ending \in {"newline", "buffer", "eof"} : rdLine' = <<I!Line(f, n, ending)>>
      BY <1>3 DEF I!Fgets, I!Ending
  <2>4. I!Line(f, n, ending) \in LinesOf(S)
      BY <2>1, <2>2 DEF I!Line, LinesOf
  <2>5. rdLine' \in HandOf(LinesOf(S))
      BY <2>3, <2>4 DEF HandOf
  <2>6. PICK d \in Int : pos' = [pos EXCEPT ![f] = @ + d]
    <3>1. pos' = [pos EXCEPT ![f] = @ + I!HalvesRead(written[f] - pos[f])]
        BY <1>3 DEF I!Fgets
    <3>2. I!HalvesRead(written[f] - pos[f]) \in Int
        BY DEF I!HalvesRead
    <3>3. QED BY <3>1, <3>2
  <2>7. pos' \in [Files -> Int]
      BY <2>1, <2>2, <2>6
  <2>8. QED BY <1>3, <2>5, <2>7 DEF I!Fgets
<1>4. CASE I!FgetsEOF
    BY <1>4, NoneLeft DEF I!FgetsEOF
<1>5. CASE I!ReaderToParser
  <2>1. parserQueue \o rdLine \in Seq(LinesOf(S))
      BY <1>5, Held, Put DEF I!ReaderToParser, I!Insert
  <2>2. QED BY <1>5, <2>1, NoneLeft DEF I!ReaderToParser, I!Insert
<1>6. CASE I!ReaderToDataManager
  <2>1. dataManagerQueue \o rdHand \in Seq(ItemsOf(S))
      BY <1>6, Held, Put DEF I!ReaderToDataManager, I!Insert
  <2>2. QED BY <1>6, <2>1, NoneLeft DEF I!ReaderToDataManager, I!Insert
<1>7. QED BY <1>1, <1>2, <1>3, <1>4, <1>5, <1>6 DEF I!ReaderFunction

LEMMA OnlyParser ==
    ASSUME NEW S, OnlyOf(S), I!ParserFunction
    PROVE  OnlyOf(S)'
<1> USE DEF OnlyOf, QueuesOf, HandsOf, I!readerVars, I!parserVars, I!aggVars, I!seenVars,
            I!watchVars, I!fwVars, I!fileVars, I!pipeVars
<1>1. CASE I!ParserRemove
    BY <1>1, Taken DEF I!ParserRemove, I!Remove
<1>2. CASE I!ParserInsert
  <2>1. I!Processed(paHand[1]) \in ItemsOf(S)
      BY <1>2, Held, Sorts DEF I!ParserInsert
  <2>2. Append(readerQueue, I!Processed(paHand[1])) \in Seq(ItemsOf(S))
      BY <2>1, AppendProperties
  <2>3. QED BY <1>2, <2>2, NoneLeft DEF I!ParserInsert
<1>3. QED BY <1>1, <1>2 DEF I!ParserFunction

LEMMA OnlyAggregators ==
    ASSUME NEW S, OnlyOf(S),
           I!AggregatorFunction \/ I!SubAggregatorFunction \/ I!OpAggregatorFunction
    PROVE  OnlyOf(S)'
<1> USE DEF OnlyOf, QueuesOf, HandsOf, I!readerVars, I!parserVars, I!aggVars, I!seenVars,
            I!watchVars, I!fwVars, I!fileVars, I!notAggregator
<1>1. CASE I!AggregatorRemove
    BY <1>1, Taken DEF I!AggregatorRemove, I!Remove
<1>2. CASE I!AggregatorToSub
  <2>1. agHand[1].entry \in LinesOf(S)
      BY <1>2, Held, Sorts DEF I!AggregatorToSub
  <2>2. Append(subAggrQueue, agHand[1].entry) \in Seq(LinesOf(S))
      BY <2>1, AppendProperties
  <2>3. QED BY <1>2, <2>2 DEF I!AggregatorToSub
<1>3. CASE I!AggregatorToOp
    BY <1>3, NoneLeft DEF I!AggregatorToOp
<1>4. CASE I!SubAggregatorFunction
  <2>1. Append(subSeen, Head(subAggrQueue)) \in Seq(LinesOf(S))
      BY <1>4, Taken, AppendProperties DEF I!SubAggregatorFunction
  <2>2. QED BY <1>4, <2>1, Taken DEF I!SubAggregatorFunction
<1>5. CASE I!OpAggregatorFunction
    BY <1>5 DEF I!OpAggregatorFunction
<1>6. QED BY <1>1, <1>2, <1>3, <1>4, <1>5 DEF I!AggregatorFunction

held == <<events, watcherPc, batch, dataWatcherQueue, dataManagerQueue, readerQueue,
          parserQueue, aggregatorQueue, subAggrQueue, dwHand, dmHand, rdHand, rdLine,
          paHand, agHand, subSeen>>

LEMMA OnlySame ==
    ASSUME NEW S, OnlyOf(S), UNCHANGED held
    PROVE  OnlyOf(S)'
BY DEF OnlyOf, QueuesOf, HandsOf, held

(* The threads bring no file, and no line is counted before the life ends.  *)
LEMMA LifeGoesOn ==
    ASSUME LifeInv, UNCHANGED <<present, counted>>, pos' \in [Files -> Int],
           NEW S, S = NewFiles, OnlyOf(S)'
    PROVE  LifeInv'
<1>1. NewFiles' = S
    BY DEF NewFiles
<1>2. OnlyOf(NewFiles)'
    BY <1>1 DEF OnlyOf, QueuesOf, HandsOf
<1>3. QED BY <1>2 DEF LifeInv

LEMMA LifeSame ==
    ASSUME LifeInv, UNCHANGED <<present, counted, pos, held>>
    PROVE  LifeInv'
<1>1. PICK S : S = NewFiles
    OBVIOUS
<1>2. OnlyOf(S)
    BY <1>1 DEF LifeInv
<1>3. OnlyOf(S)'
    BY <1>2, OnlySame
<1>4. pos' \in [Files -> Int]
    BY DEF LifeInv
<1>5. QED BY <1>1, <1>3, <1>4, LifeGoesOn

(* A file that comes in is one that no life has read. *)
LEMMA LifeNewFile ==
    ASSUME LifeInv, NEW f \in Files, I!CreateFile(f) \/ I!MoveFile(f), UNCHANGED counted
    PROVE  LifeInv'
<1> USE DEF I!CreateFile, I!MoveFile, I!Notify
<1>1. PICK S : S = NewFiles
    OBVIOUS
<1>2. PICK T : T = S \cup {f}
    OBVIOUS
<1>3. f \notin present /\ present' = present \cup {f}
    OBVIOUS
<1>4. NewFiles' = T
    BY <1>1, <1>2, <1>3 DEF NewFiles, LifeInv
<1>5. OnlyOf(T)
    BY <1>1, <1>2, OnlyOfMore DEF LifeInv
<1>6. events' \in Seq(T)
  <2>1. Append(events, f) \in Seq(T)
      BY <1>2, <1>5, AppendProperties DEF OnlyOf
  <2>2. QED BY <1>5, <2>1 DEF OnlyOf
<1>7. OnlyOf(T)'
    BY <1>5, <1>6
    DEF OnlyOf, QueuesOf, HandsOf, I!pipeVars, I!readerVars, I!parserVars, I!aggVars, I!seenVars,
        I!fwVars, I!fileVars
<1>8. OnlyOf(NewFiles)'
    BY <1>4, <1>7 DEF OnlyOf, QueuesOf, HandsOf
<1>9. present' \subseteq Files /\ \A line \in counted' : line.file \in present'
    BY <1>3 DEF LifeInv
<1>10. pos' \in [Files -> Int]
    BY DEF LifeInv, I!pipeVars, I!readerVars
<1>11. QED BY <1>8, <1>9, <1>10 DEF LifeInv

(* The end of a life: what it has aggregated is counted, and it holds nothing. *)
LEMMA LifeOver ==
    ASSUME LifeInv, MemoryGone
    PROVE  LifeInv'
<1> USE DEF MemoryGone, disk
<1>1. present' = present /\ pos' \in [Files -> Int]
    OBVIOUS
<1>2. \A i \in DOMAIN subSeen : subSeen[i].file \in present
  <2>1. subSeen \in Seq(LinesOf(NewFiles))
      BY DEF LifeInv, OnlyOf, QueuesOf
  <2>2. \A i \in DOMAIN subSeen : subSeen[i] \in LinesOf(NewFiles)
      BY <2>1, LenProperties
  <2>3. QED BY <2>2 DEF LinesOf, NewFiles
<1>3. \A line \in counted' : line.file \in present'
    BY <1>1, <1>2 DEF LifeInv
<1>4. PICK T : T = NewFiles'
    OBVIOUS
<1>5. OnlyOf(T)'
    BY NoneLeft DEF OnlyOf, QueuesOf, HandsOf
<1>6. OnlyOf(NewFiles)'
    BY <1>4, <1>5 DEF OnlyOf, QueuesOf, HandsOf
<1>7. QED BY <1>1, <1>3, <1>6 DEF LifeInv

LEMMA ThreadsKeepInput ==
    ASSUME \/ I!FileWatcherFunction \/ I!DataWatcherFunction \/ I!DataManagerFunction
           \/ I!ReaderFunction \/ I!ParserFunction \/ I!AggregatorFunction
           \/ I!SubAggregatorFunction \/ I!OpAggregatorFunction
    PROVE  present' = present /\ (~I!ReaderFunction => pos' = pos)
<1> USE DEF I!inputVars, I!readerVars, I!pipeVars, I!notReader, I!notAggregator
<1>1. CASE I!FileWatcherFunction
    BY <1>1 DEF I!FileWatcherFunction, I!StartWatch, I!TestPause, I!ReadEvents, I!OpenFile
<1>2. CASE I!DataWatcherFunction
    BY <1>2 DEF I!DataWatcherFunction, I!DataWatcherRemove, I!DataWatcherInsert
<1>3. CASE I!DataManagerFunction
    BY <1>3 DEF I!DataManagerFunction, I!DataManagerRemove, I!DataManagerToReader,
                I!DataManagerToAggregator
<1>4. CASE I!ReaderFunction
    BY <1>4 DEF I!ReaderFunction, I!ReaderRemove, I!FgetsNull, I!Fgets, I!FgetsEOF,
                I!ReaderToParser, I!ReaderToDataManager
<1>5. CASE I!ParserFunction
    BY <1>5 DEF I!ParserFunction, I!ParserRemove, I!ParserInsert
<1>6. CASE I!AggregatorFunction \/ I!SubAggregatorFunction \/ I!OpAggregatorFunction
    BY <1>6 DEF I!AggregatorFunction, I!AggregatorRemove, I!AggregatorToSub, I!AggregatorToOp,
                I!SubAggregatorFunction, I!OpAggregatorFunction
<1>7. QED BY <1>1, <1>2, <1>3, <1>4, <1>5, <1>6

LEMMA LifeThreads ==
    ASSUME LifeInv, UNCHANGED counted,
           \/ I!FileWatcherFunction \/ I!DataWatcherFunction \/ I!DataManagerFunction
           \/ I!ReaderFunction \/ I!ParserFunction \/ I!AggregatorFunction
           \/ I!SubAggregatorFunction \/ I!OpAggregatorFunction
    PROVE  LifeInv'
<1>1. PICK S : S = NewFiles
    OBVIOUS
<1>2. OnlyOf(S) /\ S \subseteq Files /\ pos \in [Files -> Int]
    BY <1>1 DEF LifeInv, NewFiles
<1>3. OnlyOf(S)'
    BY <1>2, OnlyFileWatcher, OnlyDataThreads, OnlyReader, OnlyParser, OnlyAggregators
<1>4. pos' \in [Files -> Int]
    BY <1>2, OnlyReader, ThreadsKeepInput
<1>5. QED BY <1>1, <1>3, <1>4, ThreadsKeepInput, LifeGoesOn

LEMMA LifeSetFlag == ASSUME LifeInv, SetFlag PROVE LifeInv'
<1>1. UNCHANGED <<present, counted, pos, held>>
  <2> USE DEF SetFlag, held, I!inputVars, I!watchVars, I!fwVars, I!fileVars, I!pipeVars,
              I!readerVars, I!parserVars, I!aggVars, I!seenVars
  <2>1. CASE UNCHANGED ingestVars
      BY <2>1 DEF ingestVars, disk, memory
  <2>2. CASE I!FileWatcherPause
      BY <2>2 DEF I!FileWatcherPause
  <2>3. CASE I!FileWatcherWakeUp
      BY <2>3 DEF I!FileWatcherWakeUp
  <2>4. QED BY <2>1, <2>2, <2>3
<1>2. QED BY <1>1, LifeSame

LEMMA LifeInput ==
    ASSUME LifeInv, Input \/ ReportWriter
    PROVE  LifeInv'
<1>1. counted' = counted
    BY DEF Input, ReportWriter, notIngest
<1>2. CASE \E f \in Files : I!CreateFile(f) \/ I!MoveFile(f)
    BY <1>1, <1>2, LifeNewFile
<1>3. CASE (\E f \in Files : I!WriteFile(f)) \/ I!OpenReport \/ I!CloseReport
  <2>1. UNCHANGED <<present, pos, held>>
      BY <1>3 DEF I!WriteFile, I!OpenReport, I!CloseReport, held, I!inputVars, I!watchVars,
                  I!fwVars, I!fileVars, I!pipeVars, I!readerVars, I!parserVars, I!aggVars,
                  I!seenVars
  <2>2. QED BY <1>1, <2>1, LifeSame
<1>4. QED BY <1>2, <1>3 DEF Input, ReportWriter

LEMMA LifeStep == LifeInv /\ [RTNext]_rtvars => LifeInv'
<1> SUFFICES ASSUME LifeInv, [RTNext]_rtvars PROVE LifeInv'
    OBVIOUS
<1>1. CASE UNCHANGED rtvars
    BY <1>1, LifeSame DEF rtvars, ingestVars, memory, disk, held
<1>2. CASE \/ User \/ Start \/ SubReport \/ OpReport \/ PauseThreads
           \/ Dispatcher /\ ~SetFlag
           \/ RequestThread(AggregatorRepFunction)
           \/ RequestThread(SubAggregatorRepTake) \/ RequestThread(OpAggregatorRepTake)
  <2>1. counted' = counted
      BY <1>2 DEF User, Start, SubReport, OpReport, ReportThread, PauseThreads, Dispatcher,
                  RequestThread
  <2>2. QED BY <1>2, <2>1, CommandPathKeepsFlag, LifeSame DEF memory, disk, held
<1>3. CASE SetFlag
    BY <1>3, LifeSetFlag
<1>4. CASE End \/ Fault
    BY <1>4, LifeEnds, LifeOver
<1>5. CASE Input \/ ReportWriter
    BY <1>5, LifeInput
<1>6. CASE \/ FileWatcher \/ DataWatcher \/ DataManager \/ Reader \/ Parser
           \/ Aggregator \/ SubAggregator \/ OpAggregator
    BY <1>6, LifeThreads
    DEF FileWatcher, DataWatcher, DataManager, Reader, Parser, Aggregator, SubAggregator,
        OpAggregator, notIngest
<1>7. QED BY <1>1, <1>2, <1>3, <1>4, <1>5, <1>6 DEF RTNext

LEMMA LifeInvInit == RTInit => LifeInv
<1> SUFFICES ASSUME RTInit PROVE LifeInv
    OBVIOUS
<1> USE DEF RTInit, I!Init
<1>1. present = {} /\ counted = {} /\ pos \in [Files -> Int]
    OBVIOUS
<1>2. OnlyOf(NewFiles)
    BY NoneLeft DEF OnlyOf, QueuesOf, HandsOf
<1>3. QED BY <1>1, <1>2 DEF LifeInv

(* However RT ends and is started again, no line is aggregated in two of    *)
(* its lives: a file is announced once, to the life that sees it come.      *)
THEOREM NoLineInTwoLivesAlways == RTSpec => []NoLineInTwoLives
<1>1. LifeInv => NoLineInTwoLives
  <2> SUFFICES ASSUME LifeInv, NEW i \in DOMAIN subSeen PROVE subSeen[i] \notin counted
      BY DEF NoLineInTwoLives
  <2>1. subSeen \in Seq(LinesOf(NewFiles))
      BY DEF LifeInv, OnlyOf, QueuesOf
  <2>2. subSeen[i] \in LinesOf(NewFiles)
      BY <2>1, LenProperties
  <2>3. QED BY <2>2 DEF LinesOf, NewFiles
<1>2. QED
    BY <1>1, LifeInvInit, LifeStep, PTL DEF RTSpec
-----------------------------------------------------------------------------
(* Within a life RT is what Ingest models, with watcherPc for its fwPc; so  *)
(* what is proved of a step of Ingest holds for every step of RT but the    *)
(* one that starts it and those that end it.                                *)

P == INSTANCE IngestLog_proofs WITH fwPc <- watcherPc, MaxToggles <- MaxCommands

LEMMA AsIngest == P!IngestAssumption
BY RTAssumption, CommandPathAssumption DEF P!IngestAssumption

LEMMA SameStep == [I!Next]_(I!vars) <=> [P!Next]_(P!vars)
BY DEF I!inputVars, P!inputVars, I!watchVars, P!watchVars, I!toggleVars, P!toggleVars,
       I!fileVars, P!fileVars, I!fwVars, P!fwVars, I!pipeVars, P!pipeVars, I!readerVars,
       P!readerVars, I!parserVars, P!parserVars, I!aggVars, P!aggVars, I!seenVars,
       P!seenVars, I!vars, P!vars, I!Next, P!Next, I!Environment, P!Environment, I!Pipeline, P!Pipeline, I!CreateFile,
       P!CreateFile, I!MoveFile, P!MoveFile, I!WriteFile, P!WriteFile, I!Notify, P!Notify,
       I!HalfLines, P!HalfLines, I!FileWatcherPause, P!FileWatcherPause,
       I!FileWatcherWakeUp, P!FileWatcherWakeUp, I!OpenReport, P!OpenReport, I!CloseReport,
       P!CloseReport, I!ReportToOpen, P!ReportToOpen, I!ReportFails, P!ReportFails,
       I!OpenReportFails, P!OpenReportFails, I!FileWatcherFunction, P!FileWatcherFunction,
       I!StartWatch, P!StartWatch, I!TestPause, P!TestPause, I!ReadEvents, P!ReadEvents, I!OpenFile,
       P!OpenFile, I!AfterBatch, P!AfterBatch, I!StreamLeft, P!StreamLeft, I!Opened,
       P!Opened, I!Row, P!Row, I!HasRoom, P!HasRoom, I!DataWatcherFunction,
       P!DataWatcherFunction, I!DataWatcherRemove, P!DataWatcherRemove, I!DataWatcherInsert,
       P!DataWatcherInsert, I!Remove, P!Remove, I!Insert, P!Insert, I!DataManagerFunction,
       P!DataManagerFunction, I!DataManagerRemove, P!DataManagerRemove,
       I!DataManagerToReader, P!DataManagerToReader, I!DataManagerToAggregator,
       P!DataManagerToAggregator, I!Holds, P!Holds, I!ReaderFunction, P!ReaderFunction,
       I!ReaderRemove, P!ReaderRemove, I!FgetsNull, P!FgetsNull, I!Fgets, P!Fgets,
       I!FgetsEOF, P!FgetsEOF, I!ReaderToParser, P!ReaderToParser, I!ReaderToDataManager,
       P!ReaderToDataManager, I!NullAtHand, P!NullAtHand, I!ReadingFile, P!ReadingFile,
       I!ReturnsRecord, P!ReturnsRecord, I!notReader, P!notReader, I!HalvesRead,
       P!HalvesRead, I!Ending, P!Ending, I!Line, P!Line, I!ParserFunction, P!ParserFunction,
       I!ParserRemove, P!ParserRemove, I!ParserInsert, P!ParserInsert, I!Harmful, P!Harmful,
       I!Whole, P!Whole, I!MemoryFault, P!MemoryFault,
       I!Processed, P!Processed, I!AggregatorFunction, P!AggregatorFunction,
       I!AggregatorRemove, P!AggregatorRemove, I!AggregatorToSub, P!AggregatorToSub,
       I!AggregatorToOp, P!AggregatorToOp, I!notAggregator, P!notAggregator,
       I!SubAggregatorFunction, P!SubAggregatorFunction, I!OpAggregatorFunction,
       P!OpAggregatorFunction

LEMMA SameTypes == I!TypeOK <=> P!TypeOK
BY DEF I!TypeOK, P!TypeOK, I!InputTypes, P!InputTypes, I!WatchTypes, P!WatchTypes,
       I!PipeTypes, P!PipeTypes, I!Queue, P!Queue, I!Hand, P!Hand, I!RowItem, P!RowItem,
       I!Record, P!Record, I!LineEntry, P!LineEntry, I!HalfLines, P!HalfLines

LEMMA IngestAlone ==
    ASSUME UNCHANGED <<isPause, memory, disk, crashed>>
    PROVE  UNCHANGED I!vars
BY DEF memory, disk, I!vars, I!inputVars, I!watchVars, I!toggleVars, I!fwVars, I!fileVars,
       I!readerVars, I!parserVars, I!aggVars, I!seenVars

LEMMA WithinALife ==
    ASSUME [RTNext]_rtvars, ~(Start \/ End \/ Fault)
    PROVE  [I!Next]_(I!vars)
<1>1. CASE UNCHANGED rtvars
    BY <1>1, IngestAlone DEF rtvars, vars, dispVars, ingestVars
<1>2. CASE \/ User \/ SubReport \/ OpReport \/ PauseThreads
           \/ Dispatcher /\ ~SetFlag
           \/ RequestThread(AggregatorRepFunction)
           \/ RequestThread(SubAggregatorRepTake) \/ RequestThread(OpAggregatorRepTake)
  <2>1. crashed' = crashed
      BY <1>2 DEF User, SubReport, OpReport, ReportThread, PauseThreads, Dispatcher,
                  RequestThread, ingestVars
  <2>2. QED BY <1>2, <2>1, CommandPathKeepsFlag, IngestAlone
<1>3. CASE SetFlag
  <2>1. CASE isPause' = isPause
      BY <1>3, <2>1, IngestAlone DEF SetFlag, ingestVars
  <2>2. CASE I!FileWatcherPause \/ I!FileWatcherWakeUp
      BY <2>2 DEF I!Next, I!Environment
  <2>3. QED BY <1>3, <2>1, <2>2 DEF SetFlag
<1>4. CASE Input \/ ReportWriter
    BY <1>4 DEF Input, ReportWriter, I!Next, I!Environment
<1>5. CASE \/ FileWatcher \/ DataWatcher \/ DataManager \/ Reader \/ Parser
           \/ Aggregator \/ SubAggregator \/ OpAggregator
    BY <1>5 DEF FileWatcher, DataWatcher, DataManager, Reader, Parser, Aggregator,
                SubAggregator, OpAggregator, I!Next, I!Pipeline
<1>6. QED BY <1>1, <1>2, <1>3, <1>4, <1>5 DEF RTNext

(* The other steps: RT starts with nothing, or loses all it holds.          *)
LEMMA LifeStarts ==
    ASSUME Start
    PROVE  UNCHANGED <<isPause, memory, disk, reports, asked, printed, counted>>
BY DEF Start, DispatcherCreate, dispVars, reportVars

(* Every step of RT is its start, its end, or a step of Ingest or none.     *)
THEOREM WholeIsIngestWithinALife ==
    RTSpec => [][[I!Next]_(I!vars) \/ Start \/ End \/ Fault]_rtvars
<1>1. [RTNext]_rtvars => [[I!Next]_(I!vars) \/ Start \/ End \/ Fault]_rtvars
    BY WithinALife
<1>2. QED BY <1>1, PTL DEF RTSpec
-----------------------------------------------------------------------------
(* The shapes of the state, and what RT has asked for and printed.          *)

LEMMA ReportsKept ==
    ASSUME [RTNext]_rtvars, ~(SubReport \/ OpReport)
    PROVE  reports' = reports
<1>1. CASE UNCHANGED rtvars
    BY <1>1 DEF rtvars, vars
<1>2. CASE User \/ Start \/ End \/ Fault
    BY <1>2 DEF User, Start, End, Fault, ReaderFault, FaultOver, UserInterfaceCreate,
                GetCommand, DispatcherCreate, RTKilled, OpAggregatorRepOverrun, EndRT
<1>3. CASE Dispatcher
    BY <1>3 DEF Dispatcher, SetFlag, GetMsgSetFlag, GetMsgReceive, GetMsgReport,
                GetMsgToDataWatcher, GetMsgToFileWatcher, GetMsgIgnore
<1>4. CASE PauseThreads
    BY <1>4 DEF PauseThreads, DataWatcherCommandTake, DataWatcherCommandLock,
                FileWatcherForpauseTake, FileWatcherForpauseCheck, SpuriousWakeup
<1>5. CASE \/ RequestThread(AggregatorRepFunction)
           \/ RequestThread(SubAggregatorRepTake) \/ RequestThread(OpAggregatorRepTake)
    BY <1>5 DEF RequestThread, AggregatorRepFunction, SubAggregatorRepTake, OpAggregatorRepTake
<1>6. CASE \/ Input \/ FileWatcher \/ DataWatcher \/ DataManager \/ Reader \/ Parser
           \/ Aggregator \/ SubAggregator \/ OpAggregator \/ ReportWriter
    BY <1>6 DEF Input, FileWatcher, DataWatcher, DataManager, Reader, Parser, Aggregator,
                SubAggregator, OpAggregator, ReportWriter, notIngest
<1>7. QED BY <1>1, <1>2, <1>3, <1>4, <1>5, <1>6 DEF RTNext

(* The report writer begins no report that was not made in this life.       *)
ReportCounts == asked \in 0 .. Len(reports) /\ printed \in 0 .. asked

LEMMA ReportCountsStep ==
    ASSUME TypeOK, ReportCounts, [RTNext]_rtvars
    PROVE  ReportCounts'
<1>1. reports \in Seq(Record) /\ Len(reports) \in Nat
    BY DEF TypeOK
<1>2. asked \in Nat /\ printed \in Nat /\ asked <= Len(reports) /\ printed <= asked
    BY <1>1 DEF ReportCounts
<1>3. CASE SubReport \/ OpReport
  <2>1. \/ reports' = reports
        \/ \E r : reports' = Append(reports, r)
      BY <1>3 DEF SubReport, OpReport, ReportThread, SubAggregatorRepSwitch,
                  OpAggregatorRepSwitch
  <2>2. Len(reports') \in {Len(reports), Len(reports) + 1}
      BY <1>1, <2>1
  <2>3. asked' = asked + (Len(reports') - Len(reports)) /\ printed' = printed
      BY <1>3 DEF SubReport, OpReport, ReportThread
  <2>4. QED BY <1>1, <1>2, <2>2, <2>3 DEF ReportCounts
<1>4. CASE End \/ Fault
  <2>1. asked' = 0 /\ printed' = 0 /\ reports' = reports
      BY <1>4, ReportsKept, LifeEnds
      DEF MemoryGone, End, Fault, ReaderFault, FaultOver, SubReport,
         OpReport, RTKilled, OpAggregatorRepOverrun, EndRT
  <2>2. QED BY <1>1, <2>1 DEF ReportCounts
<1>5. CASE ReportWriter
  <2>1. asked' = asked /\ reports' = reports
      BY <1>5 DEF ReportWriter, notIngest
  <2>2. printed' = printed \/ (printed < asked /\ printed' = printed + 1)
      BY <1>5, Zenon DEF ReportWriter
  <2>3. QED BY <1>1, <1>2, <2>1, <2>2 DEF ReportCounts
<1>6. CASE UNCHANGED <<reports, reportVars>>
    BY <1>6 DEF ReportCounts, reportVars
<1>7. \/ SubReport \/ OpReport \/ End \/ Fault \/ ReportWriter
      \/ UNCHANGED reportVars
    BY DEF RTNext, rtvars, User, Input, Start, Dispatcher, SetFlag, PauseThreads, RequestThread,
           FileWatcher, DataWatcher, DataManager, Reader, Parser, Aggregator, SubAggregator,
           OpAggregator
<1>8. QED BY <1>3, <1>4, <1>5, <1>6, <1>7, ReportsKept

LEMMA IngestTypesAtEnd ==
    ASSUME P!TypeOK, MemoryGone, isPause' = FALSE
    PROVE  P!TypeOK'
<1> USE RTAssumption, CommandPathAssumption DEF MemoryGone, disk
<1>1. P!InputTypes'
    BY DEF P!TypeOK, P!InputTypes
<1>2. P!WatchTypes'
  <2>1. /\ watching' \in BOOLEAN /\ isPause' \in BOOLEAN /\ reporting' \in BOOLEAN
        /\ crashed' \in BOOLEAN
      BY Zenon
  <2>2. /\ events' \in Seq(Files) /\ batch' \in Seq(Files) /\ pausedReads' \in Nat
        /\ watcherPc' \in {"start", "test", "read", "batch"}
        /\ toggles' \in 0 .. MaxCommands /\ streams' \in 0 .. MaxStreams
      BY NoneLeft
  <2>3. watcherPc' = "batch" <=> batch' # << >>
      OBVIOUS
  <2>4. QED BY <2>1, <2>2, <2>3 DEF P!WatchTypes
<1>3. \A S : << >> \in P!Queue(S) /\ << >> \in P!Hand(S)
    BY NoneLeft, EmptySeq DEF P!Queue, P!Hand
<1>4. P!PipeTypes'
    BY <1>3, NoneLeft DEF P!PipeTypes
<1>5. QED BY <1>1, <1>2, <1>4 DEF P!TypeOK

LEMMA IngestTypesStep == P!TypeOK /\ [RTNext]_rtvars => P!TypeOK'
<1> SUFFICES ASSUME P!TypeOK, [RTNext]_rtvars PROVE P!TypeOK'
    OBVIOUS
<1>1. CASE Start
  <2>1. UNCHANGED <<isPause, memory, disk>> /\ crashed' = FALSE
      BY <1>1, LifeStarts DEF Start
  <2>2. QED
      BY <2>1 DEF memory, disk, P!TypeOK, P!InputTypes, P!WatchTypes, P!PipeTypes
<1>2. CASE End \/ Fault
    BY <1>2, LifeEnds, IngestTypesAtEnd
<1>3. CASE ~(Start \/ End \/ Fault)
    BY <1>3, WithinALife, SameStep, AsIngest, P!TypeStep
<1>4. QED BY <1>1, <1>2, <1>3

LEMMA CountedStays ==
    ASSUME [RTNext]_rtvars, ~(End \/ Fault)
    PROVE  counted' = counted
BY DEF RTNext, rtvars, User, Input, Start, Dispatcher, SetFlag, SubReport, OpReport,
       ReportThread, PauseThreads, RequestThread, FileWatcher, DataWatcher, DataManager,
       Reader, Parser, Aggregator, SubAggregator, OpAggregator, ReportWriter, notIngest

LEMMA CountedTypesStep ==
    ASSUME P!TypeOK, counted \subseteq I!LineEntry, [RTNext]_rtvars
    PROVE  counted' \subseteq I!LineEntry
<1>1. CASE End \/ Fault
  <2>1. subSeen \in Seq(I!LineEntry)
      BY SameTypes DEF I!TypeOK, I!PipeTypes
  <2>2. \A i \in DOMAIN subSeen : subSeen[i] \in I!LineEntry
      BY <2>1, LenProperties
  <2>3. counted' = counted \cup {subSeen[i] : i \in DOMAIN subSeen}
      BY <1>1, LifeEnds DEF MemoryGone
  <2>4. QED BY <2>2, <2>3
<1>2. CASE ~(End \/ Fault)
    BY <1>2, CountedStays
<1>3. QED BY <1>1, <1>2

(* RTTypeOK: the parts of RT keep their shapes in every life, and no report *)
(* is begun that was not made since RT started.                             *)
THEOREM WholeTypeCorrect == RTSpec => []RTTypeOK
<1>1. RTInit => P!TypeOK /\ ReportCounts /\ counted \subseteq I!LineEntry
  <2>1. I!Init => P!Init
      BY DEF I!Init, P!Init
  <2>2. Init => Len(reports) = 0
      BY DEF Init
  <2>3. QED BY <2>1, <2>2, AsIngest, P!TypeInit DEF RTInit, ReportCounts
<1>2. TypeOK /\ P!TypeOK /\ ReportCounts /\ counted \subseteq I!LineEntry => RTTypeOK
    BY SameTypes DEF RTTypeOK, ReportCounts
<1>3. TypeOK /\ ReportCounts /\ [RTNext]_rtvars => ReportCounts'
    BY ReportCountsStep
<1>4. P!TypeOK /\ counted \subseteq I!LineEntry /\ [RTNext]_rtvars
        => (counted \subseteq I!LineEntry)'
    BY CountedTypesStep
<1>5. QED
    BY <1>1, <1>2, <1>3, <1>4, IngestTypesStep, WholeImplementsCommandPath, TypeCorrect, PTL
    DEF RTSpec
-----------------------------------------------------------------------------
(* What holds of every state of Ingest holds in every life of RT: it starts *)
(* with nothing in its memory, and with whole files in ./Input.             *)

IngestInv == P!TypeOK /\ P!LogInv /\ P!LineOfFile

LEMMA NothingHeldIsEnough == P!WholeFiles /\ P!NothingHeld => P!LogInv
BY AsIngest, P!LogInvFromNothing

LEMMA NothingHeldAtEnd == P!WholeFiles' /\ P!NothingHeld' => P!LogInv'
BY NothingHeldIsEnough, PTL

LEMMA LogInvAtEnd ==
    ASSUME P!TypeOK, P!LogInv, MemoryGone
    PROVE  P!LogInv'
<1>1. P!NothingHeld'
    BY DEF MemoryGone, P!NothingHeld
<1>2. P!WholeFiles'
  <2>1. P!WholeFiles /\ UNCHANGED <<present, written>> /\ \A f \in Files : pos'[f] % 2 = 0
      BY DEF P!LogInv, MemoryGone, disk
  <2>2. MovedIn \subseteq Files
      BY RTAssumption
  <2>3. QED BY <2>1, <2>2 DEF P!WholeFiles, P!HalfLines
<1>3. QED BY <1>1, <1>2, NothingHeldAtEnd

LEMMA IngestInvSame ==
    ASSUME P!LogInv, P!LineOfFile, UNCHANGED <<memory, disk>>
    PROVE  P!LogInv' /\ P!LineOfFile'
<1> USE DEF memory, disk
<1>1. P!Stages' = P!Stages
    BY DEF P!Stages, P!Entries, P!Item
<1>2. P!InOrder(P!Stages)' /\ P!AllRead' /\ P!NothingLost'
    BY <1>1 DEF P!LogInv, P!PathInv, P!InOrder, P!AllRead, P!Read, P!NothingLost, P!Occurs
<1>3. P!WholeFiles' /\ P!SubNeedsHand' /\ P!OpBehind'
    BY DEF P!LogInv, P!WholeFiles, P!SubNeedsHand, P!OpBehind, P!OneForOp
<1>4. P!LineOfFile'
    BY DEF P!LineOfFile, P!Holds
<1>5. QED BY <1>2, <1>3, <1>4 DEF P!LogInv, P!PathInv

LEMMA IngestInvStep == IngestInv /\ [RTNext]_rtvars => IngestInv'
<1> SUFFICES ASSUME IngestInv, [RTNext]_rtvars PROVE IngestInv'
    OBVIOUS
<1> USE DEF IngestInv
<1>1. P!TypeOK'
    BY IngestTypesStep
<1>2. CASE Start
    BY <1>1, <1>2, LifeStarts, IngestInvSame
<1>3. CASE End \/ Fault
    BY <1>1, <1>3, LifeEnds, LogInvAtEnd DEF MemoryGone, P!LineOfFile
<1>4. CASE ~(Start \/ End \/ Fault)
  <2>1. [P!Next]_(P!vars)
      BY <1>4, WithinALife, SameStep
  <2>2. QED BY <1>1, <2>1, AsIngest, P!LogInvStep, P!LineOfFileStep
<1>5. QED BY <1>2, <1>3, <1>4

LEMMA IngestInvInit == RTInit => IngestInv
<1>1. I!Init => P!Init
    BY DEF I!Init, P!Init
<1>2. P!Init => P!LineOfFile
    BY DEF P!Init, P!LineOfFile
<1>3. QED BY <1>1, <1>2, AsIngest, P!TypeInit, P!LogInvInit DEF RTInit, IngestInv

LEMMA WholeInvariance == RTSpec => [](IngestInv /\ LifeInv)
BY IngestInvInit, IngestInvStep, LifeInvInit, LifeStep, PTL DEF RTSpec
-----------------------------------------------------------------------------
(* The logs of the lives.  A step of Ingest is a step of the log; what it   *)
(* appends is of a file of which no earlier life has counted a line.        *)

LEMMA SameAggregators ==
    /\ I!AggregatorToSub <=> P!AggregatorToSub
    /\ I!SubAggregatorFunction <=> P!SubAggregatorFunction
    /\ I!OpAggregatorFunction <=> P!OpAggregatorFunction
BY DEF I!AggregatorToSub, P!AggregatorToSub, I!SubAggregatorFunction,
       P!SubAggregatorFunction, I!OpAggregatorFunction, P!OpAggregatorFunction,
       I!HasRoom, P!HasRoom, I!notAggregator, P!notAggregator, I!inputVars, P!inputVars,
       I!watchVars, P!watchVars, I!toggleVars, P!toggleVars, I!fwVars, P!fwVars,
       I!fileVars, P!fileVars, I!readerVars, P!readerVars, I!parserVars, P!parserVars,
       I!aggVars, P!aggVars, I!seenVars, P!seenVars

LEMMA LogGrows ==
    ASSUME IngestInv, LifeInv, I!AggregatorToSub
    PROVE  \E f \in Files : Lives!NewTo(f) /\ Lives!AppendLine(f)
<1>1. P!AggregatorToSub
    BY SameAggregators
<1>2. PICK f : f = agHand[1].entry.file
    OBVIOUS
<1>3. f \in Files /\ P!Log!AppendLine(f)
    BY <1>1, <1>2, AsIngest, P!EntersLog DEF IngestInv
<1>4. Lives!AppendLine(f)
    BY <1>3 DEF P!Log!AppendLine, P!Log!LastOf, P!Log!Endings, Lives!AppendLine,
                Lives!LastOf, Lives!Endings
<1>5. f \in NewFiles
  <2>1. agHand # << >> /\ agHand \in HandOf(RecordsOf(NewFiles))
      BY DEF I!AggregatorToSub, LifeInv, OnlyOf, HandsOf
  <2>2. agHand[1] \in RecordsOf(NewFiles)
      BY <2>1, Held
  <2>3. QED BY <2>2, <1>2 DEF RecordsOf, LinesOf
<1>6. QED BY <1>3, <1>4, <1>5 DEF NewFiles, Lives!NewTo

LEMMA LifeOfLogEnds ==
    ASSUME MemoryGone
    PROVE  Lives!EndLife
BY DEF MemoryGone, Lives!EndLife

LEMMA LivesStep ==
    IngestInv /\ LifeInv /\ [RTNext]_rtvars => [Lives!LivesNext]_<<Lives!vars, counted>>
<1> SUFFICES ASSUME IngestInv, LifeInv, [RTNext]_rtvars
             PROVE  [Lives!LivesNext]_<<Lives!vars, counted>>
    OBVIOUS
<1>1. CASE End \/ Fault
    BY <1>1, LifeEnds, LifeOfLogEnds DEF Lives!LivesNext
<1>2. CASE Start
    BY <1>2, LifeStarts DEF memory, Lives!vars
<1>3. CASE ~(Start \/ End \/ Fault)
  <2>1. counted' = counted /\ [I!Next]_(I!vars) /\ [P!Next]_(P!vars)
      BY <1>3, CountedStays, WithinALife, SameStep
  <2>2. CASE I!AggregatorToSub
      BY <2>1, <2>2, LogGrows DEF Lives!LivesNext
  <2>3. CASE I!SubAggregatorFunction
    <3>1. P!Log!SubRead
        BY <2>3, SameAggregators, AsIngest, P!SubReadsLog DEF IngestInv
    <3>2. Lives!SubRead
        BY <3>1 DEF P!Log!SubRead, Lives!SubRead
    <3>3. QED BY <2>1, <3>2 DEF Lives!LivesNext
  <2>4. CASE I!OpAggregatorFunction
    <3>1. P!Log!OpRead
        BY <2>4, SameAggregators, AsIngest, P!OpReadsLog DEF IngestInv
    <3>2. Lives!OpRead
        BY <3>1 DEF P!Log!OpRead, Lives!OpRead
    <3>3. QED BY <2>1, <3>2 DEF Lives!LivesNext
  <2>5. CASE ~(I!AggregatorToSub \/ I!SubAggregatorFunction \/ I!OpAggregatorFunction)
    <3>1. UNCHANGED P!Log!vars
        BY <2>1, <2>5, SameAggregators, AsIngest, P!LogAlone
    <3>2. QED BY <2>1, <3>1 DEF P!Log!vars, Lives!vars
  <2>6. QED BY <2>2, <2>3, <2>4, <2>5
<1>4. QED BY <1>1, <1>2, <1>3

(* ImplementsLifeLogs: in each life of RT the aggregators are given one log *)
(* of records, in file order, without gaps or repetitions, in which no file *)
(* occurs that an earlier life has counted a line of, however lives end.    *)
THEOREM WholeImplementsLifeLogs == RTSpec => ImplementsLifeLogs
<1>1. RTInit => Lives!Init /\ counted = {}
    BY DEF RTInit, I!Init, Lives!Init
<1>2. QED
    BY <1>1, LivesStep, WholeInvariance, PTL DEF RTSpec, ImplementsLifeLogs, Lives!LivesSpec
-----------------------------------------------------------------------------
(* How RT ends.  A life has an event for each file that came to it, and no  *)
(* stream for another; what earlier lives counted lines of is not among     *)
(* them.                                                                    *)

CountedFiles == {line.file : line \in counted}

StreamInv ==
    /\ P!StreamsAreOfFiles(CountedFiles)
    /\ P!NoNull \/ P!FilesMayFail(CountedFiles)
    /\ spoiled => P!HarmfulLineRead

LEMMA SameCounts == \A S : /\ P!IsFiniteSet(S) = IsFiniteSet(S)
                          /\ P!Cardinality(S) = Cardinality(S)
<1>1. \A S : P!IsFiniteSet(S) = IsFiniteSet(S)
    BY DEF P!IsFiniteSet, IsFiniteSet
<1>2. \A S : P!Cardinality(S) = Cardinality(S)
    BY DEF P!Cardinality, Cardinality
<1>3. QED BY <1>1, <1>2

LEMMA NewFilesAreTheOthers == NewFiles = present \ CountedFiles
BY DEF NewFiles, CountedFiles

LEMMA StreamsAtEnd ==
    ASSUME StreamInv, LifeInv', MemoryGone
    PROVE  StreamInv'
<1>1. /\ present' = present /\ CountedFiles \subseteq CountedFiles'
      /\ IsFiniteSet(present \ CountedFiles)
    BY SameCounts DEF MemoryGone, disk, CountedFiles, StreamInv, P!StreamsAreOfFiles
<1>2. present' \ CountedFiles' \subseteq present \ CountedFiles
    BY <1>1
<1>3. /\ IsFiniteSet(present' \ CountedFiles')
      /\ Cardinality(present' \ CountedFiles') \in Nat
    BY <1>1, <1>2, FS_Subset, FS_CardinalityType
<1>4. CountedFiles' \subseteq present'
    BY DEF LifeInv, CountedFiles
<1>5. Len(events') = 0 /\ Len(batch') = 0 /\ streams' = 0
      /\ events' = << >> /\ batch' = << >> /\ spoiled' = FALSE
    BY DEF MemoryGone
<1>6. P!StreamsAreOfFiles(CountedFiles)'
    BY <1>3, <1>4, <1>5, NoneLeft, SameCounts DEF P!StreamsAreOfFiles
<1>7. P!NoNull'
    BY NoneLeft DEF MemoryGone, P!NoNull
<1>8. QED BY <1>5, <1>6, <1>7 DEF StreamInv

LEMMA StreamStep == IngestInv /\ StreamInv /\ LifeInv' /\ [RTNext]_rtvars => StreamInv'
<1> SUFFICES ASSUME IngestInv, StreamInv, LifeInv', [RTNext]_rtvars PROVE StreamInv'
    OBVIOUS
<1>1. CASE Start
    BY <1>1, LifeStarts
    DEF memory, disk, StreamInv, P!StreamsAreOfFiles, P!FilesMayFail, P!ManyFiles, P!NoNull,
        P!HarmfulLineRead, P!HarmfulRead, CountedFiles
<1>2. CASE End \/ Fault
    BY <1>2, LifeEnds, StreamsAtEnd
<1>3. CASE ~(Start \/ End \/ Fault)
  <2>1. counted' = counted /\ [P!Next]_(P!vars)
      BY <1>3, CountedStays, WithinALife, SameStep
  <2>2. PICK Old : Old = CountedFiles
      OBVIOUS
  <2>3. CountedFiles' = Old
      BY <2>1, <2>2 DEF CountedFiles
  <2>4. /\ P!TypeOK /\ P!LogInv /\ P!StreamsAreOfFiles(Old)
        /\ P!NoNull \/ P!FilesMayFail(Old)
        /\ spoiled => P!HarmfulLineRead
      BY <2>2 DEF IngestInv, StreamInv
  <2>5. P!StreamsAreOfFiles(Old)' /\ (P!FilesMayFail(Old) => P!FilesMayFail(Old)')
      BY <2>1, <2>4, AsIngest, P!FilesMayFailStays
  <2>6. P!NoNull /\ ~P!FilesMayFail(Old) => P!NoNull'
      BY <2>1, <2>4, AsIngest, P!NoNullStays
  <2>7. spoiled' => P!HarmfulLineRead'
      BY <2>1, <2>4, AsIngest, P!SpoiledStep
  <2>8. P!StreamsAreOfFiles(CountedFiles)' /\ (P!NoNull' \/ P!FilesMayFail(CountedFiles)')
      BY <2>3, <2>4, <2>5, <2>6 DEF P!StreamsAreOfFiles, P!FilesMayFail, P!ManyFiles
  <2>9. QED BY <2>7, <2>8 DEF StreamInv
<1>4. QED BY <1>1, <1>2, <1>3

(* A fopen of a file, or of a report, that failed tells of the files.       *)
LEMMA FailureNeeds ==
    ASSUME P!FilesMayFail(CountedFiles)
    PROVE  Cardinality(NewFiles) >= MaxStreams \/ MayBeGone \cap NewFiles # {}
BY NewFilesAreTheOthers, SameCounts DEF P!FilesMayFail, P!ManyFiles

(* What a fault tells, in the state in which it comes. *)
LEMMA FaultNeeds ==
    ASSUME IngestInv, StreamInv, Fault
    PROVE  \/ Cardinality(NewFiles) >= MaxStreams
           \/ MayBeGone \cap NewFiles # {}
           \/ ReportsMayFail /\ printed < asked
           \/ \E f \in present : I!HarmfulRead(f)
<1>1. CASE I!NullAtHand
  <2>1. P!NullAtHand
      BY <1>1 DEF I!NullAtHand, P!NullAtHand, I!ReadingFile, P!ReadingFile, I!Holds, P!Holds
  <2>2. P!FilesMayFail(CountedFiles)
      BY <2>1, AsIngest, P!NullWasPassedOn DEF StreamInv
  <2>3. QED BY <2>2, FailureNeeds
<1>2. CASE spoiled
  <2>1. PICK f \in present : P!HarmfulRead(f)
      BY <1>2 DEF StreamInv, P!HarmfulLineRead
  <2>2. I!HarmfulRead(f)
      BY <2>1 DEF I!HarmfulRead, P!HarmfulRead
  <2>3. QED BY <2>2
<1>3. CASE ReportWaits /\ ~I!StreamLeft
  <2>1. ~P!StreamLeft /\ ~reporting
      BY <1>3 DEF I!StreamLeft, P!StreamLeft, ReportWaits
  <2>2. PICK Old : Old = CountedFiles
      OBVIOUS
  <2>3. P!ManyFiles(Old)
      BY <2>1, <2>2, AsIngest, P!NoStreamMeansManyFiles DEF IngestInv, StreamInv
  <2>4. QED BY <2>2, <2>3, FailureNeeds DEF P!FilesMayFail, P!ManyFiles
<1>4. CASE ReportWaits /\ ReportsMayFail
    BY <1>4 DEF ReportWaits
<1>5. QED
    BY <1>1, <1>2, <1>3, <1>4 DEF Fault, ReaderFault, FaultOver, I!ReportFails

(* FaultHasACause: RT ends by itself over a stream only when as many files  *)
(* that no earlier life counted have come as it may open streams, or one of *)
(* them may have gone again, or over a report that may not be written;      *)
(* otherwise over a line, read in this life, that spoils memory.            *)
THEOREM FaultHasACauseAlways == RTSpec => FaultHasACause
<1>1. RTInit => StreamInv
  <2> SUFFICES ASSUME RTInit PROVE StreamInv
      OBVIOUS
  <2>1. present \ CountedFiles = {} /\ CountedFiles \subseteq present
        /\ Len(events) = 0 /\ Len(batch) = 0 /\ streams = 0
        /\ events = << >> /\ batch = << >> /\ spoiled = FALSE
      BY DEF RTInit, I!Init, CountedFiles
  <2>2. P!StreamsAreOfFiles(CountedFiles)
      BY <2>1, FS_EmptySet, NoneLeft, SameCounts DEF P!StreamsAreOfFiles
  <2>3. P!NoNull
      BY NoneLeft DEF RTInit, I!Init, P!NoNull
  <2>4. QED BY <2>1, <2>2, <2>3 DEF StreamInv
<1>2. QED
    BY <1>1, StreamStep, FaultNeeds, WholeInvariance, PTL DEF RTSpec, FaultHasACause
-----------------------------------------------------------------------------
(* Threads that wait for each other.                                        *)

LEMMA SameWaiting ==
    /\ I!Wedged <=> P!Wedged
    /\ I!AllWait <=> P!AllWait
    /\ I!Busy <=> P!Busy
    /\ I!InCycle = P!InCycle
BY DEF I!Wedged, P!Wedged, I!AllWait, P!AllWait, I!Busy, P!Busy, I!InCycle, P!InCycle,
       I!Idle, P!Idle, I!WaitsFor, P!WaitsFor, I!HasRoom, P!HasRoom, I!Holds, P!Holds,
       I!ReturnsRecord, P!ReturnsRecord

LEMMA WholeWedgedStep ==
    IngestInv /\ [RTNext]_rtvars => (I!Wedged => I!Wedged' \/ ~Running')
<1> SUFFICES ASSUME IngestInv, [RTNext]_rtvars, I!Wedged PROVE I!Wedged' \/ ~Running'
    OBVIOUS
<1>1. CASE Start
  <2>1. UNCHANGED memory
      BY <1>1, LifeStarts
  <2>2. QED
      BY <2>1 DEF memory, I!Wedged, I!WaitsFor, I!HasRoom, I!Holds, I!ReturnsRecord
<1>2. CASE End \/ Fault
    BY <1>2 DEF End, Fault, ReaderFault, FaultOver, RTKilled, OpAggregatorRepOverrun, EndRT,
                Running
<1>3. CASE ~(Start \/ End \/ Fault)
  <2>1. [P!Next]_(P!vars)
      BY <1>3, WithinALife, SameStep
  <2>2. P!Wedged'
      BY <2>1, SameWaiting, AsIngest, P!WedgedStep DEF IngestInv
  <2>3. I!Wedged'
      BY <2>2 DEF I!Wedged, P!Wedged, I!WaitsFor, P!WaitsFor, I!HasRoom, P!HasRoom,
                  I!Holds, P!Holds, I!ReturnsRecord, P!ReturnsRecord
  <2>4. QED BY <2>3
<1>4. QED BY <1>1, <1>2, <1>3

(* WedgedUntilRTEnds: no PAUSE, RESUME, report, file or stream frees two    *)
(* ingest threads that wait for each other; only the end of RT does.        *)
THEOREM WedgedUntilRTEndsAlways == RTSpec => WedgedUntilRTEnds
<1>1. IngestInv /\ [RTNext]_rtvars => [I!Wedged => I!Wedged' \/ ~Running']_rtvars
    BY WholeWedgedStep
<1>2. QED BY <1>1, WholeInvariance, PTL DEF RTSpec, WedgedUntilRTEnds

(* In no life can the threads of the pipeline all not go on while there is  *)
(* work, or all wait, unless two of them wait for each other over two full  *)
(* queues: reports, commands and restarts add no way for them to stop.      *)
THEOREM WholeStopsOnlyUnderLoad ==
    RTSpec => [](I!Busy /\ (I!AllWait \/ ~P!Ready)
                   => I!AllWait /\ I!Wedged /\ I!InCycle >= 2 * QueueCap + 2)
<1>1. ASSUME IngestInv, I!Busy, I!AllWait \/ ~P!Ready
      PROVE  I!AllWait /\ I!Wedged /\ I!InCycle >= 2 * QueueCap + 2
  <2>1. P!TypeOK /\ P!Busy
      BY <1>1, SameWaiting, AsIngest DEF IngestInv
  <2>2. P!AllWait
      BY <1>1, <2>1, SameWaiting, AsIngest, P!TheOthersWait
  <2>3. P!Wedged /\ P!InCycle >= 2 * QueueCap + 2
      BY <2>1, <2>2, AsIngest, P!WaitersAreWedged
  <2>4. QED BY <2>2, <2>3, SameWaiting
<1>2. IngestInv => (I!Busy /\ (I!AllWait \/ ~P!Ready)
                      => I!AllWait /\ I!Wedged /\ I!InCycle >= 2 * QueueCap + 2)
    BY <1>1
<1>3. QED BY <1>2, WholeInvariance, PTL

(* In no life is a line seen in part, unless it is longer than the buffer   *)
(* of the reader or the last that is read of a file written in place.       *)
THEOREM WholeCutsOnlyLongOrLastLines == RTSpec => []I!LinesInPartAreLongOrLast
<1>1. IngestInv => I!LinesInPartAreLongOrLast
    BY AsIngest, P!LinesInPart
    DEF IngestInv, I!LinesInPartAreLongOrLast, P!LinesInPartAreLongOrLast, I!Whole, P!Whole
<1>2. QED BY <1>1, WholeInvariance, PTL

(* To a user who waits for each command to finish the process as a whole is *)
(* a service with one command outstanding, whatever files come meanwhile.   *)
THEOREM WholeIsAService == ASSUME Paced PROVE RTSpec => ImplementsService
BY WholeImplementsCommandPath, WaitingUserHasAService, PTL
-----------------------------------------------------------------------------
(* The joints of the two halves.  A command sets the flag once, so that the *)
(* bound on the toggles of Ingest is never felt in RT, and the threads of a *)
(* process that is up are those of one that has not crashed.                *)

JointInv ==
    /\ Len(sent) <= MaxCommands
    /\ toggles + (IF dispPc \in {"switch", "flag"} THEN 1 ELSE 0) <= Slot
    /\ Running => ~crashed

LEMMA ThreadsKeepToggles ==
    ASSUME \/ Input \/ FileWatcher \/ DataWatcher \/ DataManager \/ Reader \/ Parser
           \/ Aggregator \/ SubAggregator \/ OpAggregator \/ ReportWriter
    PROVE  UNCHANGED <<toggles, sent, taken, dispPc, rt>> /\ (crashed' => crashed)
<1> USE DEF notIngest, uiVars, rtVars, I!toggleVars
<1>1. CASE Input
    BY <1>1 DEF Input, I!CreateFile, I!MoveFile, I!WriteFile
<1>2. CASE FileWatcher
    BY <1>2 DEF FileWatcher, I!FileWatcherFunction, I!StartWatch, I!TestPause, I!ReadEvents,
                I!OpenFile
<1>3. CASE DataWatcher \/ DataManager
    BY <1>3 DEF DataWatcher, DataManager, I!DataWatcherFunction, I!DataManagerFunction,
                I!DataWatcherRemove, I!DataWatcherInsert, I!DataManagerRemove,
                I!DataManagerToReader, I!DataManagerToAggregator
<1>4. CASE Reader
    BY <1>4 DEF Reader, I!ReaderFunction, I!ReaderRemove, I!FgetsNull, I!Fgets, I!FgetsEOF,
                I!ReaderToParser, I!ReaderToDataManager, I!notReader
<1>5. CASE Parser
    BY <1>5 DEF Parser, I!ParserFunction, I!ParserRemove, I!ParserInsert
<1>6. CASE Aggregator \/ SubAggregator \/ OpAggregator
    BY <1>6 DEF Aggregator, SubAggregator, OpAggregator, I!AggregatorFunction,
                I!AggregatorRemove, I!AggregatorToSub, I!AggregatorToOp,
                I!SubAggregatorFunction, I!OpAggregatorFunction, I!notAggregator
<1>7. CASE ReportWriter
  <2>1. CASE I!OpenReport
      BY <1>7, <2>1 DEF ReportWriter, I!OpenReport
  <2>2. CASE I!CloseReport
      BY <1>7, <2>2 DEF ReportWriter, I!CloseReport
  <2>3. QED BY <1>7, <2>1, <2>2 DEF ReportWriter
<1>8. QED BY <1>1, <1>2, <1>3, <1>4, <1>5, <1>6, <1>7

LEMMA JointSame ==
    ASSUME JointInv, UNCHANGED <<toggles, sent, taken, dispPc>>, Running' /\ crashed' => crashed /\ Running
    PROVE  JointInv'
BY SlotSame DEF JointInv

LEMMA SlotTypeNext == TypeOK' => Slot' \in Nat
BY DEF TypeOK, Slot

LEMMA JointDispatcher ==
    ASSUME IInv, IInv', P!TypeOK, P!TypeOK', JointInv, Dispatcher
    PROVE  JointInv'
<1>1. toggles \in Nat /\ toggles' \in Nat /\ Slot \in Nat /\ Slot' \in Nat
  <2>1. TypeOK => Slot \in Nat
      BY SlotType DEF TypeOK
  <2>2. TypeOK' => Slot' \in Nat
      BY SlotTypeNext
  <2>3. QED BY <2>1, <2>2, CommandPathAssumption DEF IInv, P!TypeOK, P!WatchTypes
<1>2. CASE GetMsgReceive /\ UNCHANGED ingestVars
  <2>1. Slot < Slot'
      BY <1>2, ReceiveEffect DEF IInv, RequestInv, ArrivalInv
  <2>2. /\ toggles' = toggles /\ crashed' = crashed /\ sent' = sent /\ rt' = rt
        /\ dispPc = "remove"
      BY <1>2 DEF GetMsgReceive, ingestVars, memory, uiVars, rtVars
  <2>3. QED BY <1>1, <2>1, <2>2 DEF JointInv, Running
<1>3. CASE /\ GetMsgReport \/ GetMsgToDataWatcher \/ GetMsgToFileWatcher \/ GetMsgIgnore
           /\ UNCHANGED ingestVars
  <2>1. /\ UNCHANGED <<toggles, crashed, sent, rt, taken>>
        /\ dispPc' \in {"switch", "flag"} => dispPc \in {"switch", "flag"}
      BY <1>3 DEF GetMsgReport, GetMsgToDataWatcher, GetMsgToFileWatcher, GetMsgIgnore,
                  ingestVars, memory, uiVars, rtVars
  <2>2. QED BY <1>1, <2>1, SlotSame DEF JointInv, Running
<1>4. CASE SetFlag
  <2>1. UNCHANGED <<sent, rt, taken, crashed>> /\ dispPc = "flag" /\ dispPc' = "fileWatcher"
      BY <1>4 DEF SetFlag, GetMsgSetFlag, I!FileWatcherPause, I!FileWatcherWakeUp, ingestVars,
                  memory, uiVars, rtVars
  <2>2. Slot' = Slot
      BY <2>1, SlotSame
  <2>3. toggles + 1 <= Slot
      BY <2>1 DEF JointInv
  <2>4. toggles' <= Slot'
    <3>1. CASE toggles' = toggles
        BY <1>1, <2>2, <2>3, <3>1
    <3>2. CASE toggles' = toggles + 1
        BY <2>2, <2>3, <3>2
    <3>3. toggles' = toggles \/ toggles' = toggles + 1
        BY <1>4 DEF SetFlag, I!FileWatcherPause, I!FileWatcherWakeUp, ingestVars, memory
    <3>4. QED BY <3>1, <3>2, <3>3
  <2>5. toggles' + (IF dispPc' \in {"switch", "flag"} THEN 1 ELSE 0) <= Slot'
    <3>1. dispPc' = "fileWatcher"
        BY <2>1
    <3>2. (IF dispPc' \in {"switch", "flag"} THEN 1 ELSE 0) = 0
        BY <3>1
    <3>3. toggles' + 0 = toggles'
      <4>1. toggles' \in Int
          BY <1>1
      <4>2. \A n \in Int : n + 0 = n
          OBVIOUS
      <4>3. QED BY <4>1, <4>2, Zenon
    <3>4. QED BY <2>4, <3>2, <3>3
  <2>6. Running' => ~crashed'
      BY <2>1 DEF JointInv, Running
  <2>7. Len(sent') <= MaxCommands
      BY <2>1 DEF JointInv
  <2>8. QED BY <2>5, <2>6, <2>7 DEF JointInv
<1>5. QED BY <1>2, <1>3, <1>4 DEF Dispatcher

LEMMA JointStep ==
    IInv /\ IInv' /\ P!TypeOK /\ P!TypeOK' /\ JointInv /\ [RTNext]_rtvars => JointInv'
<1> SUFFICES ASSUME IInv, IInv', P!TypeOK, P!TypeOK', JointInv, [RTNext]_rtvars
             PROVE  JointInv'
    OBVIOUS
<1>1. CASE UNCHANGED rtvars
    BY <1>1, JointSame DEF rtvars, vars, uiVars, rtVars, dispVars, ingestVars, memory, Running
<1>2. CASE User
  <2>1. UNCHANGED <<toggles, crashed, taken, dispPc, rt>>
      BY <1>2 DEF User, UserInterfaceCreate, GetCommand, rtVars, dispVars, ingestVars, memory
  <2>2. Len(sent') <= MaxCommands
    <3>1. CASE UserInterfaceCreate
        BY <3>1 DEF UserInterfaceCreate, JointInv
    <3>2. CASE \E input \in UserInputs : GetCommand(input)
      <4> PICK input \in UserInputs : GetCommand(input)
          BY <3>2
      <4>1. Len(sent') = Len(sent) + 1 /\ Len(sent) \in Nat
          BY SentGrows DEF IInv
      <4>2. Len(sent) < MaxCommands
          BY DEF GetCommand
      <4>3. QED BY <4>1, <4>2, CommandPathAssumption
    <3>3. QED BY <1>2, <3>1, <3>2 DEF User
  <2>3. QED BY <2>1, <2>2, SlotSame DEF JointInv, Running
<1>3. CASE Start
    BY <1>3, SlotSame
    DEF Start, DispatcherCreate, JointInv, uiVars, dispVars, memory
<1>4. CASE End \/ Fault
  <2>1. EndRT /\ toggles' = 0
      BY <1>4, LifeEnds DEF End, Fault, ReaderFault, FaultOver, RTKilled,
         OpAggregatorRepOverrun, MemoryGone
  <2>2. Slot' = 0 /\ sent' = sent /\ dispPc' = "remove" /\ ~Running'
      BY <2>1, EndEffect DEF EndRT, Running
  <2>3. QED BY <2>1, <2>2 DEF JointInv
<1>5. CASE Dispatcher
    BY <1>5, JointDispatcher
<1>6. CASE \/ SubReport \/ OpReport \/ PauseThreads
           \/ RequestThread(AggregatorRepFunction)
           \/ RequestThread(SubAggregatorRepTake) \/ RequestThread(OpAggregatorRepTake)
  <2>1. UNCHANGED ingestVars
      BY <1>6 DEF SubReport, OpReport, ReportThread, PauseThreads, RequestThread
  <2>2. UNCHANGED <<uiVars, rtVars, dispVars>>
      BY <1>6 DEF SubReport, OpReport, ReportThread, PauseThreads, RequestThread,
         SubAggregatorRepSwitch, OpAggregatorRepSwitch, DataWatcherCommandTake,
         DataWatcherCommandLock, FileWatcherForpauseTake, FileWatcherForpauseCheck,
         SpuriousWakeup, AggregatorRepFunction, SubAggregatorRepTake, OpAggregatorRepTake
  <2>3. QED BY <2>1, <2>2, JointSame DEF ingestVars, memory, uiVars, rtVars, dispVars, Running
<1>7. CASE \/ Input \/ FileWatcher \/ DataWatcher \/ DataManager \/ Reader \/ Parser
           \/ Aggregator \/ SubAggregator \/ OpAggregator \/ ReportWriter
    BY <1>7, ThreadsKeepToggles, JointSame DEF Running
<1>8. QED BY <1>1, <1>2, <1>3, <1>4, <1>5, <1>6, <1>7 DEF RTNext

(* The file watcher's flag can be set whenever the dispatcher comes to it:  *)
(* in RT the bound on the toggles of Ingest and its crashed threads keep    *)
(* no step from a process that is up.                                       *)
THEOREM FlagCanAlwaysBeSet ==
    RTSpec => [](Running => ~crashed /\ (dispPc = "flag" => toggles < MaxCommands))
<1>1. RTInit => JointInv
    BY CommandPathAssumption DEF RTInit, Init, I!Init, JointInv, Slot, Running
<1>2. IInv /\ P!TypeOK /\ JointInv =>
          (Running => ~crashed /\ (dispPc = "flag" => toggles < MaxCommands))
  <2> SUFFICES ASSUME IInv, P!TypeOK, JointInv, dispPc = "flag" PROVE toggles < MaxCommands
      BY DEF JointInv
  <2>1. toggles \in Nat /\ Slot \in Nat /\ Slot <= Len(sent) /\ Len(sent) \in Nat
      BY NaturalPlaces DEF P!TypeOK, P!WatchTypes, IInv, RequestInv, ArrivalInv, TypeOK
  <2>2. QED BY <2>1, CommandPathAssumption DEF JointInv
<1>3. RTSpec => []IInv
    BY WholeImplementsCommandPath, Invariance, PTL
<1>4. RTSpec => []P!TypeOK
    BY WholeInvariance, PTL DEF IngestInv
<1>5. QED
    BY <1>1, <1>2, <1>3, <1>4, JointStep, PTL DEF RTSpec
=============================================================================
