------------------------- MODULE CommandPath_proofs -------------------------
(***************************************************************************)
(* Theorems about the command path, for every set of user inputs, every    *)
(* queue capacity and every bound.                                         *)
(***************************************************************************)
EXTENDS CommandPath, SequenceTheorems, TLAPS
-----------------------------------------------------------------------------
(* Sequences as sets of entries. *)

Elems(q) == {q[i] : i \in 1 .. Len(q)}
NoDup(q) == \A i, j \in 1 .. Len(q) : i # j => q[i] # q[j]
Ascending(q) == \A i, j \in 1 .. Len(q) : i < j => q[i] < q[j]

LEMMA ElemsNat == ASSUME NEW q \in Seq(Nat) PROVE Elems(q) \subseteq Nat
BY DEF Elems

(* Inserting at the end of a queue adds one entry. *)
LEMMA AppendEntries ==
    ASSUME NEW q \in Seq(Nat), NEW x \in Nat
    PROVE  /\ Append(q, x) \in Seq(Nat)
           /\ Elems(Append(q, x)) = Elems(q) \cup {x}
           /\ (NoDup(q) /\ x \notin Elems(q)) => NoDup(Append(q, x))
BY DEF Elems, NoDup

(* Removing the first entry of a queue without duplicates takes exactly that *)
(* entry away.                                                               *)
LEMMA TailEntries ==
    ASSUME NEW q \in Seq(Nat), q # << >>, NoDup(q)
    PROVE  /\ Head(q) \in Nat /\ Head(q) \in Elems(q)
           /\ Tail(q) \in Seq(Nat)
           /\ Elems(Tail(q)) = Elems(q) \ {Head(q)}
           /\ NoDup(Tail(q))
BY DEF Elems, NoDup

(* The encoded word fits the bit fields. *)
LEMMA EncodeInRange ==
    ASSUME NEW input \in [choice : Int, name : Int]
    PROVE  SentCommand(input) \in SentWord
<1>1. TypeValues \in Nat \ {0} /\ NameValues \in Nat \ {0}
  BY SMT DEF TypeValues, NameValues
<1>2. \A n \in Int : n % TypeValues \in 0 .. TypeValues - 1
  BY <1>1, SMT
<1>3. \A n \in Int : n % NameValues \in 0 .. NameValues - 1
  BY <1>1, SMT
<1>4. 0 \in 0 .. NameValues - 1
  BY <1>1, SMT
<1> QED
  BY <1>2, <1>3, <1>4 DEF SentCommand, Encode, SentWord
-----------------------------------------------------------------------------
(* Type correctness: no interleaving of the threads, no restart and no user *)
(* input takes a variable out of its range; in particular every command     *)
(* word stays inside the two bit fields.                                    *)

LEMMA SlotType ==
    ASSUME taken \in Seq(Nat)
    PROVE  Slot \in Nat
BY DEF Slot

LEMMA IdleReaderType == IdleReader \in Thread
BY DEF IdleReader, Thread

LEMMA EmptyQueues == << >> \in Seq(Nat) /\ << >> \in Seq(SentWord) /\ << >> \in Seq(Record)
BY EmptySeq

LEMMA TypeInit == Init => TypeOK
<1> SUFFICES ASSUME Init PROVE TypeOK
  OBVIOUS
<1>1. /\ uiStarts \in Nat /\ rtStarts \in Nat
      /\ rt \in {"down", "up"} /\ dispPc \in {"remove", "switch", "flag", "fileWatcher"}
      /\ dwPc \in {"remove", "lock"} /\ fwPc \in {"remove", "check", "wait"}
      /\ isPause \in BOOLEAN /\ dwMutex \in BOOLEAN
  BY DEF Init
<1>2. sent \in Seq(SentWord) /\ ipcQueue \in Seq(Nat) /\ taken \in Seq(Nat)
  BY EmptyQueues DEF Init
<1>3. /\ aggWithDespQueue \in Seq(Nat) /\ subAggQueue \in Seq(Nat) /\ opAggQueue \in Seq(Nat)
      /\ dwCmdQueue \in Seq(Nat) /\ fwCmdQueue \in Seq(Nat) /\ reports \in Seq(Record)
  BY EmptyQueues DEF Init
<1>4. subRep \in Thread /\ opRep \in Thread
  BY IdleReaderType DEF Init
<1> QED
  BY <1>1, <1>2, <1>3, <1>4 DEF TypeOK

LEMMA TypeEndRT == TypeOK /\ EndRT => TypeOK'
BY IdleReaderType, EmptyQueues DEF TypeOK, EndRT, uiVars

LEMMA TypeGetCommand ==
    ASSUME TypeOK, NEW input \in UserInputs, GetCommand(input)
    PROVE  TypeOK'
<1>1. SentCommand(input) \in SentWord
  BY EncodeInRange, CommandPathAssumption
<1>2. sent' \in Seq(SentWord)
  BY <1>1, AppendProperties DEF GetCommand, TypeOK
<1>3. ipcQueue' \in Seq(Nat)
  BY DEF GetCommand, TypeOK
<1> QED
  BY <1>2, <1>3 DEF GetCommand, TypeOK, rtVars, dispVars, reportPath, watcherVars

LEMMA TypeGetMsg == TypeOK /\ GetMsg => TypeOK'
<1> SUFFICES ASSUME TypeOK, GetMsg PROVE TypeOK'
  OBVIOUS
<1> USE SlotType DEF TypeOK, uiVars, rtVars, reportPath, watcherVars
<1>1. CASE GetMsgReceive
  BY <1>1 DEF GetMsgReceive, NextMessage
<1>2. CASE GetMsgReport
  BY <1>2 DEF GetMsgReport
<1>3. CASE GetMsgToDataWatcher
  BY <1>3 DEF GetMsgToDataWatcher
<1>4. CASE GetMsgSetFlag
  BY <1>4 DEF GetMsgSetFlag, FlagFor
<1>5. CASE GetMsgToFileWatcher
  BY <1>5 DEF GetMsgToFileWatcher
<1>6. CASE GetMsgIgnore
  BY <1>6 DEF GetMsgIgnore
<1> QED
  BY <1>1, <1>2, <1>3, <1>4, <1>5, <1>6 DEF GetMsg

LEMMA TypeReportPath ==
    ASSUME TypeOK,
           \/ AggregatorRepFunction
           \/ SubAggregatorRepTake \/ SubAggregatorRepSwitch
           \/ OpAggregatorRepTake \/ OpAggregatorRepSwitch
    PROVE  TypeOK'
<1> USE SlotType DEF TypeOK, uiVars, rtVars, dispVars, watcherVars, Thread
<1>1. CASE AggregatorRepFunction
  <2>1. Head(aggWithDespQueue) \in Nat /\ Tail(aggWithDespQueue) \in Seq(Nat)
    BY <1>1, HeadTailProperties DEF AggregatorRepFunction
  <2>2. /\ Append(subAggQueue, Head(aggWithDespQueue)) \in Seq(Nat)
        /\ Append(opAggQueue, Head(aggWithDespQueue)) \in Seq(Nat)
    BY <2>1, AppendProperties
  <2> QED
    BY <1>1, <2>1, <2>2 DEF AggregatorRepFunction, AfterForwarding
<1>2. CASE SubAggregatorRepTake
  BY <1>2 DEF SubAggregatorRepTake, TakeRequest, FormattedName
<1>3. CASE SubAggregatorRepSwitch
  <2>1. Report("subscriber", subRep) \in Record
    BY DEF Report, Record
  <2>2. Append(reports, Report("subscriber", subRep)) \in Seq(Record)
    BY <2>1, AppendProperties
  <2> QED
    BY <1>3, <2>2 DEF SubAggregatorRepSwitch
<1>4. CASE OpAggregatorRepTake
  BY <1>4 DEF OpAggregatorRepTake, TakeRequest, FormattedName
<1>5. CASE OpAggregatorRepSwitch
  <2>1. Report("operator", opRep) \in Record
    BY DEF Report, Record
  <2>2. Append(reports, Report("operator", opRep)) \in Seq(Record)
    BY <2>1, AppendProperties
  <2> QED
    BY <1>5, <2>2 DEF OpAggregatorRepSwitch
<1> QED
  BY <1>1, <1>2, <1>3, <1>4, <1>5

LEMMA TypeWatchers ==
    ASSUME TypeOK,
           \/ DataWatcherCommandTake \/ DataWatcherCommandLock
           \/ FileWatcherForpauseTake \/ FileWatcherForpauseCheck \/ SpuriousWakeup
    PROVE  TypeOK'
<1> USE DEF TypeOK, uiVars, rtVars, dispVars, reportPath
<1>1. CASE DataWatcherCommandTake
  BY <1>1 DEF DataWatcherCommandTake
<1>2. CASE DataWatcherCommandLock
  BY <1>2 DEF DataWatcherCommandLock
<1>3. CASE FileWatcherForpauseTake
  BY <1>3 DEF FileWatcherForpauseTake
<1>4. CASE FileWatcherForpauseCheck
  BY <1>4 DEF FileWatcherForpauseCheck
<1>5. CASE SpuriousWakeup
  BY <1>5 DEF SpuriousWakeup
<1> QED
  BY <1>1, <1>2, <1>3, <1>4, <1>5

LEMMA TypeProcesses ==
    ASSUME TypeOK, UserInterfaceCreate \/ DispatcherCreate
    PROVE  TypeOK'
<1> USE EmptyQueues
        DEF TypeOK, GetSharedIPCQueue, uiVars, rtVars, dispVars, reportPath, watcherVars
<1>1. CASE UserInterfaceCreate
  BY <1>1 DEF UserInterfaceCreate
<1>2. CASE DispatcherCreate
  BY <1>2 DEF DispatcherCreate
<1> QED
  BY <1>1, <1>2

LEMMA TypeStep == TypeOK /\ [Next]_vars => TypeOK'
<1> SUFFICES ASSUME TypeOK, [Next]_vars PROVE TypeOK'
  OBVIOUS
<1>1. CASE UNCHANGED vars
  BY <1>1 DEF TypeOK, vars, uiVars, rtVars, dispVars, reportPath, watcherVars
<1>2. CASE RTKilled \/ OpAggregatorRepOverrun
  BY <1>2, TypeEndRT DEF RTKilled, OpAggregatorRepOverrun
<1>3. CASE \E input \in UserInputs : GetCommand(input)
  BY <1>3, TypeGetCommand
<1> QED
  BY <1>1, <1>2, <1>3, TypeProcesses, TypeGetMsg, TypeReportPath, TypeWatchers
     DEF Next, Environment, Threads

THEOREM TypeCorrect == Spec => []TypeOK
BY TypeInit, TypeStep, PTL DEF Spec
-----------------------------------------------------------------------------
(* The inductive invariant.  A command on its way to a report is in exactly *)
(* one place: the IPC queue, the dispatcher before its switch, one of three *)
(* queues, one of two report threads, or a report.                          *)

Disp    == IF dispPc = "switch" THEN {Slot} ELSE {}
Agg     == Elems(aggWithDespQueue)
Sub     == Elems(subAggQueue)
Op      == Elems(opAggQueue)
SubBusy == IF subRep.busy THEN {subRep.for} ELSE {}
OpBusy  == IF opRep.busy THEN {opRep.for} ELSE {}
Rep     == {reports[i].for : i \in 1 .. Len(reports)}

(* Commands arrive in the order of sent: what waits in the IPC queue is     *)
(* newer than msg and than everything that has been answered.               *)
ArrivalInv ==
    /\ Slot \in 0 .. Len(sent)
    /\ Ascending(ipcQueue)
    /\ \A n \in Elems(ipcQueue) :
           /\ Slot < n /\ n <= Len(sent)
           /\ \A m \in Rep : m < n

(* msg is never older than a command some pointer was queued for.           *)
BehindInv ==
    /\ \A n \in Agg \cup Sub \cup Op : n <= Slot
    /\ subRep.busy => subRep.for <= subRep.name /\ subRep.name <= Slot
    /\ opRep.busy => opRep.for <= opRep.name /\ opRep.name <= Slot
    /\ \A i \in 1 .. Len(reports) :
           /\ reports[i].for <= reports[i].name
           /\ reports[i].name <= reports[i].type
           /\ reports[i].type <= Len(sent)

UniqueInv ==
    /\ NoDup(aggWithDespQueue) /\ NoDup(subAggQueue) /\ NoDup(opAggQueue)
    /\ Disp \cap (Agg \cup Sub \cup Op \cup SubBusy \cup OpBusy \cup Rep) = {}
    /\ Agg \cap (Sub \cup Op \cup SubBusy \cup OpBusy \cup Rep) = {}
    /\ Sub \cap (Op \cup SubBusy \cup OpBusy \cup Rep) = {}
    /\ Op \cap (SubBusy \cup OpBusy \cup Rep) = {}
    /\ SubBusy \cap (OpBusy \cup Rep) = {}
    /\ OpBusy \cap Rep = {}
    /\ \A i, j \in 1 .. Len(reports) : i # j => reports[i].for # reports[j].for

(* A user who waits has at most one command on its way, the last one.       *)
PacedInv ==
    Paced => /\ Elems(ipcQueue) \cup Disp \cup Agg \cup Sub \cup Op \subseteq {Len(sent)}
             /\ subRep.busy => subRep.for = Len(sent) /\ subRep.name = Len(sent)
             /\ opRep.busy => opRep.for = Len(sent) /\ opRep.name = Len(sent)
             /\ \A i \in 1 .. Len(reports) :
                    /\ reports[i].name = reports[i].for
                    /\ reports[i].type = reports[i].for

RequestInv == ArrivalInv /\ BehindInv /\ UniqueInv /\ PacedInv
IInv == TypeOK /\ RequestInv
-----------------------------------------------------------------------------
(* What the steps do to the places. *)

LEMMA SlotSame == taken' = taken => Slot' = Slot
BY DEF Slot

(* The same for every state function built from variables a step keeps.     *)
LEMMA PlacesSame ==
    /\ aggWithDespQueue' = aggWithDespQueue => Agg' = Agg
    /\ subAggQueue' = subAggQueue => Sub' = Sub
    /\ opAggQueue' = opAggQueue => Op' = Op
    /\ subRep' = subRep => SubBusy' = SubBusy
    /\ opRep' = opRep => OpBusy' = OpBusy
    /\ reports' = reports => Rep' = Rep
    /\ taken' = taken /\ dispPc' = dispPc => Disp' = Disp
    /\ dispPc' # "switch" => Disp' = {}
BY SlotSame DEF Agg, Sub, Op, SubBusy, OpBusy, Rep, Disp

LEMMA EmptyElems == Elems(<< >>) = {} /\ NoDup(<< >>) /\ Ascending(<< >>)
BY DEF Elems, NoDup, Ascending

LEMMA AscendingTail ==
    ASSUME NEW q \in Seq(Nat), q # << >>, Ascending(q)
    PROVE  /\ Head(q) \in Elems(q)
           /\ Ascending(Tail(q))
           /\ Elems(Tail(q)) \subseteq Elems(q)
           /\ \A n \in Elems(Tail(q)) : Head(q) < n
BY DEF Ascending, Elems

LEMMA AscendingAppend ==
    ASSUME NEW q \in Seq(Nat), NEW x \in Nat, Ascending(q),
           \A n \in Elems(q) : n < x
    PROVE  /\ Ascending(Append(q, x))
           /\ Elems(Append(q, x)) = Elems(q) \cup {x}
BY DEF Ascending, Elems

LEMMA LastOfAppend ==
    ASSUME NEW q \in Seq(Nat), NEW x \in Nat
    PROVE  Append(q, x) # << >> /\ Append(q, x)[Len(Append(q, x))] = x
BY AppendProperties

LEMMA ReceiveEffect ==
    ASSUME TypeOK, ArrivalInv, GetMsgReceive
    PROVE  /\ Slot' = Head(ipcQueue) /\ Head(ipcQueue) \in Elems(ipcQueue)
           /\ Ascending(ipcQueue') /\ Elems(ipcQueue') \subseteq Elems(ipcQueue)
           /\ \A n \in Elems(ipcQueue') : Slot' < n
           /\ Disp' = {Slot'}
           /\ UNCHANGED <<sent, aggWithDespQueue, subAggQueue, opAggQueue, subRep,
                          opRep, reports, Agg, Sub, Op, SubBusy, OpBusy, Rep>>
<1>1. ipcQueue \in Seq(Nat) /\ ipcQueue # << >> /\ ipcQueue' = Tail(ipcQueue)
  BY DEF TypeOK, GetMsgReceive
<1>2. Head(ipcQueue) \in Nat
  BY <1>1, HeadTailProperties
<1>3. taken' = Append(taken, Head(ipcQueue))
  BY DEF GetMsgReceive, NextMessage
<1>4. Slot' = Head(ipcQueue)
  <2>1. /\ Append(taken, Head(ipcQueue)) # << >>
        /\ Append(taken, Head(ipcQueue))[Len(Append(taken, Head(ipcQueue)))] = Head(ipcQueue)
    BY <1>2, LastOfAppend DEF TypeOK
  <2> QED
    BY <1>3, <2>1 DEF Slot
<1>5. Disp' = {Slot'}
  BY DEF Disp, GetMsgReceive
<1>6. UNCHANGED <<sent, aggWithDespQueue, subAggQueue, opAggQueue, subRep, opRep, reports>>
  BY DEF GetMsgReceive, uiVars, reportPath
<1> QED
  BY <1>1, <1>4, <1>5, <1>6, AscendingTail, PlacesSame DEF ArrivalInv

LEMMA ReportEffect ==
    ASSUME TypeOK, NoDup(aggWithDespQueue), GetMsgReport
    PROVE  /\ Slot' = Slot /\ Disp = {Slot} /\ Disp' = {}
           /\ Agg' = Agg \cup {Slot}
           /\ Slot \notin Agg => NoDup(aggWithDespQueue')
           /\ UNCHANGED <<sent, ipcQueue, subAggQueue, opAggQueue, subRep, opRep,
                          reports, Sub, Op, SubBusy, OpBusy, Rep>>
<1>1. aggWithDespQueue \in Seq(Nat) /\ Slot \in Nat
  BY SlotType DEF TypeOK
<1>2. aggWithDespQueue' = Append(aggWithDespQueue, Slot) /\ taken' = taken
      /\ dispPc = "switch" /\ dispPc' = "remove"
  BY DEF GetMsgReport
<1>3. UNCHANGED <<sent, ipcQueue, subAggQueue, opAggQueue, subRep, opRep, reports>>
  BY DEF GetMsgReport, uiVars
<1> QED
  BY <1>1, <1>2, <1>3, AppendEntries, PlacesSame, SlotSame DEF Agg, Disp

LEMMA AggregatorEffect ==
    ASSUME TypeOK, UniqueInv, AggregatorRepFunction
    PROVE  \E n \in Agg :
           /\ Slot' = Slot /\ n \in Nat /\ Agg' = Agg \ {n}
           /\ NoDup(aggWithDespQueue') /\ NoDup(subAggQueue') /\ NoDup(opAggQueue')
           /\ \/ Sub' = Sub /\ Op' = Op
              \/ Sub' = Sub \cup {n} /\ Op' = Op
              \/ Sub' = Sub /\ Op' = Op \cup {n}
           /\ UNCHANGED <<sent, ipcQueue, subRep, opRep, reports, Disp,
                          SubBusy, OpBusy, Rep>>
<1> DEFINE n == Head(aggWithDespQueue)
<1>1. /\ aggWithDespQueue \in Seq(Nat) /\ aggWithDespQueue # << >>
      /\ NoDup(aggWithDespQueue) /\ NoDup(subAggQueue) /\ NoDup(opAggQueue)
      /\ subAggQueue \in Seq(Nat) /\ opAggQueue \in Seq(Nat)
  BY DEF TypeOK, UniqueInv, AggregatorRepFunction
<1>2. n \in Nat /\ n \in Agg /\ Agg' = Agg \ {n} /\ NoDup(aggWithDespQueue')
  BY <1>1, TailEntries DEF Agg, AggregatorRepFunction, AfterForwarding
<1>3. n \notin Sub /\ n \notin Op
  BY <1>2 DEF UniqueInv
<1>4. UNCHANGED <<sent, ipcQueue, subRep, opRep, reports, taken, dispPc>>
  BY DEF AggregatorRepFunction, uiVars, dispVars
<1>5. UNCHANGED <<Slot, Disp, SubBusy, OpBusy, Rep>>
  BY <1>4, SlotSame, PlacesSame
<1>6. \/ subAggQueue' = subAggQueue /\ opAggQueue' = opAggQueue
      \/ subAggQueue' = Append(subAggQueue, n) /\ opAggQueue' = opAggQueue
      \/ subAggQueue' = subAggQueue /\ opAggQueue' = Append(opAggQueue, n)
  BY DEF AggregatorRepFunction, ToSubscribers, ToOperators, REP_ONE_SUB, REP_OPER
<1>7. /\ NoDup(subAggQueue') /\ NoDup(opAggQueue')
      /\ \/ Sub' = Sub /\ Op' = Op
         \/ Sub' = Sub \cup {n} /\ Op' = Op
         \/ Sub' = Sub /\ Op' = Op \cup {n}
  <2>1. Elems(Append(subAggQueue, n)) = Sub \cup {n} /\ NoDup(Append(subAggQueue, n))
    BY <1>1, <1>2, <1>3, AppendEntries DEF Sub
  <2>2. Elems(Append(opAggQueue, n)) = Op \cup {n} /\ NoDup(Append(opAggQueue, n))
    BY <1>1, <1>2, <1>3, AppendEntries DEF Op
  <2> QED
    BY <1>1, <1>6, <2>1, <2>2 DEF Sub, Op
<1> QED
  BY <1>2, <1>4, <1>5, <1>7

LEMMA SubTakeEffect ==
    ASSUME TypeOK, NoDup(subAggQueue), SubAggregatorRepTake
    PROVE  /\ Slot' = Slot /\ SubBusy = {}
           /\ subRep'.busy /\ subRep'.for \in Sub /\ subRep'.name = Slot
           /\ Sub' = Sub \ {subRep'.for} /\ SubBusy' = {subRep'.for}
           /\ NoDup(subAggQueue')
           /\ UNCHANGED <<sent, ipcQueue, aggWithDespQueue, opAggQueue, opRep,
                          reports, Disp, Agg, Op, OpBusy, Rep>>
<1>1. subAggQueue \in Seq(Nat) /\ subAggQueue # << >> /\ ~subRep.busy
  BY DEF TypeOK, SubAggregatorRepTake
<1>2. /\ subAggQueue' = Tail(subAggQueue)
      /\ subRep' = [busy |-> TRUE, for |-> Head(subAggQueue), name |-> Slot]
  BY DEF SubAggregatorRepTake, TakeRequest, FormattedName
<1>3. UNCHANGED <<sent, ipcQueue, aggWithDespQueue, opAggQueue, opRep, reports, taken, dispPc>>
  BY DEF SubAggregatorRepTake, uiVars, dispVars
<1>4. UNCHANGED <<Slot, Disp, Agg, Op, OpBusy, Rep>>
  BY <1>3, SlotSame, PlacesSame
<1>5. /\ Head(subAggQueue) \in Sub /\ NoDup(subAggQueue')
      /\ Sub' = Sub \ {Head(subAggQueue)}
  BY <1>1, <1>2, TailEntries DEF Sub
<1> QED
  BY <1>1, <1>2, <1>3, <1>4, <1>5 DEF SubBusy

LEMMA SubSwitchEffect ==
    ASSUME TypeOK, SubAggregatorRepSwitch
    PROVE  /\ Slot' = Slot /\ subRep.busy /\ ~subRep'.busy /\ SubBusy' = {}
           /\ SubBusy = {subRep.for}
           /\ \/ reports' = reports /\ Rep' = Rep
              \/ /\ Len(reports') = Len(reports) + 1
                 /\ \A i \in 1 .. Len(reports) : reports'[i] = reports[i]
                 /\ reports'[Len(reports) + 1].for = subRep.for
                 /\ reports'[Len(reports) + 1].name = subRep.name
                 /\ reports'[Len(reports) + 1].type = Slot
                 /\ Rep' = Rep \cup {subRep.for}
           /\ UNCHANGED <<sent, ipcQueue, aggWithDespQueue, subAggQueue, opAggQueue,
                          opRep, Disp, Agg, Sub, Op, OpBusy>>
<1>1. subRep.busy /\ ~subRep'.busy
  BY DEF SubAggregatorRepSwitch, TypeOK, Thread
<1>2. UNCHANGED <<sent, ipcQueue, aggWithDespQueue, subAggQueue, opAggQueue, opRep, taken, dispPc>>
  BY DEF SubAggregatorRepSwitch, uiVars, dispVars
<1>3. UNCHANGED <<Slot, Disp, Agg, Sub, Op, OpBusy>>
  BY <1>2, SlotSame, PlacesSame
<1>4. CASE reports' = reports
  BY <1>1, <1>2, <1>3, <1>4 DEF SubBusy, Rep
<1>5. CASE reports' = Append(reports, Report("subscriber", subRep))
  <2> DEFINE r == Report("subscriber", subRep)
  <2>1. r \in Record /\ r.for = subRep.for /\ r.name = subRep.name /\ r.type = Slot
    BY SlotType DEF TypeOK, Report, Record, Thread
  <2>2. /\ Len(reports') = Len(reports) + 1 /\ Len(reports) \in Nat
        /\ \A i \in 1 .. Len(reports) : reports'[i] = reports[i]
        /\ reports'[Len(reports) + 1] = r
    BY <1>5, <2>1, AppendProperties, LenProperties DEF TypeOK
  <2>3. 1 .. Len(reports') = (1 .. Len(reports)) \cup {Len(reports) + 1}
    BY <2>2
  <2>4. Rep' = Rep \cup {subRep.for}
    BY <2>1, <2>2, <2>3 DEF Rep
  <2> QED
    BY <1>1, <1>2, <1>3, <2>1, <2>2, <2>4 DEF SubBusy
<1> QED
  BY <1>4, <1>5 DEF SubAggregatorRepSwitch

LEMMA OpTakeEffect ==
    ASSUME TypeOK, NoDup(opAggQueue), OpAggregatorRepTake
    PROVE  /\ Slot' = Slot /\ OpBusy = {}
           /\ opRep'.busy /\ opRep'.for \in Op /\ opRep'.name = Slot
           /\ Op' = Op \ {opRep'.for} /\ OpBusy' = {opRep'.for}
           /\ NoDup(opAggQueue')
           /\ UNCHANGED <<sent, ipcQueue, aggWithDespQueue, subAggQueue, subRep,
                          reports, Disp, Agg, Sub, SubBusy, Rep>>
<1>1. opAggQueue \in Seq(Nat) /\ opAggQueue # << >> /\ ~opRep.busy
  BY DEF TypeOK, OpAggregatorRepTake
<1>2. /\ opAggQueue' = Tail(opAggQueue)
      /\ opRep' = [busy |-> TRUE, for |-> Head(opAggQueue), name |-> Slot]
  BY DEF OpAggregatorRepTake, TakeRequest, FormattedName
<1>3. UNCHANGED <<sent, ipcQueue, aggWithDespQueue, subAggQueue, subRep, reports, taken, dispPc>>
  BY DEF OpAggregatorRepTake, uiVars, dispVars
<1>4. UNCHANGED <<Slot, Disp, Agg, Sub, SubBusy, Rep>>
  BY <1>3, SlotSame, PlacesSame
<1>5. /\ Head(opAggQueue) \in Op /\ NoDup(opAggQueue')
      /\ Op' = Op \ {Head(opAggQueue)}
  BY <1>1, <1>2, TailEntries DEF Op
<1> QED
  BY <1>1, <1>2, <1>3, <1>4, <1>5 DEF OpBusy

LEMMA OpSwitchEffect ==
    ASSUME TypeOK, OpAggregatorRepSwitch
    PROVE  /\ Slot' = Slot /\ opRep.busy /\ ~opRep'.busy /\ OpBusy' = {}
           /\ OpBusy = {opRep.for}
           /\ \/ reports' = reports /\ Rep' = Rep
              \/ /\ Len(reports') = Len(reports) + 1
                 /\ \A i \in 1 .. Len(reports) : reports'[i] = reports[i]
                 /\ reports'[Len(reports) + 1].for = opRep.for
                 /\ reports'[Len(reports) + 1].name = opRep.name
                 /\ reports'[Len(reports) + 1].type = Slot
                 /\ Rep' = Rep \cup {opRep.for}
           /\ UNCHANGED <<sent, ipcQueue, aggWithDespQueue, subAggQueue, opAggQueue,
                          subRep, Disp, Agg, Sub, Op, SubBusy>>
<1>1. opRep.busy /\ ~opRep'.busy
  BY DEF OpAggregatorRepSwitch, TypeOK, Thread
<1>2. UNCHANGED <<sent, ipcQueue, aggWithDespQueue, subAggQueue, opAggQueue, subRep, taken, dispPc>>
  BY DEF OpAggregatorRepSwitch, uiVars, dispVars
<1>3. UNCHANGED <<Slot, Disp, Agg, Sub, Op, SubBusy>>
  BY <1>2, SlotSame, PlacesSame
<1>4. CASE reports' = reports
  BY <1>1, <1>2, <1>3, <1>4 DEF OpBusy, Rep
<1>5. CASE reports' = Append(reports, Report("operator", opRep))
  <2> DEFINE r == Report("operator", opRep)
  <2>1. r \in Record /\ r.for = opRep.for /\ r.name = opRep.name /\ r.type = Slot
    BY SlotType DEF TypeOK, Report, Record, Thread
  <2>2. /\ Len(reports') = Len(reports) + 1 /\ Len(reports) \in Nat
        /\ \A i \in 1 .. Len(reports) : reports'[i] = reports[i]
        /\ reports'[Len(reports) + 1] = r
    BY <1>5, <2>1, AppendProperties, LenProperties DEF TypeOK
  <2>3. 1 .. Len(reports') = (1 .. Len(reports)) \cup {Len(reports) + 1}
    BY <2>2
  <2>4. Rep' = Rep \cup {opRep.for}
    BY <2>1, <2>2, <2>3 DEF Rep
  <2> QED
    BY <1>1, <1>2, <1>3, <2>1, <2>2, <2>4 DEF OpBusy
<1> QED
  BY <1>4, <1>5 DEF OpAggregatorRepSwitch

(* Steps that only move the dispatcher past its switch, or move a watcher   *)
(* thread, or nothing.                                                      *)
Quiet ==
    \/ GetMsgToDataWatcher \/ GetMsgSetFlag \/ GetMsgToFileWatcher \/ GetMsgIgnore
    \/ DataWatcherCommandTake \/ DataWatcherCommandLock
    \/ FileWatcherForpauseTake \/ FileWatcherForpauseCheck \/ SpuriousWakeup
    \/ UNCHANGED vars

SameRequests ==
    /\ UNCHANGED <<sent, aggWithDespQueue, subAggQueue, opAggQueue, subRep, opRep, reports>>
    /\ UNCHANGED <<Slot, Agg, Sub, Op, SubBusy, OpBusy, Rep>>

LEMMA QuietEffect ==
    ASSUME Quiet
    PROVE  SameRequests /\ ipcQueue' = ipcQueue /\ (Disp' = Disp \/ Disp' = {})
<1>1. /\ UNCHANGED <<sent, ipcQueue, taken, aggWithDespQueue, subAggQueue, opAggQueue,
                     subRep, opRep, reports>>
      /\ dispPc' = dispPc \/ dispPc' # "switch"
  <2> USE DEF uiVars, rtVars, dispVars, reportPath
  <2>1. CASE GetMsgToDataWatcher \/ GetMsgSetFlag \/ GetMsgToFileWatcher \/ GetMsgIgnore
    BY <2>1 DEF GetMsgToDataWatcher, GetMsgSetFlag, GetMsgToFileWatcher, GetMsgIgnore
  <2>2. CASE DataWatcherCommandTake \/ DataWatcherCommandLock
    BY <2>2 DEF DataWatcherCommandTake, DataWatcherCommandLock
  <2>3. CASE FileWatcherForpauseTake \/ FileWatcherForpauseCheck \/ SpuriousWakeup
    BY <2>3 DEF FileWatcherForpauseTake, FileWatcherForpauseCheck, SpuriousWakeup
  <2>4. CASE UNCHANGED vars
    BY <2>4 DEF vars
  <2> QED
    BY <2>1, <2>2, <2>3, <2>4 DEF Quiet
<1> QED
  BY <1>1, SlotSame, PlacesSame DEF SameRequests

LEMMA AttachEffect ==
    ASSUME UserInterfaceCreate \/ DispatcherCreate
    PROVE  SameRequests /\ ipcQueue' = << >> /\ Disp' = Disp
<1>1. UNCHANGED <<sent, taken, dispPc, aggWithDespQueue, subAggQueue, opAggQueue,
                  subRep, opRep, reports>>
  BY DEF UserInterfaceCreate, DispatcherCreate, uiVars, dispVars, reportPath
<1>2. ipcQueue' = << >>
  BY DEF UserInterfaceCreate, DispatcherCreate, GetSharedIPCQueue
<1> QED
  BY <1>1, <1>2, SlotSame, PlacesSame DEF SameRequests

LEMMA EndEffect ==
    ASSUME EndRT
    PROVE  /\ Slot' = 0 /\ Disp' = {} /\ Agg' = {} /\ Sub' = {} /\ Op' = {}
           /\ ~subRep'.busy /\ ~opRep'.busy /\ SubBusy' = {} /\ OpBusy' = {}
           /\ NoDup(aggWithDespQueue') /\ NoDup(subAggQueue') /\ NoDup(opAggQueue')
           /\ UNCHANGED <<sent, ipcQueue, reports, Rep>>
<1>1. /\ taken' = << >> /\ dispPc' = "remove"
      /\ aggWithDespQueue' = << >> /\ subAggQueue' = << >> /\ opAggQueue' = << >>
      /\ subRep' = IdleReader /\ opRep' = IdleReader
      /\ UNCHANGED <<sent, ipcQueue, reports>>
  BY DEF EndRT, uiVars
<1>2. ~IdleReader.busy
  BY DEF IdleReader
<1> QED
  BY <1>1, <1>2, EmptyElems DEF Slot, Disp, Agg, Sub, Op, SubBusy, OpBusy, Rep

LEMMA GetCommandEffect ==
    ASSUME TypeOK, ArrivalInv, NEW input \in UserInputs, GetCommand(input)
    PROVE  /\ Len(sent') = Len(sent) + 1
           /\ Ascending(ipcQueue')
           /\ Elems(ipcQueue') = Elems(ipcQueue) \cup {Len(sent) + 1}
           /\ Disp' = Disp
           /\ UNCHANGED <<aggWithDespQueue, subAggQueue, opAggQueue, subRep, opRep, reports>>
           /\ UNCHANGED <<Slot, Agg, Sub, Op, SubBusy, OpBusy, Rep>>
           /\ Paced => /\ Elems(ipcQueue) = {} /\ Disp = {} /\ Agg = {}
                       /\ Sub = {} /\ Op = {} /\ ~subRep.busy /\ ~opRep.busy
<1>1. /\ sent' = Append(sent, SentCommand(input))
      /\ ipcQueue' = Append(ipcQueue, Len(sent) + 1)
      /\ Paced => Settled
  BY DEF GetCommand
<1>2. UNCHANGED <<aggWithDespQueue, subAggQueue, opAggQueue, subRep, opRep, reports, taken, dispPc>>
  BY DEF GetCommand, dispVars, reportPath
<1>3. SentCommand(input) \in SentWord /\ sent \in Seq(SentWord) /\ ipcQueue \in Seq(Nat)
  BY EncodeInRange, CommandPathAssumption DEF TypeOK
<1>4. Len(sent) \in Nat /\ Len(sent') = Len(sent) + 1
  BY <1>1, <1>3, AppendProperties, LenProperties
<1>5. \A n \in Elems(ipcQueue) : n < Len(sent) + 1
  <2>1. Elems(ipcQueue) \subseteq Nat
    BY <1>3 DEF Elems
  <2> QED
    BY <2>1, <1>4 DEF ArrivalInv
<1>6. Paced => /\ Elems(ipcQueue) = {} /\ Disp = {} /\ Agg = {}
               /\ Sub = {} /\ Op = {} /\ ~subRep.busy /\ ~opRep.busy
  BY <1>1, EmptyElems DEF Settled, ReportPathIdle, Disp, Agg, Sub, Op
<1> QED
  BY <1>1, <1>2, <1>3, <1>4, <1>5, <1>6, AscendingAppend, SlotSame, PlacesSame DEF ArrivalInv
-----------------------------------------------------------------------------
(* The invariant is inductive. *)

LEMMA NaturalPlaces ==
    ASSUME TypeOK
    PROVE  /\ Len(sent) \in Nat /\ Slot \in Nat /\ Len(reports) \in Nat
           /\ Elems(ipcQueue) \subseteq Nat
           /\ Agg \subseteq Nat /\ Sub \subseteq Nat /\ Op \subseteq Nat
           /\ subRep.for \in Nat /\ subRep.name \in Nat
           /\ opRep.for \in Nat /\ opRep.name \in Nat
           /\ \A i \in 1 .. Len(reports) : /\ reports[i].for \in Nat
                                           /\ reports[i].name \in Nat
                                           /\ reports[i].type \in Nat
           /\ Rep \subseteq Nat
<1>1. Len(sent) \in Nat /\ Len(reports) \in Nat /\ Slot \in Nat
  BY LenProperties, SlotType DEF TypeOK
<1>2. /\ Elems(ipcQueue) \subseteq Nat
      /\ Agg \subseteq Nat /\ Sub \subseteq Nat /\ Op \subseteq Nat
  BY ElemsNat DEF TypeOK, Agg, Sub, Op
<1>3. \A i \in 1 .. Len(reports) : reports[i] \in Record
  BY ElementOfSeq DEF TypeOK
<1>4. \A i \in 1 .. Len(reports) : /\ reports[i].for \in Nat
                                   /\ reports[i].name \in Nat
                                   /\ reports[i].type \in Nat
  BY <1>3 DEF Record
<1> QED
  BY <1>1, <1>2, <1>4 DEF TypeOK, Thread, Rep

LEMMA InvInit == Init => RequestInv
<1> SUFFICES ASSUME Init PROVE RequestInv
  OBVIOUS
<1>1. /\ sent = << >> /\ Slot = 0 /\ Elems(ipcQueue) = {} /\ Ascending(ipcQueue)
      /\ Disp = {} /\ Agg = {} /\ Sub = {} /\ Op = {}
      /\ NoDup(aggWithDespQueue) /\ NoDup(subAggQueue) /\ NoDup(opAggQueue)
      /\ ~subRep.busy /\ ~opRep.busy /\ SubBusy = {} /\ OpBusy = {} /\ reports = << >>
  BY EmptyElems DEF Init, IdleReader, Slot, Disp, Agg, Sub, Op, SubBusy, OpBusy
<1>2. Len(sent) = 0 /\ Len(reports) = 0
  BY <1>1
<1>3. Rep = {}
  BY <1>2 DEF Rep
<1> QED
  BY <1>1, <1>2, <1>3 DEF RequestInv, ArrivalInv, BehindInv, UniqueInv, PacedInv

LEMMA InvQuiet == ASSUME IInv, Quiet PROVE RequestInv'
<1> USE QuietEffect DEF IInv, RequestInv, SameRequests
<1>1. ArrivalInv'
  BY DEF ArrivalInv
<1>2. BehindInv'
  BY DEF BehindInv
<1>3. UniqueInv'
  BY DEF UniqueInv
<1>4. PacedInv'
  BY DEF PacedInv
<1> QED
  BY <1>1, <1>2, <1>3, <1>4

LEMMA InvAttach ==
    ASSUME IInv, UserInterfaceCreate \/ DispatcherCreate PROVE RequestInv'
<1> USE AttachEffect, EmptyElems DEF IInv, RequestInv, SameRequests
<1>1. ArrivalInv'
  BY DEF ArrivalInv
<1>2. BehindInv'
  BY DEF BehindInv
<1>3. UniqueInv'
  BY DEF UniqueInv
<1>4. PacedInv'
  BY DEF PacedInv
<1> QED
  BY <1>1, <1>2, <1>3, <1>4

LEMMA InvEnd == ASSUME IInv, EndRT PROVE RequestInv'
<1> USE EndEffect, NaturalPlaces DEF IInv, RequestInv
<1>1. ArrivalInv'
  BY DEF ArrivalInv
<1>2. BehindInv'
  BY DEF BehindInv
<1>3. UniqueInv'
  BY DEF UniqueInv
<1>4. PacedInv'
  BY DEF PacedInv
<1> QED
  BY <1>1, <1>2, <1>3, <1>4

LEMMA InvGetCommand ==
    ASSUME IInv, NEW input \in UserInputs, GetCommand(input) PROVE RequestInv'
<1> USE GetCommandEffect, NaturalPlaces DEF IInv, RequestInv
<1>1. ArrivalInv'
  BY DEF ArrivalInv, BehindInv, Rep
<1>2. BehindInv'
  BY DEF BehindInv
<1>3. UniqueInv'
  BY DEF UniqueInv
<1>4. PacedInv'
  BY DEF PacedInv
<1> QED
  BY <1>1, <1>2, <1>3, <1>4

LEMMA InvReceive == ASSUME IInv, GetMsgReceive PROVE RequestInv'
<1> USE ReceiveEffect, NaturalPlaces DEF IInv, RequestInv
<1>1. ArrivalInv'
  BY DEF ArrivalInv
<1>2. BehindInv'
  BY DEF BehindInv, ArrivalInv
<1>3. UniqueInv'
  <2>1. Slot' \notin Agg \cup Sub \cup Op \cup SubBusy \cup OpBusy \cup Rep
    BY DEF ArrivalInv, BehindInv, SubBusy, OpBusy
  <2> QED
    BY <2>1 DEF UniqueInv
<1>4. PacedInv'
  BY DEF PacedInv
<1> QED
  BY <1>1, <1>2, <1>3, <1>4

LEMMA InvReport == ASSUME IInv, GetMsgReport PROVE RequestInv'
<1> USE ReportEffect, NaturalPlaces DEF IInv, RequestInv
<1>1. NoDup(aggWithDespQueue)
  BY DEF UniqueInv
<1>2. ArrivalInv'
  BY <1>1 DEF ArrivalInv
<1>3. BehindInv'
  BY <1>1 DEF BehindInv
<1>4. UniqueInv'
  BY <1>1 DEF UniqueInv
<1>5. PacedInv'
  BY <1>1 DEF PacedInv
<1> QED
  BY <1>2, <1>3, <1>4, <1>5

LEMMA InvAggregator == ASSUME IInv, AggregatorRepFunction PROVE RequestInv'
<1> USE NaturalPlaces DEF IInv, RequestInv
<1> PICK n \in Agg :
           /\ Slot' = Slot /\ n \in Nat /\ Agg' = Agg \ {n}
           /\ NoDup(aggWithDespQueue') /\ NoDup(subAggQueue') /\ NoDup(opAggQueue')
           /\ \/ Sub' = Sub /\ Op' = Op
              \/ Sub' = Sub \cup {n} /\ Op' = Op
              \/ Sub' = Sub /\ Op' = Op \cup {n}
           /\ UNCHANGED <<sent, ipcQueue, subRep, opRep, reports, Disp,
                          SubBusy, OpBusy, Rep>>
  BY AggregatorEffect
<1>1. ArrivalInv'
  BY DEF ArrivalInv
<1>2. BehindInv'
  BY DEF BehindInv
<1>3. UniqueInv'
  BY DEF UniqueInv
<1>4. PacedInv'
  BY DEF PacedInv
<1> QED
  BY <1>1, <1>2, <1>3, <1>4

LEMMA InvSubTake == ASSUME IInv, SubAggregatorRepTake PROVE RequestInv'
<1> USE SubTakeEffect, NaturalPlaces DEF IInv, RequestInv
<1>1. NoDup(subAggQueue)
  BY DEF UniqueInv
<1>2. ArrivalInv'
  BY <1>1 DEF ArrivalInv
<1>3. BehindInv'
  BY <1>1 DEF BehindInv
<1>4. UniqueInv'
  BY <1>1 DEF UniqueInv
<1>5. PacedInv'
  <2>1. Paced => Slot = Len(sent)
    BY <1>1 DEF PacedInv, BehindInv, ArrivalInv
  <2> QED
    BY <1>1, <2>1 DEF PacedInv
<1> QED
  BY <1>2, <1>3, <1>4, <1>5

LEMMA InvSubSwitch == ASSUME IInv, SubAggregatorRepSwitch PROVE RequestInv'
<1> USE NaturalPlaces DEF IInv, RequestInv
<1>0. SubAggregatorRepSwitch
  OBVIOUS
<1>1. /\ Slot' = Slot /\ subRep.busy /\ ~subRep'.busy /\ SubBusy' = {}
      /\ SubBusy = {subRep.for}
      /\ UNCHANGED <<sent, ipcQueue, aggWithDespQueue, subAggQueue, opAggQueue,
                     opRep, Disp, Agg, Sub, Op, OpBusy>>
  BY SubSwitchEffect
<1>2. CASE reports' = reports /\ Rep' = Rep
  BY <1>1, <1>2 DEF ArrivalInv, BehindInv, UniqueInv, PacedInv
<1>3. CASE /\ Len(reports') = Len(reports) + 1
           /\ \A i \in 1 .. Len(reports) : reports'[i] = reports[i]
           /\ reports'[Len(reports) + 1].for = subRep.for
           /\ reports'[Len(reports) + 1].name = subRep.name
           /\ reports'[Len(reports) + 1].type = Slot
           /\ Rep' = Rep \cup {subRep.for}
  <2>1. 1 .. Len(reports') = (1 .. Len(reports)) \cup {Len(reports) + 1}
    BY <1>3
  <2>2. ArrivalInv'
    BY <1>1, <1>3 DEF ArrivalInv, BehindInv
  <2>3. BehindInv'
    BY <1>1, <1>3, <2>1 DEF BehindInv, ArrivalInv
  <2>4. UniqueInv'
    <3>1. \A i \in 1 .. Len(reports) : reports[i].for # subRep.for
      BY <1>1 DEF UniqueInv, Rep
    <3>2. (\A i, j \in 1 .. Len(reports) : i # j => reports[i].for # reports[j].for)'
      BY <1>3, <2>1, <3>1 DEF UniqueInv
    <3> QED
      BY <1>1, <1>3, <3>2 DEF UniqueInv
  <2>5. PacedInv'
    <3>1. Paced => Slot = Len(sent)
      BY <1>1 DEF PacedInv, BehindInv, ArrivalInv
    <3> QED
      BY <1>1, <1>3, <2>1, <3>1 DEF PacedInv
  <2> QED
    BY <2>2, <2>3, <2>4, <2>5
<1> QED
  BY <1>2, <1>3, SubSwitchEffect

LEMMA InvOpTake == ASSUME IInv, OpAggregatorRepTake PROVE RequestInv'
<1> USE OpTakeEffect, NaturalPlaces DEF IInv, RequestInv
<1>1. NoDup(opAggQueue)
  BY DEF UniqueInv
<1>2. ArrivalInv'
  BY <1>1 DEF ArrivalInv
<1>3. BehindInv'
  BY <1>1 DEF BehindInv
<1>4. UniqueInv'
  BY <1>1 DEF UniqueInv
<1>5. PacedInv'
  <2>1. Paced => Slot = Len(sent)
    BY <1>1 DEF PacedInv, BehindInv, ArrivalInv
  <2> QED
    BY <1>1, <2>1 DEF PacedInv
<1> QED
  BY <1>2, <1>3, <1>4, <1>5

LEMMA InvOpSwitch == ASSUME IInv, OpAggregatorRepSwitch PROVE RequestInv'
<1> USE NaturalPlaces DEF IInv, RequestInv
<1>0. OpAggregatorRepSwitch
  OBVIOUS
<1>1. /\ Slot' = Slot /\ opRep.busy /\ ~opRep'.busy /\ OpBusy' = {}
      /\ OpBusy = {opRep.for}
      /\ UNCHANGED <<sent, ipcQueue, aggWithDespQueue, subAggQueue, opAggQueue,
                     subRep, Disp, Agg, Sub, Op, SubBusy>>
  BY OpSwitchEffect
<1>2. CASE reports' = reports /\ Rep' = Rep
  BY <1>1, <1>2 DEF ArrivalInv, BehindInv, UniqueInv, PacedInv
<1>3. CASE /\ Len(reports') = Len(reports) + 1
           /\ \A i \in 1 .. Len(reports) : reports'[i] = reports[i]
           /\ reports'[Len(reports) + 1].for = opRep.for
           /\ reports'[Len(reports) + 1].name = opRep.name
           /\ reports'[Len(reports) + 1].type = Slot
           /\ Rep' = Rep \cup {opRep.for}
  <2>1. 1 .. Len(reports') = (1 .. Len(reports)) \cup {Len(reports) + 1}
    BY <1>3
  <2>2. ArrivalInv'
    BY <1>1, <1>3 DEF ArrivalInv, BehindInv
  <2>3. BehindInv'
    BY <1>1, <1>3, <2>1 DEF BehindInv, ArrivalInv
  <2>4. UniqueInv'
    <3>1. \A i \in 1 .. Len(reports) : reports[i].for # opRep.for
      BY <1>1 DEF UniqueInv, Rep
    <3>2. (\A i, j \in 1 .. Len(reports) : i # j => reports[i].for # reports[j].for)'
      BY <1>3, <2>1, <3>1 DEF UniqueInv
    <3> QED
      BY <1>1, <1>3, <3>2 DEF UniqueInv
  <2>5. PacedInv'
    <3>1. Paced => Slot = Len(sent)
      BY <1>1 DEF PacedInv, BehindInv, ArrivalInv
    <3> QED
      BY <1>1, <1>3, <2>1, <3>1 DEF PacedInv
  <2> QED
    BY <2>2, <2>3, <2>4, <2>5
<1> QED
  BY <1>2, <1>3, OpSwitchEffect

LEMMA InvStep == IInv /\ [Next]_vars => IInv'
<1> SUFFICES ASSUME IInv, [Next]_vars PROVE IInv'
  OBVIOUS
<1>1. TypeOK'
  BY TypeStep DEF IInv
<1>2. CASE RTKilled \/ OpAggregatorRepOverrun
  BY <1>1, <1>2, InvEnd DEF IInv, RTKilled, OpAggregatorRepOverrun
<1>3. CASE \E input \in UserInputs : GetCommand(input)
  BY <1>1, <1>3, InvGetCommand DEF IInv
<1>4. CASE Quiet
  BY <1>1, <1>4, InvQuiet DEF IInv
<1>5. CASE UserInterfaceCreate \/ DispatcherCreate
  BY <1>1, <1>5, InvAttach DEF IInv
<1>6. CASE GetMsgReceive \/ GetMsgReport
  BY <1>1, <1>6, InvReceive, InvReport DEF IInv
<1>7. CASE AggregatorRepFunction
  BY <1>1, <1>7, InvAggregator DEF IInv
<1>8. CASE SubAggregatorRepTake \/ SubAggregatorRepSwitch
  BY <1>1, <1>8, InvSubTake, InvSubSwitch DEF IInv
<1>9. CASE OpAggregatorRepTake \/ OpAggregatorRepSwitch
  BY <1>1, <1>9, InvOpTake, InvOpSwitch DEF IInv
<1> QED
  BY <1>2, <1>3, <1>4, <1>5, <1>6, <1>7, <1>8, <1>9
     DEF Next, Environment, Threads, GetMsg, Quiet

LEMMA Invariance == Spec => []IInv
<1>1. Init => IInv
  BY TypeInit, InvInit DEF IInv
<1> QED
  BY <1>1, InvStep, PTL DEF Spec

(* The type and the name that a report was made from are never older than   *)
(* the command it was asked for, whatever is overwritten in between.        *)
THEOREM ReportsNeverOlder == Spec => []ReadsNeverOlder
<1>1. IInv => ReadsNeverOlder
  BY LenProperties DEF IInv, RequestInv, BehindInv, ReadsNeverOlder, TypeOK
<1> QED
  BY <1>1, Invariance, PTL

(* No request gives two reports, for any user, any number of restarts and   *)
(* any capacity of the IPC queue.                                           *)
THEOREM OneReportPerCommand == Spec => []AtMostOneReport
<1>1. IInv => AtMostOneReport
  BY LenProperties DEF IInv, RequestInv, UniqueInv, AtMostOneReport, TypeOK
<1> QED
  BY <1>1, Invariance, PTL

(* Waiting for a command to finish before entering the next is enough: then *)
(* the shared msg does no harm and every report is for its own command.     *)
THEOREM WaitingIsEnough == Spec => []HonouredWhenPaced
<1>1. IInv => HonouredWhenPaced
  BY LenProperties DEF IInv, RequestInv, PacedInv, HonouredWhenPaced, TypeOK
<1> QED
  BY <1>1, Invariance, PTL
=============================================================================
