--------------------------- MODULE Toggles_proofs ---------------------------
(***************************************************************************)
(* Theorems about PAUSE and RESUME on the command path: what it takes to   *)
(* stop the dispatcher, and what a user who waits may rely on although the *)
(* dispatcher's flag and the data watcher's mutex are set over two queues. *)
(***************************************************************************)
EXTENDS CommandPath_proofs, FiniteSetTheorems
-----------------------------------------------------------------------------
(* What the steps leave alone. *)

pauseState == <<isPause, dwCmdQueue, fwCmdQueue, dwPc, dwMutex, fwPc>>
received == <<sent, ipcQueue, taken>>

LEMMA ReportPathKeeps ==
    ASSUME \/ AggregatorRepFunction \/ SubAggregatorRepTake \/ SubAggregatorRepSwitch
           \/ OpAggregatorRepTake \/ OpAggregatorRepSwitch
    PROVE  UNCHANGED <<received, dispPc, pauseState>>
<1> USE DEF uiVars, dispVars, watcherVars, received, pauseState
<1>1. CASE AggregatorRepFunction
  BY <1>1 DEF AggregatorRepFunction
<1>2. CASE SubAggregatorRepTake \/ SubAggregatorRepSwitch
  BY <1>2 DEF SubAggregatorRepTake, SubAggregatorRepSwitch
<1>3. CASE OpAggregatorRepTake \/ OpAggregatorRepSwitch
  BY <1>3 DEF OpAggregatorRepTake, OpAggregatorRepSwitch
<1> QED
  BY <1>1, <1>2, <1>3

LEMMA AttachKeeps ==
    ASSUME UserInterfaceCreate \/ DispatcherCreate
    PROVE  ipcQueue' = << >> /\ UNCHANGED <<sent, taken, dispPc, pauseState>>
BY DEF UserInterfaceCreate, DispatcherCreate, GetSharedIPCQueue, uiVars, dispVars,
       watcherVars, pauseState

LEMMA FileWatcherKeeps ==
    ASSUME FileWatcherForpauseTake \/ FileWatcherForpauseCheck \/ SpuriousWakeup
    PROVE  UNCHANGED <<received, dispPc, isPause, dwCmdQueue, dwPc, dwMutex>>
BY DEF FileWatcherForpauseTake, FileWatcherForpauseCheck, SpuriousWakeup, uiVars, dispVars,
       received

(* A report command, or one with no case, changes only the dispatcher.      *)
LEMMA PassedOver ==
    ASSUME GetMsgReport \/ GetMsgIgnore
    PROVE  /\ dispPc = "switch" /\ dispPc' = "remove" /\ TypeAt(Slot) \notin ToggleTypes
           /\ UNCHANGED <<received, pauseState>>
BY DEF GetMsgReport, GetMsgIgnore, ReportTypes, ToggleTypes, REP_ONE_SUB, REP_MANY_SUBS,
       REP_OPER, REP_MANY_OPERS, PAUSE, RESUME, uiVars, watcherVars, received, pauseState

LEMMA TypeAtSame ==
    ASSUME UNCHANGED <<sent, taken>>
    PROVE  /\ Slot' = Slot /\ TypeAt(Slot)' = TypeAt(Slot)
           /\ \A i : TypeAt(taken[i])' = TypeAt(taken[i])
BY DEF Slot, TypeAt

(* The number of an entry of a queue that is being emptied or filled.       *)
LEMMA QueueLengths ==
    ASSUME NEW q \in Seq(Nat)
    PROVE  /\ Len(q) \in Nat /\ DOMAIN q = 1 .. Len(q)
           /\ q # << >> => Len(Tail(q)) = Len(q) - 1 /\ Len(q) > 0
           /\ \A x \in Nat : Len(Append(q, x)) = Len(q) + 1
OBVIOUS
-----------------------------------------------------------------------------
(* The commands that have been taken are commands that were sent. *)

TakenInv ==
    /\ \A i \in 1 .. Len(taken) : taken[i] \in 1 .. Len(sent)
    /\ dispPc # "remove" => taken # << >>

LEMMA TakenReceive ==
    ASSUME IInv, TakenInv, GetMsgReceive
    PROVE  /\ Len(taken') = Len(taken) + 1 /\ Len(taken) \in Nat
           /\ \A i \in 1 .. Len(taken) : taken'[i] = taken[i]
           /\ taken'[Len(taken) + 1] = Slot' /\ Slot' \in 1 .. Len(sent)
           /\ dispPc = "remove" /\ dispPc' = "switch" /\ ipcQueue # << >>
           /\ Len(ipcQueue') = Len(ipcQueue) - 1
           /\ UNCHANGED <<sent, pauseState>>
<1>1. /\ ipcQueue \in Seq(Nat) /\ ipcQueue # << >> /\ taken \in Seq(Nat)
      /\ taken' = Append(taken, Head(ipcQueue)) /\ ipcQueue' = Tail(ipcQueue)
      /\ dispPc = "remove" /\ dispPc' = "switch"
      /\ UNCHANGED <<sent, pauseState>>
  BY DEF IInv, TypeOK, GetMsgReceive, NextMessage, uiVars, watcherVars, pauseState
<1>2. Head(ipcQueue) \in Nat /\ Head(ipcQueue) \in Elems(ipcQueue) /\ Slot' = Head(ipcQueue)
  BY <1>1, ReceiveEffect, HeadTailProperties DEF IInv, RequestInv
<1>3. Head(ipcQueue) \in 1 .. Len(sent)
  BY <1>2, NaturalPlaces DEF IInv, RequestInv, ArrivalInv
<1> QED
  BY <1>1, <1>2, <1>3

LEMMA SentGrows ==
    ASSUME TypeOK, NEW input \in UserInputs, GetCommand(input)
    PROVE  /\ Len(sent') = Len(sent) + 1 /\ Len(sent) \in Nat
           /\ \A n \in 1 .. Len(sent) : sent'[n] = sent[n]
           /\ Len(ipcQueue') = Len(ipcQueue) + 1
           /\ UNCHANGED <<taken, dispPc, pauseState>>
<1>1. SentCommand(input) \in SentWord
  BY EncodeInRange, CommandPathAssumption
<1>2. sent \in Seq(SentWord) /\ sent' = Append(sent, SentCommand(input))
      /\ ipcQueue \in Seq(Nat) /\ ipcQueue' = Append(ipcQueue, Len(sent) + 1)
  BY DEF TypeOK, GetCommand
<1>3. UNCHANGED <<taken, dispPc, pauseState>>
  BY DEF GetCommand, dispVars, watcherVars, pauseState
<1> QED
  BY <1>1, <1>2, <1>3, AppendProperties, LenProperties

LEMMA TakenStep == IInv /\ TakenInv /\ [Next]_vars => TakenInv'
<1> SUFFICES ASSUME IInv, TakenInv, [Next]_vars PROVE TakenInv'
  OBVIOUS
<1>1. CASE RTKilled \/ OpAggregatorRepOverrun
  BY <1>1 DEF RTKilled, OpAggregatorRepOverrun, EndRT, TakenInv
<1>2. ASSUME NEW input \in UserInputs, GetCommand(input) PROVE TakenInv'
  BY <1>2, SentGrows DEF IInv, TakenInv
<1>3. CASE UserInterfaceCreate \/ DispatcherCreate
  BY <1>3, AttachKeeps DEF TakenInv
<1>4. CASE GetMsgReceive
  <2>1. taken' # << >>
    BY <1>4, TakenReceive
  <2> QED
    BY <1>4, <2>1, TakenReceive DEF TakenInv
<1>5. CASE GetMsgReport \/ GetMsgIgnore
  BY <1>5, PassedOver DEF TakenInv, received
<1>6. CASE GetMsgToDataWatcher \/ GetMsgSetFlag \/ GetMsgToFileWatcher
  BY <1>6 DEF GetMsgToDataWatcher, GetMsgSetFlag, GetMsgToFileWatcher, TakenInv, uiVars
<1>7. CASE DataWatcherCommandTake \/ DataWatcherCommandLock
  BY <1>7 DEF DataWatcherCommandTake, DataWatcherCommandLock, TakenInv, uiVars, dispVars
<1>8. CASE FileWatcherForpauseTake \/ FileWatcherForpauseCheck \/ SpuriousWakeup
  BY <1>8, FileWatcherKeeps DEF TakenInv, received
<1>9. CASE \/ AggregatorRepFunction \/ SubAggregatorRepTake \/ SubAggregatorRepSwitch
           \/ OpAggregatorRepTake \/ OpAggregatorRepSwitch
  BY <1>9, ReportPathKeeps DEF TakenInv, received
<1>10. CASE UNCHANGED vars
  BY <1>10 DEF vars, TakenInv, uiVars, dispVars
<1> QED
  BY <1>1, <1>2, <1>3, <1>4, <1>5, <1>6, <1>7, <1>8, <1>9, <1>10
     DEF Next, Environment, Threads, GetMsg
-----------------------------------------------------------------------------
(* What stops the dispatcher.  Each toggle that was received puts one       *)
(* pointer into each of the two queues; a pointer is queued, or held by the *)
(* thread that has taken it, or still to be inserted.                       *)

Toggled == {i \in DOMAIN taken : TypeAt(taken[i]) \in ToggleTypes}

One(b) == IF b THEN 1 ELSE 0
AtHand == dispPc = "switch" /\ TypeAt(Slot) \in ToggleTypes

DataWatcherDebt == Len(dwCmdQueue) + One(dwPc = "lock") + One(AtHand)
FileWatcherDebt ==
    Len(fwCmdQueue) + One(fwPc # "remove") + One(AtHand \/ dispPc \in {"flag", "fileWatcher"})

DebtInv ==
    /\ DataWatcherDebt <= Cardinality(Toggled)
    /\ FileWatcherDebt <= Cardinality(Toggled)

LEMMA DebtsAreNatural ==
    TypeOK => /\ DataWatcherDebt \in Nat /\ FileWatcherDebt \in Nat
              /\ Len(dwCmdQueue) \in Nat /\ Len(fwCmdQueue) \in Nat
              /\ IsFiniteSet(Toggled) /\ Cardinality(Toggled) \in Nat
<1> SUFFICES ASSUME TypeOK
             PROVE  /\ DataWatcherDebt \in Nat /\ FileWatcherDebt \in Nat
                    /\ Len(dwCmdQueue) \in Nat /\ Len(fwCmdQueue) \in Nat
                    /\ IsFiniteSet(Toggled) /\ Cardinality(Toggled) \in Nat
  OBVIOUS
<1>1. Len(dwCmdQueue) \in Nat /\ Len(fwCmdQueue) \in Nat /\ Len(taken) \in Nat
      /\ DOMAIN taken = 1 .. Len(taken)
  BY QueueLengths DEF TypeOK
<1>2. IsFiniteSet(1 .. Len(taken))
  BY <1>1, FS_Interval
<1>3. IsFiniteSet(Toggled) /\ Cardinality(Toggled) \in Nat
  BY <1>1, <1>2, FS_Subset, FS_CardinalityType DEF Toggled
<1>4. \A b \in BOOLEAN : One(b) \in Nat
  BY DEF One
<1>5. /\ (dwPc = "lock") \in BOOLEAN /\ (fwPc # "remove") \in BOOLEAN /\ AtHand \in BOOLEAN
      /\ (AtHand \/ dispPc \in {"flag", "fileWatcher"}) \in BOOLEAN
  BY DEF AtHand
<1>6. /\ One(dwPc = "lock") \in Nat /\ One(fwPc # "remove") \in Nat /\ One(AtHand) \in Nat
      /\ One(AtHand \/ dispPc \in {"flag", "fileWatcher"}) \in Nat
  BY <1>4, <1>5
<1> QED
  BY <1>1, <1>3, <1>6 DEF DataWatcherDebt, FileWatcherDebt

LEMMA DebtsStayNatural ==
    TypeOK' => (/\ DataWatcherDebt \in Nat /\ FileWatcherDebt \in Nat
                /\ Len(dwCmdQueue) \in Nat /\ Len(fwCmdQueue) \in Nat
                /\ IsFiniteSet(Toggled) /\ Cardinality(Toggled) \in Nat)'
BY DebtsAreNatural, PTL

(* Commands that arrive leave the types of those received alone.            *)
LEMMA ToggledSame ==
    ASSUME taken' = taken,
           \A i \in DOMAIN taken : TypeAt(taken[i])' = TypeAt(taken[i])
    PROVE  Toggled' = Toggled
BY DEF Toggled

LEMMA DebtGetCommand ==
    ASSUME IInv, TakenInv, NEW input \in UserInputs, GetCommand(input)
    PROVE  /\ Toggled' = Toggled
           /\ DataWatcherDebt' = DataWatcherDebt /\ FileWatcherDebt' = FileWatcherDebt
<1>1. /\ \A n \in 1 .. Len(sent) : sent'[n] = sent[n]
      /\ UNCHANGED <<taken, dispPc, pauseState>>
  BY SentGrows DEF IInv
<1>2. DOMAIN taken = 1 .. Len(taken) /\ Len(taken) \in Nat
  BY QueueLengths DEF IInv, TypeOK
<1>3. \A i \in DOMAIN taken : taken[i] \in 1 .. Len(sent) /\ taken'[i] = taken[i]
  BY <1>1, <1>2 DEF TakenInv
<1>4. Toggled' = Toggled
  BY <1>1, <1>3, ToggledSame DEF TypeAt
<1>5. Slot' = Slot /\ (taken # << >> => Slot \in 1 .. Len(sent))
  <2>1. taken # << >> => Len(taken) \in DOMAIN taken
    BY <1>2 DEF IInv, TypeOK
  <2> QED
    BY <1>1, <1>3, <2>1 DEF Slot
<1>6. AtHand' = AtHand
  BY <1>1, <1>5 DEF AtHand, TypeAt, TakenInv
<1> QED
  BY <1>1, <1>4, <1>6 DEF DataWatcherDebt, FileWatcherDebt, pauseState

LEMMA DebtReceive ==
    ASSUME IInv, TakenInv, DebtInv, GetMsgReceive PROVE DebtInv'
<1>0. PICK n : n = Len(taken) + 1
  OBVIOUS
<1>1. /\ Len(taken') = n /\ Len(taken) \in Nat
      /\ \A i \in 1 .. Len(taken) : taken'[i] = taken[i]
      /\ taken'[n] = Slot' /\ dispPc = "remove" /\ dispPc' = "switch"
      /\ UNCHANGED <<sent, pauseState>>
  BY <1>0, TakenReceive
<1>2. DOMAIN taken = 1 .. Len(taken) /\ DOMAIN taken' = 1 .. n
  <2>1. taken' \in Seq(Nat)
    BY TypeStep DEF IInv, TypeOK, Next, Threads, GetMsg
  <2> QED
    BY <1>1, <2>1, QueueLengths DEF IInv, TypeOK
<1>3. n \notin Toggled /\ Toggled' = Toggled \cup (IF AtHand' THEN {n} ELSE {})
  <2>1. AtHand' <=> TypeAt(Slot)' \in ToggleTypes
    BY <1>1 DEF AtHand
  <2>2. \A i \in 1 .. Len(taken) : TypeAt(taken[i])' = TypeAt(taken[i])
    BY <1>1 DEF TypeAt
  <2>3. TypeAt(taken[n])' = TypeAt(Slot)'
    BY <1>1 DEF TypeAt
  <2>4. 1 .. n = (1 .. Len(taken)) \cup {n} /\ n \notin 1 .. Len(taken)
    BY <1>0, <1>1
  <2>5. \A i : i \in Toggled <=> i \in 1 .. Len(taken) /\ TypeAt(taken[i]) \in ToggleTypes
    BY <1>2 DEF Toggled
  <2>6. \A i : i \in Toggled' <=> i \in 1 .. n /\ TypeAt(taken[i])' \in ToggleTypes
    BY <1>2 DEF Toggled
  <2> QED
    BY <2>1, <2>2, <2>3, <2>4, <2>5, <2>6
<1>4. Cardinality(Toggled') = Cardinality(Toggled) + One(AtHand')
  <2>1. IsFiniteSet(Toggled) /\ Cardinality(Toggled) \in Nat
    BY DebtsAreNatural DEF IInv
  <2>2. Cardinality(Toggled \cup {n}) = Cardinality(Toggled) + 1
    BY <1>3, <2>1, FS_AddElement
  <2>3. CASE AtHand'
    BY <1>3, <2>2, <2>3 DEF One
  <2>4. CASE ~AtHand'
    BY <1>3, <2>1, <2>4 DEF One
  <2> QED
    BY <2>3, <2>4
<1>5. /\ DataWatcherDebt' = DataWatcherDebt + One(AtHand')
      /\ FileWatcherDebt' = FileWatcherDebt + One(AtHand')
  <2>1. ~AtHand /\ dispPc \notin {"flag", "fileWatcher"} /\ dispPc' \notin {"flag", "fileWatcher"}
    BY <1>1 DEF AtHand
  <2>2. Len(dwCmdQueue) \in Nat /\ Len(fwCmdQueue) \in Nat
    BY DebtsAreNatural DEF IInv
  <2> QED
    BY <1>1, <2>1, <2>2 DEF DataWatcherDebt, FileWatcherDebt, pauseState, One
<1> QED
  BY <1>4, <1>5, DebtsAreNatural DEF IInv, DebtInv, One

(* Every other step of RT moves a pointer on, or lets go of it.             *)
LEMMA DebtFalls ==
    ASSUME TypeOK, UNCHANGED <<sent, taken>>,
           DataWatcherDebt' <= DataWatcherDebt, FileWatcherDebt' <= FileWatcherDebt,
           DataWatcherDebt' \in Nat, FileWatcherDebt' \in Nat, DebtInv
    PROVE  DebtInv'
<1>1. Toggled' = Toggled
  BY TypeAtSame, ToggledSame
<1> QED
  BY <1>1, DebtsAreNatural DEF DebtInv

LEMMA DebtToggle ==
    ASSUME TypeOK,
           \/ GetMsgToDataWatcher \/ GetMsgSetFlag \/ GetMsgToFileWatcher
           \/ GetMsgReport \/ GetMsgIgnore
    PROVE  /\ UNCHANGED <<sent, taken>>
           /\ DataWatcherDebt' <= DataWatcherDebt /\ FileWatcherDebt' <= FileWatcherDebt
<1>1. /\ dwCmdQueue \in Seq(Nat) /\ fwCmdQueue \in Seq(Nat) /\ Slot \in Nat
      /\ Len(dwCmdQueue) \in Nat /\ Len(fwCmdQueue) \in Nat
      /\ Len(Append(dwCmdQueue, Slot)) = Len(dwCmdQueue) + 1
      /\ Len(Append(fwCmdQueue, Slot)) = Len(fwCmdQueue) + 1
  BY SlotType, QueueLengths DEF TypeOK
<1> USE DEF DataWatcherDebt, FileWatcherDebt, One, AtHand
<1>2. CASE GetMsgToDataWatcher
  <2>1. UNCHANGED <<sent, taken>>
    BY <1>2 DEF GetMsgToDataWatcher, uiVars
  <2> QED
    BY <1>1, <1>2, <2>1, TypeAtSame DEF GetMsgToDataWatcher
<1>3. CASE GetMsgSetFlag
  <2>1. UNCHANGED <<sent, taken>>
    BY <1>3 DEF GetMsgSetFlag, uiVars
  <2> QED
    BY <1>1, <1>3, <2>1, TypeAtSame DEF GetMsgSetFlag, watcherVars
<1>4. CASE GetMsgToFileWatcher
  <2>1. UNCHANGED <<sent, taken>>
    BY <1>4 DEF GetMsgToFileWatcher, uiVars
  <2> QED
    BY <1>1, <1>4, <2>1, TypeAtSame DEF GetMsgToFileWatcher
<1>5. CASE GetMsgReport \/ GetMsgIgnore
  <2>1. UNCHANGED <<sent, taken>>
    BY <1>5, PassedOver DEF received
  <2>2. /\ UNCHANGED <<dwCmdQueue, fwCmdQueue, dwPc, fwPc>>
        /\ dispPc = "switch" /\ dispPc' = "remove" /\ TypeAt(Slot) \notin ToggleTypes
    BY <1>5, PassedOver DEF pauseState
  <2>3. DataWatcherDebt' = DataWatcherDebt
    BY <1>1, <2>2
  <2>4. FileWatcherDebt' = FileWatcherDebt
    BY <1>1, <2>2
  <2>5. DataWatcherDebt \in Int /\ FileWatcherDebt \in Int
    BY <1>1
  <2> HIDE DEF DataWatcherDebt, FileWatcherDebt
  <2> QED
    BY <2>1, <2>3, <2>4, <2>5
<1> QED
  BY <1>2, <1>3, <1>4, <1>5

LEMMA DebtWatchers ==
    ASSUME TypeOK,
           \/ DataWatcherCommandTake \/ DataWatcherCommandLock
           \/ FileWatcherForpauseTake \/ FileWatcherForpauseCheck \/ SpuriousWakeup
    PROVE  /\ UNCHANGED <<sent, taken>>
           /\ DataWatcherDebt' <= DataWatcherDebt /\ FileWatcherDebt' <= FileWatcherDebt
<1>1. /\ Len(dwCmdQueue) \in Nat /\ Len(fwCmdQueue) \in Nat
      /\ dwCmdQueue # << >> => Len(Tail(dwCmdQueue)) = Len(dwCmdQueue) - 1
      /\ fwCmdQueue # << >> => Len(Tail(fwCmdQueue)) = Len(fwCmdQueue) - 1
  BY QueueLengths DEF TypeOK
<1> USE DEF DataWatcherDebt, FileWatcherDebt, One, AtHand
<1>2. CASE DataWatcherCommandTake \/ DataWatcherCommandLock
  <2>1. UNCHANGED <<sent, taken, dispPc, fwCmdQueue, fwPc>>
    BY <1>2 DEF DataWatcherCommandTake, DataWatcherCommandLock, uiVars, dispVars
  <2> QED
    BY <1>1, <1>2, <2>1, TypeAtSame DEF DataWatcherCommandTake, DataWatcherCommandLock
<1>3. CASE FileWatcherForpauseTake \/ FileWatcherForpauseCheck \/ SpuriousWakeup
  <2>1. UNCHANGED <<sent, taken, dispPc, dwCmdQueue, dwPc>>
    BY <1>3, FileWatcherKeeps DEF received
  <2> QED
    BY <1>1, <1>3, <2>1, TypeAtSame
    DEF FileWatcherForpauseTake, FileWatcherForpauseCheck, SpuriousWakeup
<1> QED
  BY <1>2, <1>3

LEMMA DebtSame ==
    ASSUME UNCHANGED <<sent, taken, dispPc, pauseState>>
    PROVE  DataWatcherDebt' = DataWatcherDebt /\ FileWatcherDebt' = FileWatcherDebt
BY TypeAtSame DEF DataWatcherDebt, FileWatcherDebt, AtHand, pauseState

LEMMA DebtEnd == ASSUME EndRT PROVE DebtInv'
<1>1. taken' = << >> /\ dwCmdQueue' = << >> /\ fwCmdQueue' = << >>
      /\ dwPc' = "remove" /\ fwPc' = "remove" /\ dispPc' = "remove"
  BY DEF EndRT
<1>2. DataWatcherDebt' = 0 /\ FileWatcherDebt' = 0
  BY <1>1 DEF DataWatcherDebt, FileWatcherDebt, AtHand, One
<1>3. Toggled' = {}
  BY <1>1 DEF Toggled
<1> QED
  BY <1>2, <1>3, FS_EmptySet DEF DebtInv

LEMMA DebtStep == IInv /\ TakenInv /\ DebtInv /\ [Next]_vars => DebtInv'
<1> SUFFICES ASSUME IInv, TakenInv, DebtInv, [Next]_vars PROVE DebtInv'
  OBVIOUS
<1>0. TypeOK /\ DataWatcherDebt' \in Nat /\ FileWatcherDebt' \in Nat
  BY TypeStep, DebtsStayNatural DEF IInv
<1>1. CASE RTKilled \/ OpAggregatorRepOverrun
  BY <1>1, DebtEnd DEF RTKilled, OpAggregatorRepOverrun
<1>2. ASSUME NEW input \in UserInputs, GetCommand(input) PROVE DebtInv'
  BY <1>2, DebtGetCommand DEF DebtInv
<1>3. CASE GetMsgReceive
  BY <1>3, DebtReceive
<1>4. CASE \/ GetMsgToDataWatcher \/ GetMsgSetFlag \/ GetMsgToFileWatcher
           \/ GetMsgReport \/ GetMsgIgnore
  BY <1>0, <1>4, DebtToggle, DebtFalls
<1>5. CASE \/ DataWatcherCommandTake \/ DataWatcherCommandLock
           \/ FileWatcherForpauseTake \/ FileWatcherForpauseCheck \/ SpuriousWakeup
  BY <1>0, <1>5, DebtWatchers, DebtFalls
<1>6. CASE \/ UserInterfaceCreate \/ DispatcherCreate \/ UNCHANGED vars
           \/ AggregatorRepFunction \/ SubAggregatorRepTake \/ SubAggregatorRepSwitch
           \/ OpAggregatorRepTake \/ OpAggregatorRepSwitch
  <2>1. UNCHANGED <<sent, taken, dispPc, pauseState>>
    <3>1. CASE UNCHANGED vars
      BY <3>1 DEF vars, uiVars, dispVars, watcherVars, pauseState
    <3> QED
      BY <1>6, <3>1, AttachKeeps, ReportPathKeeps DEF received
  <2>2. Toggled' = Toggled
    BY <2>1, TypeAtSame, ToggledSame
  <2> QED
    BY <2>1, <2>2, DebtSame DEF DebtInv
<1> QED
  BY <1>1, <1>2, <1>3, <1>4, <1>5, <1>6 DEF Next, Environment, Threads, GetMsg

LEMMA ReceivedInvariance == Spec => [](IInv /\ TakenInv /\ DebtInv)
<1>1. Init => TakenInv /\ DebtInv
  <2> SUFFICES ASSUME Init PROVE TakenInv /\ DebtInv
    OBVIOUS
  <2>1. taken = << >> /\ dwCmdQueue = << >> /\ fwCmdQueue = << >>
        /\ dwPc = "remove" /\ fwPc = "remove" /\ dispPc = "remove"
    BY DEF Init
  <2>2. DataWatcherDebt = 0 /\ FileWatcherDebt = 0 /\ Toggled = {}
    BY <2>1 DEF DataWatcherDebt, FileWatcherDebt, AtHand, One, Toggled
  <2> QED
    BY <2>1, <2>2, FS_EmptySet DEF TakenInv, DebtInv
<1> QED
  BY <1>1, Invariance, TakenStep, DebtStep, PTL DEF Spec

(* The dispatcher is stopped by its watchers only after it has received one *)
(* toggle more than a full queue and a stopped reader hold, whatever the    *)
(* threads do in between, for every length of the queues.                   *)
THEOREM StuckNeedsManyTogglesAlways == Spec => []StuckNeedsManyToggles
<1>1. IInv /\ DebtInv => StuckNeedsManyToggles
  <2> SUFFICES ASSUME IInv, DebtInv, DispatcherStuck
               PROVE  Cardinality(Toggled) >= QueueCap + 2
    BY DEF StuckNeedsManyToggles, Toggled
  <2>1. /\ Len(dwCmdQueue) \in Nat /\ Len(fwCmdQueue) \in Nat /\ QueueCap \in Nat
        /\ Cardinality(Toggled) \in Nat
    BY DebtsAreNatural, CommandPathAssumption DEF IInv
  <2>2. CASE AtHand /\ ~RoomIn(dwCmdQueue) /\ SelfDeadlock
    BY <2>1, <2>2 DEF RoomIn, SelfDeadlock, DataWatcherDebt, One, DebtInv
  <2>3. CASE dispPc = "fileWatcher" /\ ~RoomIn(fwCmdQueue) /\ fwPc = "wait"
    BY <2>1, <2>3 DEF RoomIn, FileWatcherDebt, One, DebtInv
  <2> QED
    BY <2>2, <2>3 DEF DispatcherStuck, AtHand
<1> QED
  BY <1>1, ReceivedInvariance, PTL
-----------------------------------------------------------------------------
(* A user who waits.  One command at a time is on its way, so that a thread *)
(* which reads msg on account of a PAUSE or RESUME finds that very command, *)
(* unless the data watcher's command thread has locked itself out.          *)

DataWatcherIdle == dwCmdQueue = << >> /\ dwPc = "remove"

OneAtATime ==
    /\ ipcQueue # << >> => dispPc = "remove" /\ Len(ipcQueue) = 1
    /\ ipcQueue # << >> \/ dispPc = "switch" => DataWatcherIdle \/ SelfDeadlock
    /\ dispPc \in {"flag", "fileWatcher"} => TypeAt(Slot) \in ToggleTypes
    /\ ~DataWatcherIdle => taken # << >>
    /\ ~SelfDeadlock => /\ dwCmdQueue # << >> => /\ Len(dwCmdQueue) = 1 /\ dwPc = "remove"
                                                 /\ TypeAt(Slot) \in ToggleTypes
                        /\ dwPc = "lock" => TypeAt(Slot) = PAUSE

(* The mutex once the data watcher's command thread has caught up, and the  *)
(* flag once the dispatcher has set it.                                     *)
MutexToBe == IF dwCmdQueue # << >> THEN TypeAt(Slot) = PAUSE ELSE dwPc = "lock" \/ dwMutex
FlagToBe == IF dispPc = "flag" THEN TypeAt(Slot) = PAUSE ELSE isPause

FlagAndMutex == ~SelfDeadlock => (MutexToBe <=> FlagToBe)

(* The mutex is held since a PAUSE, and a RESUME after it is only now being *)
(* acted on; a thread locked out has met two PAUSEs.                        *)
ToCome == dispPc = "switch" \/ dwCmdQueue # << >>

HeldSince(i) ==
    /\ TypeAt(taken[i]) = PAUSE
    /\ ToCome => i < Len(taken)
    /\ \A k \in i .. Len(taken) : TypeAt(taken[k]) = RESUME => k = Len(taken) /\ ToCome

PausedTwice ==
    \E i, j \in 1 .. Len(taken) :
        /\ i < j
        /\ TypeAt(taken[i]) = PAUSE /\ TypeAt(taken[j]) = PAUSE
        /\ \A k \in i .. j : TypeAt(taken[k]) # RESUME

Locked ==
    /\ dwMutex /\ ~SelfDeadlock => \E i \in 1 .. Len(taken) : HeldSince(i)
    /\ SelfDeadlock => PausedTwice

PauseInv == OneAtATime /\ FlagAndMutex /\ Locked

LEMMA ToggleWords ==
    /\ PAUSE # RESUME /\ ToggleTypes = {PAUSE, RESUME}
BY DEF PAUSE, RESUME, ToggleTypes

LEMMA SlotIsLast ==
    ASSUME IInv
    PROVE  /\ Len(taken) \in Nat
           /\ taken # << >> => Len(taken) \in 1 .. Len(taken) /\ Slot = taken[Len(taken)]
BY DEF IInv, TypeOK, Slot

(* A step that leaves the data watcher and the commands received alone, and *)
(* does not make the dispatcher any busier.                                 *)
LEMMA LockedSame ==
    ASSUME Locked, UNCHANGED <<sent, taken, dwPc, dwMutex>>, ToCome' = ToCome
    PROVE  Locked'
<1>1. \A i : TypeAt(taken[i])' = TypeAt(taken[i])
  BY TypeAtSame
<1>2. \A i : HeldSince(i) => HeldSince(i)'
  BY <1>1 DEF HeldSince
<1>3. PausedTwice => PausedTwice'
  BY <1>1 DEF PausedTwice
<1> QED
  BY <1>2, <1>3 DEF Locked, SelfDeadlock

LEMMA PauseSame ==
    ASSUME PauseInv, UNCHANGED <<sent, taken, dispPc, isPause, dwCmdQueue, dwPc, dwMutex>>,
           ipcQueue' = ipcQueue \/ ipcQueue' = << >>
    PROVE  PauseInv'
<1>1. Locked'
  BY LockedSame DEF PauseInv, ToCome
<1>2. TypeAt(Slot)' = TypeAt(Slot)
  BY TypeAtSame
<1>3. OneAtATime'
  BY <1>2 DEF PauseInv, OneAtATime, DataWatcherIdle, SelfDeadlock
<1>4. FlagAndMutex'
  BY <1>2 DEF PauseInv, FlagAndMutex, MutexToBe, FlagToBe, SelfDeadlock
<1> QED
  BY <1>1, <1>3, <1>4 DEF PauseInv

LEMMA PauseEnd == ASSUME PauseInv, EndRT PROVE PauseInv'
<1>1. /\ dispPc' = "remove" /\ isPause' = FALSE /\ dwCmdQueue' = << >>
      /\ dwPc' = "remove" /\ dwMutex' = FALSE /\ ipcQueue' = ipcQueue
  BY DEF EndRT
<1> QED
  BY <1>1 DEF PauseInv, OneAtATime, DataWatcherIdle, SelfDeadlock, FlagAndMutex, MutexToBe,
              FlagToBe, Locked

LEMMA PauseGetCommand ==
    ASSUME IInv, TakenInv, PauseInv, Paced, NEW input \in UserInputs, GetCommand(input)
    PROVE  PauseInv'
<1>1. /\ ipcQueue = << >> /\ Len(ipcQueue) = 0 /\ dispPc = "remove"
      /\ DataWatcherIdle \/ SelfDeadlock
  BY DEF GetCommand, Settled, DataWatcherIdle
<1>2. /\ \A n \in 1 .. Len(sent) : sent'[n] = sent[n]
      /\ Len(ipcQueue') = 1 /\ UNCHANGED <<taken, dispPc, pauseState>>
  BY <1>1, SentGrows DEF IInv
<1>3. \A i \in 1 .. Len(taken) : TypeAt(taken[i])' = TypeAt(taken[i])
  BY <1>2 DEF TakenInv, TypeAt
<1>4. Len(taken) \in Nat
  BY SlotIsLast
<1>5. Locked'
  <2>1. \A i \in 1 .. Len(taken) : HeldSince(i) => HeldSince(i)'
    BY <1>2, <1>3, <1>4 DEF HeldSince, ToCome, pauseState
  <2>2. PausedTwice => PausedTwice'
    BY <1>2, <1>3, <1>4 DEF PausedTwice
  <2> QED
    BY <1>2, <2>1, <2>2 DEF PauseInv, Locked, SelfDeadlock, pauseState
<1>6. DataWatcherIdle' = DataWatcherIdle /\ SelfDeadlock' = SelfDeadlock
  BY <1>2 DEF DataWatcherIdle, SelfDeadlock, pauseState
<1>7. OneAtATime'
  BY <1>1, <1>2, <1>6 DEF PauseInv, OneAtATime, DataWatcherIdle, pauseState
<1>8. FlagAndMutex'
  BY <1>1, <1>2, <1>6 DEF PauseInv, FlagAndMutex, MutexToBe, FlagToBe, DataWatcherIdle, pauseState
<1> QED
  BY <1>5, <1>7, <1>8 DEF PauseInv

LEMMA PauseReceive == ASSUME IInv, TakenInv, PauseInv, GetMsgReceive PROVE PauseInv'
<1>1. /\ Len(taken') = Len(taken) + 1 /\ Len(taken) \in Nat
      /\ \A i \in 1 .. Len(taken) : taken'[i] = taken[i]
      /\ dispPc = "remove" /\ dispPc' = "switch" /\ ipcQueue # << >>
      /\ Len(ipcQueue') = Len(ipcQueue) - 1
      /\ UNCHANGED <<sent, pauseState>>
  BY TakenReceive
<1>2. Len(ipcQueue) = 1 /\ (DataWatcherIdle \/ SelfDeadlock)
  BY <1>1 DEF PauseInv, OneAtATime
<1>3. ipcQueue' = << >>
  <2>1. ipcQueue \in Seq(Nat) /\ ipcQueue' = Tail(ipcQueue)
    BY DEF IInv, TypeOK, GetMsgReceive
  <2> QED
    BY <1>1, <1>2, <2>1
<1>4. \A i \in 1 .. Len(taken) : TypeAt(taken[i])' = TypeAt(taken[i])
  BY <1>1 DEF TypeAt
<1>5. DataWatcherIdle' = DataWatcherIdle /\ SelfDeadlock' = SelfDeadlock /\ taken' # << >>
  BY <1>1 DEF DataWatcherIdle, SelfDeadlock, pauseState
<1>6. Locked'
  <2>1. ASSUME NEW i \in 1 .. Len(taken), HeldSince(i), DataWatcherIdle PROVE HeldSince(i)'
    <3>1. ~ToCome /\ ToCome'
      BY <1>1, <2>1 DEF ToCome, DataWatcherIdle
    <3> QED
      BY <1>1, <1>4, <2>1, <3>1 DEF HeldSince
  <2>2. PausedTwice => PausedTwice'
    BY <1>1, <1>4 DEF PausedTwice
  <2>3. 1 .. Len(taken) \subseteq 1 .. Len(taken')
    BY <1>1
  <2> QED
    BY <1>1, <1>2, <1>5, <2>1, <2>2, <2>3 DEF PauseInv, Locked, pauseState
<1>7. OneAtATime'
  BY <1>1, <1>2, <1>3, <1>5 DEF PauseInv, OneAtATime, DataWatcherIdle, pauseState
<1>8. FlagAndMutex'
  BY <1>1, <1>2, <1>5 DEF PauseInv, FlagAndMutex, MutexToBe, FlagToBe, DataWatcherIdle, pauseState
<1> QED
  BY <1>6, <1>7, <1>8 DEF PauseInv

LEMMA PausePassedOver ==
    ASSUME IInv, TakenInv, PauseInv, GetMsgReport \/ GetMsgIgnore PROVE PauseInv'
<1>1. /\ dispPc = "switch" /\ dispPc' = "remove" /\ TypeAt(Slot) \notin ToggleTypes
      /\ UNCHANGED <<received, pauseState>>
  BY PassedOver
<1>2. /\ ipcQueue = << >>
      /\ DataWatcherIdle \/ SelfDeadlock
      /\ taken # << >> /\ TypeAt(taken[Len(taken)]) # RESUME
  BY <1>1, SlotIsLast, ToggleWords DEF PauseInv, OneAtATime, TakenInv
<1>3. \A i : TypeAt(taken[i])' = TypeAt(taken[i])
  BY <1>1, TypeAtSame DEF received
<1>4. Locked'
  <2>1. ASSUME NEW i, HeldSince(i), DataWatcherIdle PROVE HeldSince(i)'
    BY <1>1, <1>2, <1>3, <2>1 DEF HeldSince, ToCome, DataWatcherIdle, pauseState, received
  <2>2. PausedTwice => PausedTwice'
    BY <1>1, <1>3 DEF PausedTwice, received
  <2> QED
    BY <1>1, <1>2, <2>1, <2>2 DEF PauseInv, Locked, SelfDeadlock, pauseState, received
<1>5. OneAtATime'
  BY <1>1, <1>2 DEF PauseInv, OneAtATime, DataWatcherIdle, SelfDeadlock, pauseState, received
<1>6. FlagAndMutex'
  BY <1>1, <1>2 DEF PauseInv, FlagAndMutex, MutexToBe, FlagToBe, SelfDeadlock,
                    DataWatcherIdle, pauseState, received
<1> QED
  BY <1>4, <1>5, <1>6 DEF PauseInv

LEMMA PauseToDataWatcher ==
    ASSUME IInv, TakenInv, PauseInv, GetMsgToDataWatcher PROVE PauseInv'
<1>1. /\ dispPc = "switch" /\ dispPc' = "flag" /\ TypeAt(Slot) \in ToggleTypes
      /\ dwCmdQueue' = Append(dwCmdQueue, Slot)
      /\ UNCHANGED <<sent, taken, ipcQueue, isPause, dwPc, dwMutex>>
  BY DEF GetMsgToDataWatcher, uiVars
<1>2. /\ ipcQueue = << >> /\ taken # << >>
      /\ DataWatcherIdle \/ SelfDeadlock
  BY <1>1 DEF PauseInv, OneAtATime, TakenInv
<1>3. /\ dwCmdQueue' # << >> /\ dwCmdQueue = << >> => Len(dwCmdQueue') = 1
  BY <1>1, SlotType DEF IInv, TypeOK
<1>4. Locked'
  BY <1>1, <1>3, LockedSame DEF PauseInv, ToCome
<1>5. TypeAt(Slot)' = TypeAt(Slot)
  BY <1>1, TypeAtSame
<1>6. OneAtATime'
  BY <1>1, <1>2, <1>3, <1>5 DEF PauseInv, OneAtATime, DataWatcherIdle, SelfDeadlock, TakenInv
<1>7. FlagAndMutex'
  BY <1>1, <1>3, <1>5 DEF FlagAndMutex, MutexToBe, FlagToBe
<1> QED
  BY <1>4, <1>6, <1>7 DEF PauseInv

LEMMA PauseSetFlag ==
    ASSUME PauseInv, GetMsgSetFlag \/ GetMsgToFileWatcher PROVE PauseInv'
<1>1. /\ dispPc \in {"flag", "fileWatcher"} /\ dispPc' \in {"fileWatcher", "remove"}
      /\ UNCHANGED <<sent, taken, ipcQueue, dwCmdQueue, dwPc, dwMutex>>
  BY DEF GetMsgSetFlag, GetMsgToFileWatcher, uiVars, watcherVars
<1>2. TypeAt(Slot)' = TypeAt(Slot)
  BY <1>1, TypeAtSame
<1>3. FlagToBe' = FlagToBe
  BY <1>2 DEF GetMsgSetFlag, GetMsgToFileWatcher, FlagToBe, FlagFor
<1>4. Locked'
  BY <1>1, LockedSame DEF PauseInv, ToCome
<1>5. OneAtATime'
  BY <1>1, <1>2 DEF PauseInv, OneAtATime, DataWatcherIdle, SelfDeadlock
<1>6. FlagAndMutex'
  BY <1>1, <1>2, <1>3 DEF PauseInv, FlagAndMutex, MutexToBe, SelfDeadlock
<1> QED
  BY <1>4, <1>5, <1>6 DEF PauseInv

LEMMA PauseTake ==
    ASSUME IInv, TakenInv, PauseInv, DataWatcherCommandTake PROVE PauseInv'
<1>1. /\ dwPc = "remove" /\ dwCmdQueue # << >> /\ dwCmdQueue' = Tail(dwCmdQueue)
      /\ dwPc' = IF TypeAt(Slot) = PAUSE THEN "lock" ELSE "remove"
      /\ dwMutex' = (dwMutex /\ TypeAt(Slot) # RESUME)
      /\ UNCHANGED <<sent, taken, ipcQueue, dispPc, isPause>>
  BY DEF DataWatcherCommandTake, UnlocksOn, uiVars, dispVars
<1>2. /\ ~SelfDeadlock /\ ~DataWatcherIdle /\ Len(dwCmdQueue) = 1 /\ taken # << >>
      /\ TypeAt(Slot) \in ToggleTypes /\ ipcQueue = << >> /\ dispPc # "switch"
  BY <1>1 DEF PauseInv, OneAtATime, DataWatcherIdle, SelfDeadlock
<1>3. dwCmdQueue' = << >>
  <2>1. dwCmdQueue \in Seq(Nat)
    BY DEF IInv, TypeOK
  <2> QED
    BY <1>1, <1>2, <2>1
<1>4. /\ TypeAt(Slot)' = TypeAt(Slot) /\ \A i : TypeAt(taken[i])' = TypeAt(taken[i])
  BY <1>1, TypeAtSame
<1>5. OneAtATime'
  BY <1>1, <1>2, <1>3, <1>4 DEF PauseInv, OneAtATime
<1>6. FlagAndMutex'
  BY <1>1, <1>2, <1>3, <1>4, ToggleWords
  DEF PauseInv, FlagAndMutex, MutexToBe, FlagToBe, SelfDeadlock
<1>7. Locked'
  <2>1. CASE TypeAt(Slot) = RESUME
    BY <1>1, <2>1 DEF Locked, SelfDeadlock
  <2>2. CASE TypeAt(Slot) = PAUSE /\ dwMutex
    <3>1. PICK i \in 1 .. Len(taken) : HeldSince(i)
      BY <1>2, <2>2 DEF PauseInv, Locked
    <3>2. /\ i < Len(taken) /\ TypeAt(taken[i]) = PAUSE
          /\ \A k \in i .. Len(taken) : TypeAt(taken[k]) = RESUME => k = Len(taken)
      BY <1>1, <3>1 DEF HeldSince, ToCome
    <3>3. /\ Len(taken) \in 1 .. Len(taken) /\ TypeAt(taken[Len(taken)]) = PAUSE
      BY <1>2, <2>2, SlotIsLast
    <3>4. PausedTwice'
      BY <1>1, <1>4, <3>2, <3>3, ToggleWords DEF PausedTwice
    <3> QED
      BY <1>1, <2>2, <3>4 DEF Locked, SelfDeadlock
  <2>3. CASE TypeAt(Slot) = PAUSE /\ ~dwMutex
    BY <1>1, <2>3 DEF Locked, SelfDeadlock
  <2> QED
    BY <1>2, <2>1, <2>2, <2>3, ToggleWords
<1> QED
  BY <1>5, <1>6, <1>7 DEF PauseInv

LEMMA PauseLock ==
    ASSUME IInv, TakenInv, PauseInv, DataWatcherCommandLock PROVE PauseInv'
<1>1. /\ dwPc = "lock" /\ ~dwMutex /\ dwPc' = "remove" /\ dwMutex' = TRUE
      /\ UNCHANGED <<sent, taken, ipcQueue, dispPc, isPause, dwCmdQueue>>
  BY DEF DataWatcherCommandLock, uiVars, dispVars
<1>2. /\ ~SelfDeadlock /\ ~DataWatcherIdle /\ dwCmdQueue = << >> /\ taken # << >>
      /\ TypeAt(Slot) = PAUSE /\ dispPc # "switch" /\ ipcQueue = << >>
  BY <1>1 DEF PauseInv, OneAtATime, DataWatcherIdle, SelfDeadlock
<1>3. /\ TypeAt(Slot)' = TypeAt(Slot) /\ \A i : TypeAt(taken[i])' = TypeAt(taken[i])
  BY <1>1, TypeAtSame
<1>4. /\ Len(taken) \in 1 .. Len(taken) /\ Len(taken) \in Nat
      /\ TypeAt(taken[Len(taken)]) = PAUSE
  BY <1>2, SlotIsLast
<1>5. HeldSince(Len(taken))'
  BY <1>1, <1>2, <1>3, <1>4, ToggleWords DEF HeldSince, ToCome
<1>6. Locked'
  <2>1. \E i \in 1 .. Len(taken') : HeldSince(i)'
    BY <1>1, <1>4, <1>5
  <2> QED
    BY <1>1, <2>1 DEF Locked, SelfDeadlock
<1>7. OneAtATime'
  BY <1>1, <1>2, <1>3 DEF PauseInv, OneAtATime
<1>8. FlagAndMutex'
  BY <1>1, <1>2, <1>3 DEF PauseInv, FlagAndMutex, MutexToBe, FlagToBe
<1> QED
  BY <1>6, <1>7, <1>8 DEF PauseInv

LEMMA PauseStep == IInv /\ TakenInv /\ (Paced => PauseInv) /\ [Next]_vars => (Paced => PauseInv)'
<1> SUFFICES ASSUME IInv, TakenInv, Paced, PauseInv, [Next]_vars PROVE PauseInv'
  OBVIOUS
<1>1. CASE RTKilled \/ OpAggregatorRepOverrun
  BY <1>1, PauseEnd DEF RTKilled, OpAggregatorRepOverrun
<1>2. ASSUME NEW input \in UserInputs, GetCommand(input) PROVE PauseInv'
  BY <1>2, PauseGetCommand
<1>3. CASE GetMsgReceive \/ GetMsgReport \/ GetMsgIgnore
  BY <1>3, PauseReceive, PausePassedOver
<1>4. CASE GetMsgToDataWatcher \/ GetMsgSetFlag \/ GetMsgToFileWatcher
  BY <1>4, PauseToDataWatcher, PauseSetFlag
<1>5. CASE DataWatcherCommandTake \/ DataWatcherCommandLock
  BY <1>5, PauseTake, PauseLock
<1>6. CASE FileWatcherForpauseTake \/ FileWatcherForpauseCheck \/ SpuriousWakeup
  BY <1>6, FileWatcherKeeps, PauseSame DEF received
<1>7. CASE \/ UserInterfaceCreate \/ DispatcherCreate \/ UNCHANGED vars
           \/ AggregatorRepFunction \/ SubAggregatorRepTake \/ SubAggregatorRepSwitch
           \/ OpAggregatorRepTake \/ OpAggregatorRepSwitch
  <2>1. /\ UNCHANGED <<sent, taken, dispPc, pauseState>>
        /\ ipcQueue' = ipcQueue \/ ipcQueue' = << >>
    <3>1. CASE UNCHANGED vars
      BY <3>1 DEF vars, uiVars, dispVars, watcherVars, pauseState
    <3> QED
      BY <1>7, <3>1, AttachKeeps, ReportPathKeeps DEF received
  <2> QED
    BY <2>1, PauseSame DEF pauseState
<1> QED
  BY <1>1, <1>2, <1>3, <1>4, <1>5, <1>6, <1>7 DEF Next, Environment, Threads, GetMsg

LEMMA PauseInvariance == Spec => [](IInv /\ TakenInv /\ (Paced => PauseInv))
<1>1. Init => PauseInv
  BY DEF Init, PauseInv, OneAtATime, DataWatcherIdle, SelfDeadlock, FlagAndMutex, MutexToBe,
         FlagToBe, Locked
<1> QED
  BY <1>1, ReceivedInvariance, PauseStep, PTL DEF Spec

(* Whatever order the data watcher's thread and the dispatcher take, once a *)
(* command of a user who waits is dealt with the flag and the mutex agree.  *)
THEOREM PauseStateAgreesAlways == Spec => []PauseStateAgrees
<1>1. (Paced => PauseInv) => PauseStateAgrees
  BY DEF PauseInv, FlagAndMutex, MutexToBe, FlagToBe, Settled, PauseStateAgrees
<1> QED
  BY <1>1, PauseInvariance, PTL

(* For a user who waits, only a second PAUSE, with no RESUME since the one  *)
(* before, makes the data watcher's command thread lock itself out.         *)
THEOREM SelfDeadlockNeedsTwoPausesAlways == Spec => []SelfDeadlockNeedsTwoPauses
<1>1. IInv /\ (Paced => PauseInv) => SelfDeadlockNeedsTwoPauses
  <2>1. IInv => DOMAIN taken = 1 .. Len(taken)
    BY QueueLengths DEF IInv, TypeOK
  <2> QED
    BY <2>1 DEF PauseInv, Locked, PausedTwice, SelfDeadlockNeedsTwoPauses
<1> QED
  BY <1>1, PauseInvariance, PTL
-----------------------------------------------------------------------------
(* The flag of the file watcher, for a user who waits or does not: it says  *)
(* what the last toggle that the dispatcher has acted on asked for.         *)

ActedOn(i) == i < Len(taken) \/ dispPc \notin {"switch", "flag"}

PauseIsLast ==
    \E i \in 1 .. Len(taken) :
        /\ TypeAt(taken[i]) = PAUSE /\ ActedOn(i)
        /\ \A k \in i .. Len(taken) : ActedOn(k) => TypeAt(taken[k]) # RESUME

FlagInv ==
    /\ isPause <=> PauseIsLast
    /\ dispPc = "flag" => TypeAt(Slot) \in ToggleTypes

LEMMA FlagSame ==
    ASSUME FlagInv, UNCHANGED <<sent, taken, isPause>>,
           dispPc' = dispPc \/ {dispPc, dispPc'} \subseteq {"switch", "flag"}
                            \/ {dispPc, dispPc'} \subseteq {"fileWatcher", "remove"},
           dispPc' = "flag" => TypeAt(Slot) \in ToggleTypes
    PROVE  FlagInv'
<1>1. TypeAt(Slot)' = TypeAt(Slot) /\ \A i : TypeAt(taken[i])' = TypeAt(taken[i])
  BY TypeAtSame
<1>2. \A i : ActedOn(i)' = ActedOn(i)
  BY DEF ActedOn
<1>3. PauseIsLast' = PauseIsLast
  BY <1>1, <1>2 DEF PauseIsLast
<1> QED
  BY <1>1, <1>3 DEF FlagInv

LEMMA FlagEnd == ASSUME EndRT PROVE FlagInv'
<1>1. taken' = << >> /\ isPause' = FALSE /\ dispPc' = "remove"
  BY DEF EndRT
<1>2. ~PauseIsLast'
  BY <1>1 DEF PauseIsLast
<1> QED
  BY <1>1, <1>2 DEF FlagInv

LEMMA FlagGetCommand ==
    ASSUME IInv, TakenInv, FlagInv, NEW input \in UserInputs, GetCommand(input)
    PROVE  FlagInv'
<1>1. /\ \A n \in 1 .. Len(sent) : sent'[n] = sent[n]
      /\ UNCHANGED <<taken, dispPc, pauseState>> /\ Len(taken) \in Nat
  BY SentGrows, SlotIsLast DEF IInv
<1>2. \A i \in 1 .. Len(taken) : TypeAt(taken[i])' = TypeAt(taken[i])
  BY <1>1 DEF TakenInv, TypeAt
<1>3. \A i : ActedOn(i)' = ActedOn(i)
  BY <1>1 DEF ActedOn
<1>4. PauseIsLast' = PauseIsLast
  BY <1>1, <1>2, <1>3 DEF PauseIsLast
<1>5. dispPc = "flag" => TypeAt(Slot)' = TypeAt(Slot)
  BY <1>1, <1>2, SlotIsLast DEF TakenInv, Slot
<1> QED
  BY <1>1, <1>4, <1>5 DEF FlagInv, pauseState

LEMMA FlagReceive == ASSUME IInv, TakenInv, FlagInv, GetMsgReceive PROVE FlagInv'
<1>1. /\ Len(taken') = Len(taken) + 1 /\ Len(taken) \in Nat
      /\ \A i \in 1 .. Len(taken) : taken'[i] = taken[i]
      /\ dispPc = "remove" /\ dispPc' = "switch" /\ UNCHANGED <<sent, pauseState>>
  BY TakenReceive
<1>2. \A i \in 1 .. Len(taken) : TypeAt(taken[i])' = TypeAt(taken[i])
  BY <1>1 DEF TypeAt
<1>3. \A i \in 1 .. Len(taken') : ActedOn(i)' <=> i \in 1 .. Len(taken)
  BY <1>1 DEF ActedOn
<1>4. \A i \in 1 .. Len(taken) : ActedOn(i)
  BY <1>1 DEF ActedOn
<1>5. PauseIsLast' = PauseIsLast
  <2>1. 1 .. Len(taken) \subseteq 1 .. Len(taken')
    BY <1>1
  <2> QED
    BY <1>1, <1>2, <1>3, <1>4, <2>1 DEF PauseIsLast
<1> QED
  BY <1>1, <1>5 DEF FlagInv, pauseState

LEMMA FlagPassedOver ==
    ASSUME IInv, TakenInv, FlagInv, GetMsgReport \/ GetMsgIgnore
    PROVE  FlagInv'
<1>1. /\ dispPc = "switch" /\ dispPc' = "remove" /\ TypeAt(Slot) \notin ToggleTypes
      /\ UNCHANGED <<received, pauseState>>
  BY PassedOver
<1>2. /\ Len(taken) \in Nat /\ TypeAt(taken[Len(taken)]) \notin ToggleTypes
      /\ \A i : TypeAt(taken[i])' = TypeAt(taken[i])
  BY <1>1, SlotIsLast, TypeAtSame DEF TakenInv, received
<1>3. /\ \A i : ActedOn(i) <=> i < Len(taken)
      /\ \A i : ActedOn(i)'
  BY <1>1 DEF ActedOn
<1>4. PauseIsLast' = PauseIsLast
  BY <1>1, <1>2, <1>3, ToggleWords DEF PauseIsLast, received
<1> QED
  BY <1>1, <1>4 DEF FlagInv, pauseState

LEMMA FlagSet == ASSUME IInv, TakenInv, FlagInv, GetMsgSetFlag PROVE FlagInv'
<1>1. /\ dispPc = "flag" /\ dispPc' = "fileWatcher" /\ UNCHANGED <<sent, taken>>
      /\ isPause' = (TypeAt(Slot) = PAUSE) /\ TypeAt(Slot) \in ToggleTypes
  BY DEF GetMsgSetFlag, FlagFor, FlagInv, uiVars
<1>2. /\ Len(taken) \in Nat /\ Len(taken) \in 1 .. Len(taken)
      /\ TypeAt(taken[Len(taken)]) = TypeAt(Slot)
      /\ \A i : TypeAt(taken[i])' = TypeAt(taken[i])
  BY <1>1, SlotIsLast, TypeAtSame DEF TakenInv
<1>3. \A i : ActedOn(i)'
  BY <1>1 DEF ActedOn
<1>4. CASE TypeAt(Slot) = PAUSE
  <2>1. PauseIsLast'
    BY <1>1, <1>2, <1>3, <1>4, ToggleWords DEF PauseIsLast
  <2> QED
    BY <1>1, <1>4, <2>1 DEF FlagInv
<1>5. CASE TypeAt(Slot) = RESUME
  <2>1. ~PauseIsLast'
    BY <1>1, <1>2, <1>3, <1>5, ToggleWords DEF PauseIsLast
  <2> QED
    BY <1>1, <1>5, <2>1, ToggleWords DEF FlagInv
<1> QED
  BY <1>1, <1>4, <1>5, ToggleWords

LEMMA FlagStep == IInv /\ TakenInv /\ FlagInv /\ [Next]_vars => FlagInv'
<1> SUFFICES ASSUME IInv, TakenInv, FlagInv, [Next]_vars PROVE FlagInv'
  OBVIOUS
<1>1. CASE RTKilled \/ OpAggregatorRepOverrun
  BY <1>1, FlagEnd DEF RTKilled, OpAggregatorRepOverrun
<1>2. ASSUME NEW input \in UserInputs, GetCommand(input) PROVE FlagInv'
  BY <1>2, FlagGetCommand
<1>3. CASE GetMsgReceive \/ GetMsgReport \/ GetMsgIgnore \/ GetMsgSetFlag
  BY <1>3, FlagReceive, FlagPassedOver, FlagSet
<1>4. CASE GetMsgToDataWatcher
  BY <1>4, FlagSame DEF GetMsgToDataWatcher, uiVars
<1>5. CASE GetMsgToFileWatcher
  BY <1>5, FlagSame DEF GetMsgToFileWatcher, uiVars
<1>6. CASE DataWatcherCommandTake \/ DataWatcherCommandLock
  <2>1. UNCHANGED <<sent, taken, dispPc, isPause>>
    BY <1>6 DEF DataWatcherCommandTake, DataWatcherCommandLock, uiVars, dispVars
  <2> QED
    BY <2>1, FlagSame DEF FlagInv
<1>7. CASE FileWatcherForpauseTake \/ FileWatcherForpauseCheck \/ SpuriousWakeup
  BY <1>7, FileWatcherKeeps, FlagSame DEF received, FlagInv
<1>8. CASE \/ UserInterfaceCreate \/ DispatcherCreate \/ UNCHANGED vars
           \/ AggregatorRepFunction \/ SubAggregatorRepTake \/ SubAggregatorRepSwitch
           \/ OpAggregatorRepTake \/ OpAggregatorRepSwitch
  <2>1. UNCHANGED <<sent, taken, dispPc, isPause>>
    <3>1. CASE UNCHANGED vars
      BY <3>1 DEF vars, uiVars, dispVars
    <3> QED
      BY <1>8, <3>1, AttachKeeps, ReportPathKeeps DEF received, pauseState
  <2> QED
    BY <2>1, FlagSame DEF FlagInv
<1> QED
  BY <1>1, <1>2, <1>3, <1>4, <1>5, <1>6, <1>7, <1>8 DEF Next, Environment, Threads, GetMsg

LEMMA FlagInvariance == Spec => [](IInv /\ FlagInv)
<1>1. Init => FlagInv
  BY DEF Init, FlagInv, PauseIsLast
<1> QED
  BY <1>1, ReceivedInvariance, FlagStep, PTL DEF Spec
=============================================================================
