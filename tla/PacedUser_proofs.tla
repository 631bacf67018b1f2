-------------------------- MODULE PacedUser_proofs --------------------------
(***************************************************************************)
(* What the command path is to a user who waits for a command to finish:   *)
(* the index into names[] stays in the table although it is read before    *)
(* the type of the command, and the five queues, the shared msg and the    *)
(* eight places of a command are a service with one command outstanding.   *)
(***************************************************************************)
EXTENDS Toggles_proofs
-----------------------------------------------------------------------------
(* names[] is read for whatever command msg holds by then; for a user who   *)
(* waits that is still the operator command that the aggregator handed on.  *)

(* What the operator aggregator is asked for, and is busy with, is a        *)
(* command that was received and that asks for an operator.                 *)
MenuInv ==
    /\ 0 \notin Disp \cup Agg
    /\ Paced => /\ \A n \in Op : n # 0 /\ TypeAt(n) = REP_OPER
                /\ opRep.busy => opRep.name # 0 /\ TypeAt(opRep.name) = REP_OPER

LEMMA MenuInit == Init => MenuInv
<1> SUFFICES ASSUME Init PROVE MenuInv
  OBVIOUS
<1>1. Disp = {} /\ Agg = {} /\ Op = {} /\ ~opRep.busy
  BY EmptyElems DEF Init, IdleReader, Disp, Agg, Op
<1> QED
  BY <1>1 DEF MenuInv

(* Steps that leave both sent and the operator aggregator's work alone.     *)
LEMMA MenuSame ==
    ASSUME MenuInv, sent' = sent, Op' = Op, opRep' = opRep,
           0 \notin (Disp \cup Agg)'
    PROVE  MenuInv'
BY DEF MenuInv, TypeAt

LEMMA MenuEnd == ASSUME EndRT PROVE MenuInv'
BY EndEffect DEF MenuInv

LEMMA MenuGetCommand ==
    ASSUME IInv, MenuInv, NEW input \in UserInputs, GetCommand(input)
    PROVE  MenuInv'
BY GetCommandEffect DEF IInv, RequestInv, MenuInv

LEMMA MenuReceive == ASSUME IInv, MenuInv, GetMsgReceive PROVE MenuInv'
<1>1. /\ Slot' \in Elems(ipcQueue) /\ Disp' = {Slot'}
      /\ UNCHANGED <<sent, opRep, Agg, Op>>
  BY ReceiveEffect DEF IInv, RequestInv
<1>2. Slot' # 0
  BY <1>1, NaturalPlaces DEF IInv, RequestInv, ArrivalInv
<1> QED
  BY <1>1, <1>2, MenuSame DEF MenuInv

LEMMA MenuReport == ASSUME IInv, MenuInv, GetMsgReport PROVE MenuInv'
<1>1. NoDup(aggWithDespQueue)
  BY DEF IInv, RequestInv, UniqueInv
<1>2. /\ Disp = {Slot} /\ Disp' = {} /\ Agg' = Agg \cup {Slot}
      /\ UNCHANGED <<sent, opRep, Op>>
  BY <1>1, ReportEffect DEF IInv
<1> QED
  BY <1>2, MenuSame DEF MenuInv

LEMMA MenuAggregator == ASSUME IInv, MenuInv, AggregatorRepFunction PROVE MenuInv'
<1> PICK n \in Agg :
           /\ Slot' = Slot /\ n \in Nat /\ Agg' = Agg \ {n}
           /\ Op' = Op \/ Op' = Op \cup {n}
           /\ UNCHANGED <<sent, opRep, Disp>>
  BY AggregatorEffect DEF IInv, RequestInv
<1>1. n # 0 /\ 0 \notin (Disp \cup Agg)'
  BY DEF MenuInv
<1>2. CASE Op' = Op
  BY <1>1, <1>2, MenuSame
<1>3. CASE Op' # Op
  <2>1. TypeAt(Slot) = REP_OPER
    BY <1>3 DEF AggregatorRepFunction, ToOperators, Op
  <2>2. Paced => n = Slot
    BY NaturalPlaces DEF IInv, RequestInv, PacedInv, ArrivalInv, BehindInv
  <2>3. Paced => \A k \in Op' : k # 0 /\ TypeAt(k) = REP_OPER
    BY <1>1, <2>1, <2>2 DEF MenuInv
  <2> QED
    BY <1>1, <2>3 DEF MenuInv, TypeAt
<1> QED
  BY <1>2, <1>3

LEMMA MenuTake == ASSUME IInv, MenuInv, OpAggregatorRepTake PROVE MenuInv'
<1>1. NoDup(opAggQueue)
  BY DEF IInv, RequestInv, UniqueInv
<1>2. /\ opRep'.for \in Op /\ opRep'.name = Slot /\ Op' = Op \ {opRep'.for}
      /\ UNCHANGED <<sent, Disp, Agg>>
  BY <1>1, OpTakeEffect DEF IInv
<1>3. Paced => opRep'.for = Slot
  BY <1>2, NaturalPlaces DEF IInv, RequestInv, PacedInv, ArrivalInv, BehindInv
<1> QED
  BY <1>2, <1>3 DEF MenuInv, TypeAt

LEMMA MenuSwitch ==
    ASSUME IInv, MenuInv,
           SubAggregatorRepTake \/ SubAggregatorRepSwitch \/ OpAggregatorRepSwitch
    PROVE  MenuInv'
<1>1. CASE SubAggregatorRepTake
  <2>1. NoDup(subAggQueue)
    BY DEF IInv, RequestInv, UniqueInv
  <2> QED
    BY <1>1, <2>1, SubTakeEffect DEF IInv, MenuInv, TypeAt
<1>2. CASE SubAggregatorRepSwitch
  BY <1>2, SubSwitchEffect DEF IInv, MenuInv, TypeAt
<1>3. CASE OpAggregatorRepSwitch
  BY <1>3, OpSwitchEffect DEF IInv, MenuInv, TypeAt
<1> QED
  BY <1>1, <1>2, <1>3

LEMMA MenuStep == IInv /\ MenuInv /\ [Next]_vars => MenuInv'
<1> SUFFICES ASSUME IInv, MenuInv, [Next]_vars PROVE MenuInv'
  OBVIOUS
<1>1. CASE RTKilled \/ OpAggregatorRepOverrun
  BY <1>1, MenuEnd DEF RTKilled, OpAggregatorRepOverrun
<1>2. CASE \E input \in UserInputs : GetCommand(input)
  BY <1>2, MenuGetCommand
<1>3. CASE Quiet
  BY <1>3, QuietEffect, MenuSame DEF SameRequests, MenuInv
<1>4. CASE UserInterfaceCreate \/ DispatcherCreate
  BY <1>4, AttachEffect, MenuSame DEF SameRequests, MenuInv
<1>5. CASE GetMsgReceive \/ GetMsgReport \/ AggregatorRepFunction
  BY <1>5, MenuReceive, MenuReport, MenuAggregator
<1>6. CASE OpAggregatorRepTake
  BY <1>6, MenuTake
<1>7. CASE SubAggregatorRepTake \/ SubAggregatorRepSwitch \/ OpAggregatorRepSwitch
  BY <1>7, MenuSwitch
<1> QED
  BY <1>1, <1>2, <1>3, <1>4, <1>5, <1>6, <1>7
     DEF Next, Environment, Threads, GetMsg, Quiet

(* For any user who waits and keeps to the operator menu, the index into    *)
(* names[] stays inside its six entries, whatever else the user enters.     *)
THEOREM MenuUserIsSafe == Spec => []MenuUserStaysInTable
<1>1. IInv /\ MenuInv => MenuUserStaysInTable
  <2> SUFFICES ASSUME IInv, MenuInv, Paced, opRep.busy,
                      \A n \in DOMAIN sent :
                          TypeAt(n) = REP_OPER => NameAt(n) \in DOMAIN OperatorNames
               PROVE  NameInTable
    BY DEF MenuUserStaysInTable
  <2>1. opRep.name # 0 /\ TypeAt(opRep.name) = REP_OPER /\ opRep.name = Len(sent)
    BY DEF MenuInv, IInv, RequestInv, PacedInv
  <2>2. opRep.name \in DOMAIN sent
    BY <2>1, LenProperties, NaturalPlaces DEF IInv, TypeOK
  <2> QED
    BY <2>1, <2>2 DEF NameInTable
<1> QED
  BY <1>1, MenuInit, MenuStep, Invariance, PTL DEF Spec
-----------------------------------------------------------------------------
(* Commands are numbered from 1, wherever they are on their way. *)

NumberedInv == 0 \notin Disp \cup Agg \cup Sub \cup Op \cup SubBusy \cup OpBusy \cup Rep

LEMMA NumberedStep == IInv /\ NumberedInv /\ [Next]_vars => NumberedInv'
<1> SUFFICES ASSUME IInv, NumberedInv, [Next]_vars PROVE NumberedInv'
  OBVIOUS
<1>0. TypeOK /\ ArrivalInv /\ UniqueInv /\ NoDup(aggWithDespQueue) /\ NoDup(subAggQueue) /\ NoDup(opAggQueue)
  BY DEF IInv, RequestInv, UniqueInv
<1>1. CASE RTKilled \/ OpAggregatorRepOverrun
  BY <1>1, EndEffect DEF RTKilled, OpAggregatorRepOverrun, NumberedInv
<1>2. ASSUME NEW input \in UserInputs, GetCommand(input) PROVE NumberedInv'
  BY <1>0, <1>2, GetCommandEffect DEF NumberedInv
<1>3. CASE Quiet \/ UserInterfaceCreate \/ DispatcherCreate
  BY <1>3, QuietEffect, AttachEffect DEF SameRequests, NumberedInv
<1>4. CASE GetMsgReceive
  <2>1. /\ Slot' \in Elems(ipcQueue) /\ Disp' = {Slot'}
        /\ UNCHANGED <<Agg, Sub, Op, SubBusy, OpBusy, Rep>>
    BY <1>0, <1>4, ReceiveEffect
  <2>2. Slot' # 0
    BY <1>0, <2>1, NaturalPlaces DEF ArrivalInv
  <2> QED
    BY <2>1, <2>2 DEF NumberedInv
<1>5. CASE GetMsgReport
  BY <1>0, <1>5, ReportEffect DEF NumberedInv
<1>6. CASE AggregatorRepFunction
  BY <1>0, <1>6, AggregatorEffect DEF NumberedInv
<1>7. CASE SubAggregatorRepTake \/ OpAggregatorRepTake
  BY <1>0, <1>7, SubTakeEffect, OpTakeEffect DEF NumberedInv
<1>8. CASE SubAggregatorRepSwitch \/ OpAggregatorRepSwitch
  BY <1>0, <1>8, SubSwitchEffect, OpSwitchEffect DEF NumberedInv
<1> QED
  BY <1>1, <1>2, <1>3, <1>4, <1>5, <1>6, <1>7, <1>8
     DEF Next, Environment, Threads, GetMsg, Quiet
-----------------------------------------------------------------------------
(* The refinement. *)

PathInv == IInv /\ TakenInv /\ PauseInv /\ NumberedInv

LEMMA NoElements == ASSUME NEW q \in Seq(Nat), Elems(q) = {} PROVE q = << >>
BY DEF Elems

(* What has been settled stays so until the user enters the next command.   *)
LEMMA SettledStays ==
    ASSUME Settled, [Next]_vars, ~\E input \in UserInputs : GetCommand(input)
    PROVE  Settled' /\ UNCHANGED <<sent, reports>>
<1> USE DEF Settled, ReportPathIdle, SelfDeadlock
<1>1. CASE RTKilled \/ OpAggregatorRepOverrun
  BY <1>1 DEF RTKilled, OpAggregatorRepOverrun, EndRT, IdleReader, uiVars
<1>2. CASE UserInterfaceCreate \/ DispatcherCreate
  BY <1>2 DEF UserInterfaceCreate, DispatcherCreate, GetSharedIPCQueue, uiVars, dispVars,
              reportPath, watcherVars
<1>3. CASE FileWatcherForpauseTake \/ FileWatcherForpauseCheck \/ SpuriousWakeup
  BY <1>3 DEF FileWatcherForpauseTake, FileWatcherForpauseCheck, SpuriousWakeup, uiVars,
              dispVars, reportPath
<1>4. CASE UNCHANGED vars
  BY <1>4 DEF vars, uiVars, dispVars, reportPath, watcherVars
<1>5. ~GetMsg /\ ~AggregatorRepFunction /\ ~SubAggregatorRepTake /\ ~SubAggregatorRepSwitch
      /\ ~OpAggregatorRepTake /\ ~OpAggregatorRepSwitch
      /\ ~DataWatcherCommandTake /\ ~DataWatcherCommandLock
  BY DEF GetMsg, GetMsgReceive, GetMsgReport, GetMsgToDataWatcher, GetMsgSetFlag,
         GetMsgToFileWatcher, GetMsgIgnore, AggregatorRepFunction, SubAggregatorRepTake,
         SubAggregatorRepSwitch, OpAggregatorRepTake, OpAggregatorRepSwitch,
         DataWatcherCommandTake, DataWatcherCommandLock
<1> QED
  BY <1>1, <1>2, <1>3, <1>4, <1>5 DEF Next, Environment, Threads

(* Something is on its way only if a command was sent.                      *)
LEMMA OutstandingIsSent ==
    ASSUME PathInv, Paced, ~Settled
    PROVE  /\ Len(sent) \in 1 .. Len(sent)
           /\ Outstanding = [type |-> TypeAt(Len(sent)), name |-> NameAt(Len(sent))]
           /\ Outstanding \in Command /\ Outstanding # NoCommand
<1>1. IInv /\ TypeOK /\ RequestInv /\ Len(sent) \in Nat
  BY NaturalPlaces DEF PathInv, IInv
<1>2. taken # << >> => Len(sent) >= 1
  BY <1>1, SlotIsLast DEF PathInv, TakenInv
<1>3. ASSUME ipcQueue # << >> PROVE Len(sent) >= 1
  <2>1. Elems(ipcQueue) # {}
    BY <1>1, <1>3, NoElements DEF TypeOK
  <2>2. PICK n \in Elems(ipcQueue) : Slot < n /\ n <= Len(sent)
    BY <1>1, <2>1 DEF RequestInv, ArrivalInv
  <2> QED
    BY <1>1, <2>2, NaturalPlaces DEF RequestInv
<1>4. ASSUME Agg \cup Sub \cup Op \cup SubBusy \cup OpBusy # {} PROVE Len(sent) >= 1
  <2>1. PICK n \in Agg \cup Sub \cup Op \cup SubBusy \cup OpBusy : TRUE
    BY <1>4
  <2>2. n # 0 /\ n = Len(sent)
    BY <1>1, <2>1 DEF PathInv, NumberedInv, RequestInv, PacedInv, SubBusy, OpBusy
  <2> QED
    BY <1>1, <2>2
<1>6. \/ ipcQueue # << >> \/ taken # << >>
      \/ Agg \cup Sub \cup Op \cup SubBusy \cup OpBusy # {}
  <2>1. CASE dispPc # "remove" \/ ~DataWatcherIdle
    BY <2>1 DEF PathInv, TakenInv, PauseInv, OneAtATime
  <2>2. CASE aggWithDespQueue # << >> \/ subAggQueue # << >> \/ opAggQueue # << >>
    BY <1>1, <2>2, NoElements DEF TypeOK, Agg, Sub, Op
  <2>3. CASE subRep.busy \/ opRep.busy
    BY <2>3 DEF SubBusy, OpBusy
  <2> QED
    BY <2>1, <2>2, <2>3 DEF Settled, ReportPathIdle, DataWatcherIdle
<1>7. Len(sent) \in 1 .. Len(sent)
  BY <1>1, <1>2, <1>3, <1>4, <1>6
<1>8. sent[Len(sent)] \in SentWord
  BY <1>1, <1>7, ElementOfSeq DEF TypeOK
<1>9. Outstanding = [type |-> TypeAt(Len(sent)), name |-> NameAt(Len(sent))]
  BY DEF Outstanding
<1>10. Outstanding \in Command
  BY <1>8, <1>9 DEF TypeAt, NameAt, SentWord, Command
<1> QED
  BY <1>7, <1>9, <1>10, CommandPathAssumption

(* The reports made so far are of commands sent. *)
LEMMA ReportsAreSent ==
    ASSUME PathInv, Paced
    PROVE  /\ reports \in Seq(Record) /\ DOMAIN reports = 1 .. Len(reports)
           /\ Len(reports) \in Nat
           /\ \A i \in DOMAIN reports : reports[i].name \in 1 .. Len(sent)
<1>1. IInv /\ TypeOK /\ RequestInv /\ Len(sent) \in Nat
  BY NaturalPlaces DEF PathInv, IInv
<1>2. /\ reports \in Seq(Record) /\ DOMAIN reports = 1 .. Len(reports)
      /\ Len(reports) \in Nat
  BY <1>1, LenProperties DEF TypeOK
<1>3. ASSUME NEW i \in 1 .. Len(reports) PROVE reports[i].name \in 1 .. Len(sent)
  <2>1. /\ reports[i].name = reports[i].for /\ reports[i].name <= reports[i].type
        /\ reports[i].type <= Len(sent)
    BY <1>1 DEF RequestInv, PacedInv, BehindInv
  <2>2. reports[i].for # 0
    BY DEF PathInv, NumberedInv, Rep
  <2> QED
    BY <1>1, <2>1, <2>2, NaturalPlaces
<1> QED
  BY <1>2, <1>3

LEMMA AnsweredSame ==
    ASSUME PathInv, Paced, reports' = reports,
           \A n \in 1 .. Len(sent) : sent'[n] = sent[n]
    PROVE  Answered' = Answered
<1>1. \A i \in DOMAIN reports : NameAt(reports[i].name)' = NameAt(reports[i].name)
  BY ReportsAreSent DEF NameAt
<1> QED
  BY <1>1 DEF Answered

(* A report that is made adds its answer. *)
LEMMA AnsweredGrows ==
    ASSUME PathInv, Paced, NEW r \in Record, reports' = Append(reports, r), sent' = sent
    PROVE  Answered' = Append(Answered, [by |-> r.by, name |-> NameAt(r.name)])
<1>0. PICK x : x = [by |-> r.by, name |-> NameAt(r.name)]
  OBVIOUS
<1>1. /\ reports \in Seq(Record) /\ Len(reports) \in Nat /\ DOMAIN reports = 1 .. Len(reports)
      /\ reports' \in Seq(Record) /\ Len(reports') = Len(reports) + 1
      /\ DOMAIN reports' = 1 .. Len(reports) + 1
      /\ \A i \in 1 .. Len(reports) : reports'[i] = reports[i]
      /\ reports'[Len(reports) + 1] = r
  BY ReportsAreSent, AppendProperties, LenProperties
<1>2. \A n : NameAt(n)' = NameAt(n)
  BY DEF NameAt
<1>3. PICK T : /\ x \in T
               /\ \A i \in 1 .. Len(reports) :
                      [by |-> reports[i].by, name |-> NameAt(reports[i].name)] \in T
  <2> DEFINE T == {x} \cup {[by |-> reports[i].by, name |-> NameAt(reports[i].name)]
                                : i \in 1 .. Len(reports)}
  <2> QED
    BY x \in T, \A i \in 1 .. Len(reports) :
                      [by |-> reports[i].by, name |-> NameAt(reports[i].name)] \in T
<1>4. PICK a : a = Answered
  OBVIOUS
<1>5. a \in [1 .. Len(reports) -> T]
  BY <1>1, <1>3, <1>4 DEF Answered
<1>6. a \in Seq(T) /\ Len(a) = Len(reports)
  BY <1>1, <1>5, SeqDef, LenProperties
<1>7. /\ DOMAIN Append(a, x) = 1 .. Len(reports) + 1
      /\ \A i \in 1 .. Len(reports) : Append(a, x)[i] = a[i]
      /\ Append(a, x)[Len(reports) + 1] = x
      /\ Append(a, x) \in Seq(T)
  BY <1>3, <1>6, AppendProperties, LenProperties
<1>8. PICK b : b = Answered'
  OBVIOUS
<1>9. b = [i \in 1 .. Len(reports) + 1 |-> [by |-> reports'[i].by, name |-> NameAt(reports'[i].name)]]
  BY <1>1, <1>2, <1>8 DEF Answered
<1>10. \A i \in 1 .. Len(reports) + 1 : b[i] = Append(a, x)[i]
  <2>1. \A i \in 1 .. Len(reports) : a[i] = [by |-> reports[i].by, name |-> NameAt(reports[i].name)]
    BY <1>1, <1>4 DEF Answered
  <2>2. \A i \in 1 .. Len(reports) + 1 : i \in 1 .. Len(reports) \/ i = Len(reports) + 1
    BY <1>1
  <2> QED
    BY <1>0, <1>1, <1>7, <1>9, <2>1, <2>2
<1>11. b = Append(a, x)
  <2>1. Append(a, x) \in [1 .. Len(reports) + 1 -> T]
    <3>1. PICK c : c = Append(a, x)
      OBVIOUS
    <3>2. c \in Seq(T) /\ Len(c) = Len(reports) + 1
      BY <1>3, <1>6, <3>1, AppendProperties
    <3> QED
      BY <1>1, <3>1, <3>2, LenProperties
  <2>2. b = [i \in 1 .. Len(reports) + 1 |-> b[i]]
    BY <1>9
  <2>3. Append(a, x) = [i \in 1 .. Len(reports) + 1 |-> Append(a, x)[i]]
    BY <2>1
  <2> QED
    BY <1>10, <2>2, <2>3
<1> QED
  BY <1>0, <1>4, <1>8, <1>11

(* A report thread that answers is the only one with something to do.       *)
LEMMA OnlyTheAnswer ==
    ASSUME PathInv, Paced, subRep.busy \/ opRep.busy, TypeAt(Slot) \notin ToggleTypes
    PROVE  /\ Slot = Len(sent)
           /\ subRep.busy => subRep.name = Len(sent) /\ ~opRep.busy
           /\ opRep.busy => opRep.name = Len(sent) /\ ~subRep.busy
           /\ ipcQueue = << >> /\ dispPc = "remove"
           /\ aggWithDespQueue = << >> /\ subAggQueue = << >> /\ opAggQueue = << >>
           /\ (dwCmdQueue = << >> /\ dwPc = "remove") \/ SelfDeadlock
<1>1. IInv /\ TypeOK /\ ArrivalInv /\ BehindInv /\ UniqueInv /\ PacedInv
  BY DEF PathInv, IInv, RequestInv
<1>2. /\ subRep.busy => /\ subRep.name = Len(sent) /\ subRep.for = Len(sent)
                        /\ subRep.name <= Slot
      /\ opRep.busy => /\ opRep.name = Len(sent) /\ opRep.for = Len(sent)
                       /\ opRep.name <= Slot
  BY <1>1 DEF PacedInv, BehindInv
<1>3. Slot = Len(sent)
  BY <1>1, <1>2, NaturalPlaces DEF ArrivalInv
<1>4. Elems(ipcQueue) = {}
  BY <1>1, <1>3, NaturalPlaces DEF ArrivalInv
<1>5. Len(sent) \in SubBusy \cup OpBusy /\ SubBusy \cap OpBusy = {}
  BY <1>1, <1>2 DEF SubBusy, OpBusy, UniqueInv
<1>6. Disp = {} /\ Agg = {} /\ Sub = {} /\ Op = {}
  BY <1>1, <1>5 DEF UniqueInv, PacedInv
<1>7. ~(subRep.busy /\ opRep.busy)
  BY <1>2, <1>5 DEF SubBusy, OpBusy
<1>8. /\ ipcQueue = << >>
      /\ aggWithDespQueue = << >> /\ subAggQueue = << >> /\ opAggQueue = << >>
  BY <1>1, <1>4, <1>6, NoElements DEF TypeOK, Agg, Sub, Op
<1>9. dispPc = "remove"
  BY <1>1, <1>6 DEF Disp, PathInv, PauseInv, OneAtATime, TypeOK
<1>10. (dwCmdQueue = << >> /\ dwPc = "remove") \/ SelfDeadlock
  BY <1>1, ToggleWords DEF PathInv, PauseInv, OneAtATime, TypeOK
<1> QED
  BY <1>2, <1>3, <1>7, <1>8, <1>9, <1>10

LEMMA SubAnswers ==
    ASSUME PathInv, Paced, SubAggregatorRepSwitch, reports' # reports
    PROVE  Service!Reply
<1>1. /\ subRep.busy /\ TypeAt(Slot) = REP_ONE_SUB
      /\ reports' = Append(reports, Report("subscriber", subRep))
      /\ subRep' = [subRep EXCEPT !.busy = FALSE]
      /\ UNCHANGED <<sent, ipcQueue, taken, dispPc, aggWithDespQueue, subAggQueue, opAggQueue,
                     opRep, dwCmdQueue, dwPc, dwMutex>>
  BY DEF SubAggregatorRepSwitch, uiVars, dispVars, watcherVars
<1>2. TypeAt(Slot) \notin ToggleTypes
  BY <1>1 DEF ToggleTypes, REP_ONE_SUB, PAUSE, RESUME
<1>3. /\ Slot = Len(sent) /\ subRep.name = Len(sent) /\ ~opRep.busy
      /\ ipcQueue = << >> /\ dispPc = "remove"
      /\ aggWithDespQueue = << >> /\ subAggQueue = << >> /\ opAggQueue = << >>
      /\ (dwCmdQueue = << >> /\ dwPc = "remove") \/ SelfDeadlock
  BY <1>1, <1>2, OnlyTheAnswer
<1>4. ~subRep'.busy
  BY <1>1 DEF PathInv, IInv, TypeOK, Thread
<1>5. ~Settled /\ Settled'
  BY <1>1, <1>3, <1>4 DEF Settled, ReportPathIdle, SelfDeadlock
<1>6. /\ Outstanding # NoCommand /\ Outstanding' = NoCommand
      /\ Outstanding = [type |-> REP_ONE_SUB, name |-> NameAt(Len(sent))]
  BY <1>1, <1>3, <1>5, OutstandingIsSent DEF Outstanding
<1>7. Report("subscriber", subRep) \in Record
  BY SlotType DEF PathInv, IInv, TypeOK, Report, Record, Thread
<1>8. Answered' = Append(Answered, [by |-> "subscriber", name |-> NameAt(Len(sent))])
  BY <1>1, <1>3, <1>7, AnsweredGrows DEF Report
<1>9. Service!Answer(Outstanding) = [by |-> "subscriber", name |-> NameAt(Len(sent))]
  BY <1>6 DEF Service!Answer, REP_ONE_SUB, Service!REP_ONE_SUB
<1> QED
  BY <1>6, <1>8, <1>9
  DEF Service!Reply, REP_ONE_SUB, REP_OPER, Service!REP_ONE_SUB, Service!REP_OPER

LEMMA OpAnswers ==
    ASSUME PathInv, Paced, OpAggregatorRepSwitch, reports' # reports
    PROVE  Service!Reply
<1>1. /\ opRep.busy /\ TypeAt(Slot) = REP_OPER
      /\ reports' = Append(reports, Report("operator", opRep))
      /\ opRep' = [opRep EXCEPT !.busy = FALSE]
      /\ UNCHANGED <<sent, ipcQueue, taken, dispPc, aggWithDespQueue, subAggQueue, opAggQueue,
                     subRep, dwCmdQueue, dwPc, dwMutex>>
  BY DEF OpAggregatorRepSwitch, uiVars, dispVars, watcherVars
<1>2. TypeAt(Slot) \notin ToggleTypes
  BY <1>1 DEF ToggleTypes, REP_OPER, PAUSE, RESUME
<1>3. /\ Slot = Len(sent) /\ opRep.name = Len(sent) /\ ~subRep.busy
      /\ ipcQueue = << >> /\ dispPc = "remove"
      /\ aggWithDespQueue = << >> /\ subAggQueue = << >> /\ opAggQueue = << >>
      /\ (dwCmdQueue = << >> /\ dwPc = "remove") \/ SelfDeadlock
  BY <1>1, <1>2, OnlyTheAnswer
<1>4. ~opRep'.busy
  BY <1>1 DEF PathInv, IInv, TypeOK, Thread
<1>5. ~Settled /\ Settled'
  BY <1>1, <1>3, <1>4 DEF Settled, ReportPathIdle, SelfDeadlock
<1>6. /\ Outstanding # NoCommand /\ Outstanding' = NoCommand
      /\ Outstanding = [type |-> REP_OPER, name |-> NameAt(Len(sent))]
  BY <1>1, <1>3, <1>5, OutstandingIsSent DEF Outstanding
<1>7. Report("operator", opRep) \in Record
  BY SlotType DEF PathInv, IInv, TypeOK, Report, Record, Thread
<1>8. Answered' = Append(Answered, [by |-> "operator", name |-> NameAt(Len(sent))])
  BY <1>1, <1>3, <1>7, AnsweredGrows DEF Report
<1>9. Service!Answer(Outstanding) = [by |-> "operator", name |-> NameAt(Len(sent))]
  BY <1>6 DEF Service!Answer, REP_ONE_SUB, REP_OPER, Service!REP_ONE_SUB
<1> QED
  BY <1>6, <1>8, <1>9
  DEF Service!Reply, REP_ONE_SUB, REP_OPER, Service!REP_ONE_SUB, Service!REP_OPER

LEMMA Submits ==
    ASSUME PathInv, Paced, NEW input \in UserInputs, GetCommand(input)
    PROVE  Service!Submit
<1>1. Settled /\ Outstanding = NoCommand
  BY DEF GetCommand, Outstanding
<1>2. /\ Len(sent') = Len(sent) + 1 /\ Len(sent) \in Nat /\ reports' = reports
      /\ \A n \in 1 .. Len(sent) : sent'[n] = sent[n]
      /\ sent'[Len(sent')] \in SentWord
  <2>1. sent' \in Seq(SentWord)
    BY TypeGetCommand DEF PathInv, IInv, TypeOK
  <2>2. /\ Len(sent') = Len(sent) + 1 /\ Len(sent) \in Nat
        /\ \A n \in 1 .. Len(sent) : sent'[n] = sent[n]
    BY SentGrows DEF PathInv, IInv
  <2>3. sent'[Len(sent')] \in SentWord
    BY <2>1, <2>2, ElementOfSeq
  <2> QED
    BY <2>2, <2>3 DEF GetCommand
<1>3. ~Settled'
  <2>1. Len(ipcQueue') = Len(ipcQueue) + 1 /\ Len(ipcQueue) \in Nat
    BY SentGrows DEF PathInv, IInv, TypeOK
  <2> QED
    BY <2>1 DEF Settled
<1>4. Outstanding' \in Command
  BY <1>2, <1>3 DEF Outstanding, TypeAt, NameAt, SentWord, Command
<1> QED
  BY <1>1, <1>2, <1>4, AnsweredSame
  DEF Service!Submit, Command, TypeValues, NameValues,
      Service!Command, Service!TypeValues, Service!NameValues

(* Every step of the path is one of the service, or leaves it alone.        *)
LEMMA ServiceStep ==
    ASSUME PathInv, Paced, [Next]_vars
    PROVE  [Service!Next]_(Service!vars)
<1>1. CASE \E input \in UserInputs : GetCommand(input)
  BY <1>1, Submits DEF Service!Next
<1>2. CASE ~\E input \in UserInputs : GetCommand(input)
  <2>1. CASE Settled
    <3>1. Settled' /\ UNCHANGED <<sent, reports>>
      BY <1>2, <2>1, SettledStays
    <3> QED
      BY <2>1, <3>1, AnsweredSame DEF Outstanding, Service!vars
  <2>2. CASE ~Settled /\ reports' # reports
    <3>1. SubAggregatorRepSwitch \/ OpAggregatorRepSwitch
      <4>1. ~UNCHANGED vars /\ ~EndRT
        BY <2>2 DEF vars, EndRT
      <4> QED
        BY <1>2, <2>2, <4>1, QuietEffect, AttachEffect
        DEF Next, Environment, Threads, GetMsg, Quiet, SameRequests, RTKilled,
            OpAggregatorRepOverrun, GetMsgReceive, GetMsgReport, AggregatorRepFunction,
            SubAggregatorRepTake, OpAggregatorRepTake
    <3> QED
      BY <2>2, <3>1, SubAnswers, OpAnswers DEF Service!Next
  <2>3. CASE ~Settled /\ reports' = reports
    <3>1. sent' = sent
      <4>1. CASE UNCHANGED vars \/ EndRT
        BY <4>1 DEF vars, EndRT, uiVars
      <4> QED
        BY <1>2, <4>1, QuietEffect, AttachEffect, ReportPathKeeps
        DEF Next, Environment, Threads, GetMsg, Quiet, SameRequests, RTKilled, received,
            OpAggregatorRepOverrun, GetMsgReceive, GetMsgReport, uiVars
    <3>2. Answered' = Answered
      BY <2>3, <3>1, AnsweredSame
    <3>3. CASE Settled'
      <4>1. Outstanding # NoCommand /\ Outstanding' = NoCommand
        BY <2>3, <3>3, OutstandingIsSent DEF Outstanding
      <4> QED
        BY <3>2, <4>1 DEF Service!Next, Service!Finish
    <3>4. CASE ~Settled'
      BY <2>3, <3>1, <3>2, <3>4 DEF Outstanding, TypeAt, NameAt, Service!vars
    <3> QED
      BY <3>3, <3>4
  <2> QED
    BY <2>1, <2>2, <2>3
<1> QED
  BY <1>1, <1>2

(* To a user who waits, the command path with its shared msg, its queues    *)
(* and its restarts is a service with one command outstanding, which is     *)
(* answered at most once, under its own name and by its own aggregator.     *)
THEOREM WaitingUserHasAService ==
    ASSUME Paced PROVE Spec => ImplementsService
<1>1. Init => Service!Init
  BY DEF Init, Service!Init, Outstanding, Answered, Settled, ReportPathIdle, IdleReader
<1>2. Init => NumberedInv
  BY EmptyElems DEF Init, IdleReader, NumberedInv, Disp, Agg, Sub, Op, SubBusy, OpBusy, Rep
<1>3. Spec => [](IInv /\ TakenInv /\ PauseInv)
  BY PauseInvariance, PTL
<1>4. PathInv /\ [Next]_vars => [Service!Next]_(Service!vars)
  BY ServiceStep
<1> QED
  BY <1>1, <1>2, <1>3, <1>4, NumberedStep, PTL DEF Spec, ImplementsService, Service!Spec, PathInv
=============================================================================
