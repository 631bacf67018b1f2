---------------------------- MODULE CommandPath -----------------------------
(***************************************************************************)
(* The path of a user's command: UI process, IPC queue, dispatcher thread, *)
(* and the threads of the RT process that act on it.                       *)
(*                                                                         *)
(* GetMsg in despatcher.c receives every command into ONE local variable,  *)
(* msg, and inserts the ADDRESS of that variable into the queues of the    *)
(* other threads.  Every pointer in every command queue is therefore the   *)
(* same pointer, and a thread that follows it sees the command that the    *)
(* dispatcher received last.  Here a command is identified by its position *)
(* in sent, msg holds the command at position Slot, and a queue entry      *)
(* keeps the position of the command it was inserted for: a history value, *)
(* which the code does not have and no action reads except to record it.   *)
(*                                                                         *)
(* A step removes a pointer and makes the first access through it: the     *)
(* removal alone touches nothing that another thread reads.  Each later    *)
(* access is a step of its own.                                            *)
(***************************************************************************)
EXTENDS Commands, Sequences, FiniteSets

CONSTANTS
    UserInputs,    \* what a user may enter: [choice : menu number, name : number]
    Paced,         \* does the user wait for a command to finish?
    MaxCommands,   \* bound: commands entered
    MaxUIStarts,   \* bound: starts of the UI process
    MaxRTStarts,   \* bound: starts of the RT process
    IpcCapacity,   \* places in the shared-memory queue
    QueueCap,      \* QUEUE_INITIAL_LENGTH
    NoCommand      \* no command is outstanding

ASSUME CommandPathAssumption ==
    /\ UserInputs \subseteq [choice : Int, name : Int]
    /\ Paced \in BOOLEAN
    /\ MaxCommands \in Nat /\ MaxUIStarts \in Nat /\ MaxRTStarts \in Nat
    /\ IpcCapacity \in Nat \ {0} /\ QueueCap \in Nat \ {0}
    /\ NoCommand \notin Command

VARIABLES
    uiStarts, sent, ipcQueue,                 \* UI process and shared memory
    rt, rtStarts,                             \* life of the RT process
    taken, dispPc,                            \* dispatcher thread
    isPause,                                  \* the static flag of fileWatcher.c
    aggWithDespQueue, subAggQueue, opAggQueue,\* queues towards the aggregators
    dwCmdQueue, fwCmdQueue,                   \* queues towards the watchers
    subRep, opRep,                            \* report threads of the aggregators
    dwPc, dwMutex,                            \* data watcher's command thread
    fwPc,                                     \* file watcher's pause thread
    reports                                   \* history: records sent to m_repGenQueue

uiVars      == <<uiStarts, sent>>
rtVars      == <<rt, rtStarts>>
dispVars    == <<taken, dispPc, isPause>>
reportPath  == <<aggWithDespQueue, subAggQueue, opAggQueue, subRep, opRep>>
watcherVars == <<dwCmdQueue, fwCmdQueue, dwPc, dwMutex, fwPc>>
vars == <<uiVars, ipcQueue, rtVars, dispVars, reportPath, watcherVars, reports>>

(* The position of the command that msg holds; 0 before the first one. *)
Slot == IF taken = << >> THEN 0 ELSE taken[Len(taken)]

TypeAt(n) == sent[n].type
NameAt(n) == sent[n].name

Running == rt = "up"

IdleReader == [busy |-> FALSE, for |-> 0, name |-> 0]

(* A data watcher command thread that locks m_mutex while it holds it.      *)
SelfDeadlock == dwPc = "lock" /\ dwMutex

ReportPathIdle ==
    /\ aggWithDespQueue = << >> /\ subAggQueue = << >> /\ opAggQueue = << >>
    /\ ~subRep.busy /\ ~opRep.busy

(* Every thread that can still act on the last command has done so.         *)
Settled ==
    /\ ipcQueue = << >>
    /\ dispPc = "remove"
    /\ ReportPathIdle
    /\ \/ dwCmdQueue = << >> /\ dwPc = "remove"
       \/ SelfDeadlock
-----------------------------------------------------------------------------
Init ==
    /\ uiStarts = 0 /\ sent = << >> /\ ipcQueue = << >>
    /\ rt = "down" /\ rtStarts = 0
    /\ taken = << >> /\ dispPc = "remove" /\ isPause = FALSE
    /\ aggWithDespQueue = << >> /\ subAggQueue = << >> /\ opAggQueue = << >>
    /\ subRep = IdleReader /\ opRep = IdleReader
    /\ dwCmdQueue = << >> /\ fwCmdQueue = << >>
    /\ dwPc = "remove" /\ dwMutex = FALSE /\ fwPc = "remove"
    /\ reports = << >>

(* GetSharedIPCQueue runs IpcQueueCreate on every attach, so the process    *)
(* that attaches empties the queue whatever it holds.                       *)
GetSharedIPCQueue == ipcQueue' = << >>

UserInterfaceCreate ==
    /\ uiStarts < MaxUIStarts
    /\ uiStarts' = uiStarts + 1
    /\ GetSharedIPCQueue
    /\ UNCHANGED <<sent, rtVars, dispVars, reportPath, watcherVars, reports>>

DispatcherCreate ==
    /\ ~Running
    /\ rtStarts < MaxRTStarts
    /\ rt' = "up" /\ rtStarts' = rtStarts + 1
    /\ GetSharedIPCQueue
    /\ UNCHANGED <<uiVars, dispVars, reportPath, watcherVars, reports>>

(* The RT process ends, for whatever reason, and its memory with it.        *)
EndRT ==
    /\ rt' = "down"
    /\ taken' = << >> /\ dispPc' = "remove" /\ isPause' = FALSE
    /\ aggWithDespQueue' = << >> /\ subAggQueue' = << >> /\ opAggQueue' = << >>
    /\ subRep' = IdleReader /\ opRep' = IdleReader
    /\ dwCmdQueue' = << >> /\ fwCmdQueue' = << >>
    /\ dwPc' = "remove" /\ dwMutex' = FALSE /\ fwPc' = "remove"
    /\ UNCHANGED <<uiVars, ipcQueue, rtStarts, reports>>

RTKilled ==
    /\ Running
    /\ EndRT
-----------------------------------------------------------------------------
(* A command as entered: the encoded word, and the number the user typed.   *)
SentCommand(input) ==
    [type |-> Encode(input).type, name |-> Encode(input).name, asked |-> input.name]

(* UI process: GetCommand reads a menu choice, SendCommand inserts the word. *)
GetCommand(input) ==
    /\ uiStarts > 0
    /\ Len(sent) < MaxCommands
    /\ Len(ipcQueue) < IpcCapacity
    /\ Paced => Settled
    /\ sent' = Append(sent, SentCommand(input))
    /\ ipcQueue' = Append(ipcQueue, Len(sent) + 1)
    /\ UNCHANGED <<uiStarts, rtVars, dispVars, reportPath, watcherVars, reports>>
-----------------------------------------------------------------------------
(* Dispatcher thread (GetMsg).                                              *)

(* The word that IpcQueueRemove returns: the oldest one.                    *)
NextMessage == Head(ipcQueue)

(* The next word overwrites msg, whoever may still point to it.             *)
GetMsgReceive ==
    /\ Running /\ dispPc = "remove"
    /\ ipcQueue # << >>
    /\ taken' = Append(taken, NextMessage)
    /\ ipcQueue' = Tail(ipcQueue)
    /\ dispPc' = "switch"
    /\ UNCHANGED <<uiVars, rtVars, isPause, reportPath, watcherVars, reports>>

GetMsgReport ==
    /\ Running /\ dispPc = "switch" /\ TypeAt(Slot) \in ReportTypes
    /\ aggWithDespQueue' = Append(aggWithDespQueue, Slot)
    /\ dispPc' = "remove"
    /\ UNCHANGED <<uiVars, ipcQueue, rtVars, taken, isPause, subAggQueue,
                   opAggQueue, subRep, opRep, watcherVars, reports>>

RoomIn_KeepsOneFree(queue) == Len(queue) + 1 < QueueCap
(* SafeQueueInsert waits for a place.  Only the two queues towards the      *)
(* watchers can stay full, because only their readers can stop.             *)
RoomIn(queue) == Len(queue) < QueueCap

(* PAUSE and RESUME: first the data watcher's queue, then the flag of the   *)
(* file watcher (FileWatcherPause, FileWatcherWakeUp), then its queue.      *)
GetMsgToDataWatcher ==
    /\ Running /\ dispPc = "switch" /\ TypeAt(Slot) \in ToggleTypes
    /\ RoomIn(dwCmdQueue)
    /\ dwCmdQueue' = Append(dwCmdQueue, Slot)
    /\ dispPc' = "flag"
    /\ UNCHANGED <<uiVars, ipcQueue, rtVars, taken, isPause, reportPath,
                   fwCmdQueue, dwPc, dwMutex, fwPc, reports>>

FlagFor_Swapped(type) == type = RESUME
FlagFor(type) == type = PAUSE

GetMsgSetFlag ==
    /\ Running /\ dispPc = "flag"
    /\ isPause' = FlagFor(TypeAt(Slot))
    /\ dispPc' = "fileWatcher"
    /\ UNCHANGED <<uiVars, ipcQueue, rtVars, taken, reportPath, watcherVars, reports>>

GetMsgToFileWatcher ==
    /\ Running /\ dispPc = "fileWatcher"
    /\ RoomIn(fwCmdQueue)
    /\ fwCmdQueue' = Append(fwCmdQueue, Slot)
    /\ dispPc' = "remove"
    /\ UNCHANGED <<uiVars, ipcQueue, rtVars, taken, isPause, reportPath,
                   dwCmdQueue, dwPc, dwMutex, fwPc, reports>>

(* No case: SHUT_DOWN and every number outside the menu.                    *)
GetMsgIgnore ==
    /\ Running /\ dispPc = "switch"
    /\ TypeAt(Slot) \notin ReportTypes \cup ToggleTypes
    /\ dispPc' = "remove"
    /\ UNCHANGED <<uiVars, ipcQueue, rtVars, taken, isPause, reportPath,
                   watcherVars, reports>>

GetMsg == \/ GetMsgReceive \/ GetMsgReport \/ GetMsgToDataWatcher
          \/ GetMsgSetFlag \/ GetMsgToFileWatcher \/ GetMsgIgnore
-----------------------------------------------------------------------------
(* Aggregator's report thread (AggregatorRepFunction): it looks at the type *)
(* and hands the pointer on, or drops it.                                   *)

ToSubscribers(type) == type = REP_ONE_SUB
ToOperators_NoBreak(type) == type \in {REP_ONE_SUB, REP_OPER}
ToOperators(type) == type = REP_OPER

AfterForwarding_WaitsForResume(queue) == IF dwMutex THEN queue ELSE Tail(queue)
AfterForwarding(queue) == Tail(queue)

AggregatorRepFunction ==
    /\ Running /\ aggWithDespQueue # << >>
    /\ aggWithDespQueue' = AfterForwarding(aggWithDespQueue)
    /\ subAggQueue' = IF ToSubscribers(TypeAt(Slot))
                        THEN Append(subAggQueue, Head(aggWithDespQueue))
                        ELSE subAggQueue
    /\ opAggQueue' = IF ToOperators(TypeAt(Slot))
                       THEN Append(opAggQueue, Head(aggWithDespQueue))
                       ELSE opAggQueue
    /\ UNCHANGED <<uiVars, ipcQueue, rtVars, dispVars, subRep, opRep,
                   watcherVars, reports>>
-----------------------------------------------------------------------------
(* Report threads of the two aggregators.  Each reads m_Name and, in a      *)
(* later access, m_typeOfCommand; HashMap_Remove then succeeds or not,      *)
(* depending on what has been aggregated.                                   *)

FormattedName_Once(rep) == IF rep.name = 0 THEN Slot ELSE rep.name
(* The position of the command whose m_Name the thread's buffer now holds.  *)
FormattedName(rep) == Slot

TakeRequest(rep, queue) ==
    [busy |-> TRUE, for |-> Head(queue), name |-> FormattedName(rep)]

Report(kind, rep) ==
    [by |-> kind, for |-> rep.for, name |-> rep.name, type |-> Slot]

SubAggregatorRepTake ==
    /\ Running /\ ~subRep.busy /\ subAggQueue # << >>
    /\ subRep' = TakeRequest(subRep, subAggQueue)
    /\ subAggQueue' = Tail(subAggQueue)
    /\ UNCHANGED <<uiVars, ipcQueue, rtVars, dispVars, aggWithDespQueue, opAggQueue,
                   opRep, watcherVars, reports>>

SubAggregatorRepSwitch ==
    /\ Running /\ subRep.busy
    /\ \/ /\ TypeAt(Slot) = REP_ONE_SUB
          /\ reports' = Append(reports, Report("subscriber", subRep))
       \/ UNCHANGED reports
    /\ subRep' = [subRep EXCEPT !.busy = FALSE]
    /\ UNCHANGED <<uiVars, ipcQueue, rtVars, dispVars, aggWithDespQueue, subAggQueue,
                   opAggQueue, opRep, watcherVars>>

OpAggregatorRepTake ==
    /\ Running /\ ~opRep.busy /\ opAggQueue # << >>
    /\ opRep' = TakeRequest(opRep, opAggQueue)
    /\ opAggQueue' = Tail(opAggQueue)
    /\ UNCHANGED <<uiVars, ipcQueue, rtVars, dispVars, aggWithDespQueue, subAggQueue,
                   subRep, watcherVars, reports>>

OpAggregatorRepSwitch ==
    /\ Running /\ opRep.busy
    /\ \/ /\ TypeAt(Slot) = REP_OPER
          /\ reports' = Append(reports, Report("operator", opRep))
       \/ UNCHANGED reports
    /\ opRep' = [opRep EXCEPT !.busy = FALSE]
    /\ UNCHANGED <<uiVars, ipcQueue, rtVars, dispVars, aggWithDespQueue, subAggQueue,
                   opAggQueue, subRep, watcherVars>>

(* names[m_Name] lies inside the array of six.                              *)
NameInTable == NameAt(opRep.name) \in DOMAIN OperatorNames

(* An access outside names[] is undefined: it may end the process here, or  *)
(* yield some string that OpAggregatorRepSwitch looks up.                   *)
OpAggregatorRepOverrun ==
    /\ Running /\ opRep.busy /\ ~NameInTable
    /\ EndRT
-----------------------------------------------------------------------------
(* Data watcher's command thread (DataWatcherCommandFunction), the only     *)
(* user of m_mutex.  Unlocking a free mutex leaves it free.                 *)

UnlocksOn_Never(type) == FALSE
UnlocksOn(type) == type = RESUME

DataWatcherCommandTake ==
    /\ Running /\ dwPc = "remove" /\ dwCmdQueue # << >>
    /\ dwCmdQueue' = Tail(dwCmdQueue)
    /\ dwPc' = IF TypeAt(Slot) = PAUSE THEN "lock" ELSE "remove"
    /\ dwMutex' = (dwMutex /\ ~UnlocksOn(TypeAt(Slot)))
    /\ UNCHANGED <<uiVars, ipcQueue, rtVars, dispVars, reportPath, fwCmdQueue,
                   fwPc, reports>>

DataWatcherCommandLock ==
    /\ Running /\ dwPc = "lock" /\ ~dwMutex
    /\ dwMutex' = TRUE
    /\ dwPc' = "remove"
    /\ UNCHANGED <<uiVars, ipcQueue, rtVars, dispVars, reportPath, dwCmdQueue,
                   fwCmdQueue, fwPc, reports>>
-----------------------------------------------------------------------------
(* File watcher's pause thread (FileWatcherForpauseFunction), the only user *)
(* of its mutex and condition variable: its broadcast finds no waiter, and  *)
(* only a spurious wakeup, which POSIX allows, ends pthread_cond_wait.      *)

FileWatcherForpauseTake ==
    /\ Running /\ fwPc = "remove" /\ fwCmdQueue # << >>
    /\ fwCmdQueue' = Tail(fwCmdQueue)
    /\ fwPc' = IF TypeAt(Slot) = PAUSE THEN "check" ELSE "remove"
    /\ UNCHANGED <<uiVars, ipcQueue, rtVars, dispVars, reportPath, dwCmdQueue,
                   dwPc, dwMutex, reports>>

FileWatcherForpauseCheck ==
    /\ Running /\ fwPc = "check"
    /\ fwPc' = IF isPause THEN "wait" ELSE "remove"
    /\ UNCHANGED <<uiVars, ipcQueue, rtVars, dispVars, reportPath, dwCmdQueue,
                   fwCmdQueue, dwPc, dwMutex, reports>>

SpuriousWakeup ==
    /\ Running /\ fwPc = "wait"
    /\ fwPc' = "check"
    /\ UNCHANGED <<uiVars, ipcQueue, rtVars, dispVars, reportPath, dwCmdQueue,
                   fwCmdQueue, dwPc, dwMutex, reports>>
-----------------------------------------------------------------------------
Environment ==
    \/ UserInterfaceCreate \/ DispatcherCreate \/ RTKilled
    \/ \E input \in UserInputs : GetCommand(input)
    \/ SpuriousWakeup

Threads ==
    \/ GetMsg \/ AggregatorRepFunction
    \/ SubAggregatorRepTake \/ SubAggregatorRepSwitch
    \/ OpAggregatorRepTake \/ OpAggregatorRepSwitch \/ OpAggregatorRepOverrun
    \/ DataWatcherCommandTake \/ DataWatcherCommandLock
    \/ FileWatcherForpauseTake \/ FileWatcherForpauseCheck

Next == Environment \/ Threads

Spec == Init /\ [][Next]_vars

(* Every RT thread that can run is scheduled.  Nothing obliges the user, an *)
(* operator who starts a process, or a spurious wakeup.                     *)
Fairness ==
    /\ WF_vars(GetMsg)
    /\ WF_vars(AggregatorRepFunction)
    /\ WF_vars(SubAggregatorRepTake \/ SubAggregatorRepSwitch)
    /\ WF_vars(OpAggregatorRepTake \/ OpAggregatorRepSwitch \/ OpAggregatorRepOverrun)
    /\ WF_vars(DataWatcherCommandTake \/ DataWatcherCommandLock)
    /\ WF_vars(FileWatcherForpauseTake \/ FileWatcherForpauseCheck)

FairSpec == Spec /\ Fairness
-----------------------------------------------------------------------------
SentWord == [type : 0 .. TypeValues - 1, name : 0 .. NameValues - 1, asked : Int]
Thread   == [busy : BOOLEAN, for : Nat, name : Nat]
Record   == [by : {"subscriber", "operator"}, for : Nat, name : Nat, type : Nat]

(* Shape of the state; the command word stays inside its two bit fields.    *)
TypeOK ==
    /\ uiStarts \in Nat /\ rtStarts \in Nat
    /\ rt \in {"down", "up"}
    /\ sent \in Seq(SentWord)
    /\ ipcQueue \in Seq(Nat) /\ taken \in Seq(Nat)
    /\ dispPc \in {"remove", "switch", "flag", "fileWatcher"}
    /\ isPause \in BOOLEAN
    /\ aggWithDespQueue \in Seq(Nat) /\ subAggQueue \in Seq(Nat) /\ opAggQueue \in Seq(Nat)
    /\ dwCmdQueue \in Seq(Nat) /\ fwCmdQueue \in Seq(Nat)
    /\ subRep \in Thread /\ opRep \in Thread
    /\ dwPc \in {"remove", "lock"} /\ dwMutex \in BOOLEAN
    /\ fwPc \in {"remove", "check", "wait"}
    /\ reports \in Seq(Record)

(* A report thread never acts on a command older than the one its pointer   *)
(* was queued for, and never reads the type from an older command than the  *)
(* name: overwriting msg can only move a reader forward.                    *)
ReadsNeverOlder ==
    \A i \in DOMAIN reports :
        /\ reports[i].for <= reports[i].name
        /\ reports[i].name <= reports[i].type

(* However often msg is overwritten while pointers to it are queued, no     *)
(* queued request gives two reports (HashMap_Remove would empty the         *)
(* aggregate of a second subscriber or operator).  Which command the report *)
(* is of is another matter: two requests may both read the later one.       *)
AtMostOneReport ==
    \A i, j \in DOMAIN reports : i # j => reports[i].for # reports[j].for

(* If the user waits for each command to finish, every report is made for   *)
(* the very command that asked for it: both fields come from that command.  *)
HonouredWhenPaced ==
    Paced => \A i \in DOMAIN reports :
                 /\ reports[i].name = reports[i].for
                 /\ reports[i].type = reports[i].for

(* A user who waits and answers the operator menu with a number of names[]  *)
(* never makes it be read outside its six entries, although it is indexed   *)
(* before the type of the command is looked at (operatorAggregator.c) and a *)
(* subscriber's number would not fit.                                       *)
MenuUserStaysInTable ==
    (Paced /\ \A n \in DOMAIN sent :
                  TypeAt(n) = REP_OPER => NameAt(n) \in DOMAIN OperatorNames)
        => (opRep.busy => NameInTable)

(* If the user waits, the dispatcher's flag and the data watcher's mutex,   *)
(* which are set over two different queues, say the same about being        *)
(* paused, unless the data watcher's command thread has locked itself out.  *)
PauseStateAgrees ==
    (Paced /\ Running /\ Settled /\ ~SelfDeadlock) => (dwMutex <=> isPause)

(* If the user waits, that thread locks itself out only when two PAUSE      *)
(* commands were received with no RESUME between them.                      *)
SelfDeadlockNeedsTwoPauses ==
    (Paced /\ SelfDeadlock) =>
        \E i, j \in DOMAIN taken :
            /\ i < j
            /\ TypeAt(taken[i]) = PAUSE /\ TypeAt(taken[j]) = PAUSE
            /\ \A k \in i .. j : TypeAt(taken[k]) # RESUME

(* The dispatcher waits for a place in a queue whose reader has stopped.    *)
DispatcherStuck ==
    \/ /\ dispPc = "switch" /\ TypeAt(Slot) \in ToggleTypes
       /\ ~RoomIn(dwCmdQueue) /\ SelfDeadlock
    \/ dispPc = "fileWatcher" /\ ~RoomIn(fwCmdQueue) /\ fwPc = "wait"

(* The pause thread that nobody wakes, and the data watcher's command       *)
(* thread that has locked itself out, stop the dispatcher itself, and with  *)
(* it every later command, but not before QueueCap + 2 toggles: one that    *)
(* the stopped thread took, a full queue, and the one at hand.              *)
StuckNeedsManyToggles ==
    (Running /\ DispatcherStuck) =>
        Cardinality({i \in DOMAIN taken : TypeAt(taken[i]) \in ToggleTypes}) >= QueueCap + 2

(* Is command n on its way between the dispatcher and a report?             *)
Pending(n) ==
    \/ \E q \in {aggWithDespQueue, subAggQueue, opAggQueue} :
           \E i \in DOMAIN q : q[i] = n
    \/ subRep.busy /\ subRep.for = n
    \/ opRep.busy /\ opRep.for = n

(* No request that the dispatcher has passed on gets stuck on the report    *)
(* path of a running RT, whatever the watchers do: a data watcher thread    *)
(* locked out by a second PAUSE, a file watcher thread parked on its        *)
(* condition variable, even a dispatcher stuck behind them hold up none.    *)
RequestsFinish ==
    \A n \in 1 .. MaxCommands : (Running /\ Pending(n)) ~> (~Running \/ ~Pending(n))

(* The paced command path is the one-command-at-a-time service.             *)
Outstanding ==
    IF Settled THEN NoCommand
    ELSE [type |-> TypeAt(Len(sent)), name |-> NameAt(Len(sent))]
Answered ==
    [i \in DOMAIN reports |-> [by |-> reports[i].by, name |-> NameAt(reports[i].name)]]

Service == INSTANCE CommandService WITH outstanding <- Outstanding, answered <- Answered

(* With a user who waits, every step of the command path is a step of the   *)
(* service, or none: one command outstanding, at most one answer, under     *)
(* its own name and by its own aggregator.                                  *)
ImplementsService == Service!Spec
=============================================================================
