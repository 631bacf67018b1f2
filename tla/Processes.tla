------------------------------ MODULE Processes -----------------------------
(***************************************************************************)
(* The three programs as processes: the watchdog (cdr.c, watchDog.c), RT   *)
(* from main to its last thread (rt.c, initializer.c), and the user        *)
(* interface, over the shared-memory queues they attach to (intern.c).     *)
(*                                                                         *)
(* The key of a queue is made from a file in the directory the process     *)
(* runs in.  Where the file is missing, ftok returns -1, and that is the   *)
(* key: the two queues are then one.  Whoever attaches creates the queue   *)
(* anew.  A word stands for a command; what RT does with it is the matter  *)
(* of CommandPath.                                                         *)
(***************************************************************************)
EXTENDS Integers, Sequences, FiniteSets

CONSTANTS
    Directories,   \* where processes run: the key files each of them holds
    MaxWords,      \* bound: commands entered
    MaxUIStarts,   \* bound: starts of the user interface
    MaxRTs,        \* bound: RT processes, by the watchdog and by hand
    MaxFailures    \* bound: starts in which a Create function returns NULL

KeyFiles == {"file1", "file2"}
Kinds == {"subscriber", "operator"}

ASSUME ProcessesAssumption ==
    /\ Directories \subseteq SUBSET KeyFiles
    /\ MaxWords \in Nat /\ MaxUIStarts \in Nat /\ MaxRTs \in Nat /\ MaxFailures \in Nat

VARIABLES
    queue,        \* [Keys -> words in the shared queue of that key]
    words,        \* commands entered: [kind, key, directory of the sender]
    fate,         \* what has become of each
    ui,           \* user interface: starts, key and directory
    wd,           \* watchdog
    rts,          \* RT processes, in the order of their start
    failures      \* starts in which a Create function has returned NULL
vars == <<queue, words, fate, ui, wd, rts, failures>>

Keys == {"A", "B", "-1"}

Key_OneProject(project, file, directory) == IF file \in directory THEN "A" ELSE "-1"
(* GetShmId: ftok, whose -1 nobody looks at, and shmget.                    *)
Key(project, file, directory) == IF file \in directory THEN project ELSE "-1"

WatchdogKey(directory) == Key("A", "file1", directory)
UserKey(directory) == Key("B", "file2", directory)

(* GetSharedIPCQueue, to which the words that wait there are lost.          *)
Attach(key) ==
    /\ queue' = [queue EXCEPT ![key] = << >>]
    /\ fate' = [n \in DOMAIN fate |->
                   IF \E i \in DOMAIN queue[key] : queue[key][i] = n THEN "dropped"
                   ELSE fate[n]]

RunOrder ==
    << {"dispatcher"},
       {"fileWatcher", "dataWatcher", "dataManager", "reader", "parser",
        "aggregator", "subaggregator", "repgen", "subrepgen"},
       {"opaggregator"} >>

(* The components whose threads take part in the answer to a command.       *)
Needs(kind) ==
    {"dispatcher", "aggregator", "repgen", "subrepgen"}
        \cup (IF kind = "operator" THEN {"opaggregator"} ELSE {"subaggregator"})
-----------------------------------------------------------------------------
Process(parent, state, directory) ==
    [parent |-> parent, state |-> state, directory |-> directory,
     null |-> 0, started |-> 0, inbox |-> {}]

Init ==
    /\ queue = [key \in Keys |-> << >>] /\ words = << >> /\ fate = << >>
    /\ ui = [starts |-> 0, directory |-> {}]
    /\ wd = [pc |-> "off", directory |-> {}, null |-> FALSE, child |-> 0]
    /\ rts = << >> /\ failures = 0

Live(r) == rts[r].state # "ended"
Running(r) == rts[r].state = "run"
Threads(r) == UNION {RunOrder[i] : i \in 1 .. rts[r].started}
RTKey(r) == UserKey(rts[r].directory)

(* The end of an RT process loses the commands that it has taken.           *)
EndRT(r) ==
    /\ rts' = [rts EXCEPT ![r] = Process(rts[r].parent, "ended", {})]
    /\ fate' = [n \in DOMAIN fate |-> IF n \in rts[r].inbox THEN "lost" ELSE fate[n]]
-----------------------------------------------------------------------------
(* User interface: ui2_test.c starts it, SendCommand enters a word.         *)

UserInterfaceCreate(directory) ==
    /\ ui.starts < MaxUIStarts
    /\ ui' = [starts |-> ui.starts + 1, directory |-> directory]
    /\ Attach(UserKey(directory))
    /\ UNCHANGED <<words, wd, rts, failures>>

SendCommand(kind) ==
    /\ ui.starts > 0 /\ Len(words) < MaxWords
    /\ LET key == UserKey(ui.directory)
       IN /\ words' = Append(words, [kind |-> kind, key |-> key, directory |-> ui.directory])
          /\ queue' = [queue EXCEPT ![key] = Append(@, Len(words) + 1)]
    /\ fate' = Append(fate, "waiting")
    /\ UNCHANGED <<ui, wd, rts, failures>>
-----------------------------------------------------------------------------
(* Watchdog: main calls WatchDogCreate and WatchDogRun and returns.         *)

WatchDogCreate(directory) ==
    /\ wd.pc = "off"
    /\ wd' = [wd EXCEPT !.pc = "fork", !.directory = directory]
    /\ Attach(WatchdogKey(directory))
    /\ UNCHANGED <<words, ui, rts, failures>>

WatchDogCreateFails(directory) ==
    /\ wd.pc = "off" /\ failures < MaxFailures
    /\ wd' = [wd EXCEPT !.pc = "fork", !.directory = directory, !.null = TRUE]
    /\ failures' = failures + 1
    /\ UNCHANGED <<queue, words, fate, ui, rts>>

(* fork: the parent creates the thread of KeepAlive and waits; with a NULL  *)
(* it ends here, and its child lives on.                                    *)
WatchDogFork ==
    /\ wd.pc = "fork" /\ Len(rts) < MaxRTs
    /\ rts' = Append(rts, Process("watchdog", "exec", wd.directory))
    /\ wd' = [wd EXCEPT !.pc = IF wd.null THEN "ended" ELSE "wait", !.child = Len(rts) + 1]
    /\ UNCHANGED <<queue, words, fate, ui, failures>>

(* A fork that fails also takes the branch of the parent.                   *)
WatchDogForkFails ==
    /\ wd.pc = "fork"
    /\ wd' = [wd EXCEPT !.pc = IF wd.null THEN "ended" ELSE "wait"]
    /\ UNCHANGED <<queue, words, fate, ui, rts, failures>>

(* KeepAlive removes whatever word comes; SendPing, which would send pings, *)
(* is never started.                                                        *)
KeepAlive ==
    /\ wd.pc = "wait"
    /\ LET waiting == queue[WatchdogKey(wd.directory)]
       IN /\ waiting # << >>
          /\ fate' = [fate EXCEPT ![Head(waiting)] = "stolen"]
    /\ queue' = [queue EXCEPT ![WatchdogKey(wd.directory)] = Tail(@)]
    /\ UNCHANGED <<words, ui, wd, rts, failures>>

(* Nothing is left to wait for; after a failed fork, nothing ever was.      *)
ChildEnded == wd.child \notin {r \in DOMAIN rts : Live(r)}

AfterWait_RunsAgain == "fork"
(* WatchDogRun is not called again; nor is WatchDogDestroy, which would     *)
(* wait for KeepAlive.                                                      *)
AfterWait == "ended"

WatchDogReturn ==
    /\ wd.pc = "wait" /\ ChildEnded
    /\ wd' = [wd EXCEPT !.pc = AfterWait]
    /\ UNCHANGED <<queue, words, fate, ui, rts, failures>>

WatchDogKilled ==
    /\ wd.pc \in {"fork", "wait"}
    /\ wd' = [wd EXCEPT !.pc = "ended"]
    /\ UNCHANGED <<queue, words, fate, ui, rts, failures>>
-----------------------------------------------------------------------------
(* RT.                                                                      *)

StartByHand(directory) ==
    /\ Len(rts) < MaxRTs
    /\ rts' = Append(rts, Process("shell", "create", directory))
    /\ UNCHANGED <<queue, words, fate, ui, wd, failures>>

(* The child of the watchdog becomes RT, or returns from main at once.      *)
Execvp(r) ==
    /\ rts[r].state = "exec"
    /\ \E state \in {"create", "ended"} : rts' = [rts EXCEPT ![r].state = state]
    /\ UNCHANGED <<queue, words, fate, ui, wd, failures>>

(* DispatcherCreate attaches; the other Create functions only allocate.     *)
CreateAll(r) ==
    /\ rts[r].state = "create"
    /\ rts' = [rts EXCEPT ![r].state = "run"]
    /\ Attach(RTKey(r))
    /\ UNCHANGED <<words, ui, wd, failures>>

(* Some return NULL, which is not looked at: null is the first step of the  *)
(* RunOrder that will follow one.                                           *)
CreateAllWithNull(r) ==
    /\ rts[r].state = "create" /\ failures < MaxFailures
    /\ failures' = failures + 1
    /\ \E null \in DOMAIN RunOrder :
           /\ rts' = [rts EXCEPT ![r].state = "run", ![r].null = null]
           /\ IF "dispatcher" \in RunOrder[null]
                 THEN UNCHANGED <<queue, fate>> ELSE Attach(RTKey(r))
    /\ UNCHANGED <<words, ui, wd>>

(* The next Run calls: each creates its threads, or follows a NULL.         *)
RunNext(r) ==
    /\ Running(r) /\ rts[r].started < Len(RunOrder)
    /\ IF rts[r].started + 1 = rts[r].null
         THEN EndRT(r)
         ELSE rts' = [rts EXCEPT ![r].started = @ + 1] /\ UNCHANGED fate
    /\ UNCHANGED <<queue, words, ui, wd, failures>>

Behind_NotRemoved(waiting) == waiting
Behind(waiting) == Tail(waiting)

(* The dispatcher's thread, which runs before any of the threads that its   *)
(* commands are for.                                                        *)
GetMsg(r) ==
    /\ Running(r) /\ "dispatcher" \in Threads(r)
    /\ queue[RTKey(r)] # << >>
    /\ LET n == Head(queue[RTKey(r)])
       IN /\ rts' = [rts EXCEPT ![r].inbox = @ \cup {n}]
          /\ fate' = [fate EXCEPT ![n] = "taken"]
    /\ queue' = [queue EXCEPT ![RTKey(r)] = Behind(@)]
    /\ UNCHANGED <<words, ui, wd, failures>>

(* A command has gone through the threads of its report.                    *)
Answer(r, n) ==
    /\ Running(r) /\ n \in rts[r].inbox
    /\ Needs(words[n].kind) \subseteq Threads(r)
    /\ rts' = [rts EXCEPT ![r].inbox = @ \ {n}]
    /\ fate' = [fate EXCEPT ![n] = "answered"]
    /\ UNCHANGED <<queue, words, ui, wd, failures>>

RTKilled(r) ==
    /\ Live(r)
    /\ EndRT(r)
    /\ UNCHANGED <<queue, words, ui, wd, failures>>
-----------------------------------------------------------------------------
Environment ==
    \/ \E directory \in Directories :
           \/ UserInterfaceCreate(directory) \/ StartByHand(directory)
           \/ WatchDogCreate(directory) \/ WatchDogCreateFails(directory)
    \/ \E kind \in Kinds : SendCommand(kind)
    \/ WatchDogKilled \/ \E r \in DOMAIN rts : RTKilled(r)

WatchDogRun == WatchDogFork \/ WatchDogForkFails \/ WatchDogReturn

InitializeSystem(r) == Execvp(r) \/ CreateAll(r) \/ CreateAllWithNull(r) \/ RunNext(r)

Next ==
    \/ Environment \/ WatchDogRun \/ KeepAlive
    \/ \E r \in DOMAIN rts :
           InitializeSystem(r) \/ GetMsg(r) \/ \E n \in rts[r].inbox : Answer(r, n)

Spec == Init /\ [][Next]_vars

(* A process that is started runs, with each of its threads; nobody need    *)
(* start one, kill one or enter a command.                                  *)
Fairness ==
    /\ WF_vars(WatchDogRun)
    /\ WF_vars(KeepAlive)
    /\ \A r \in 1 .. MaxRTs :
           /\ WF_vars(r \in DOMAIN rts /\ InitializeSystem(r))
           /\ WF_vars(r \in DOMAIN rts /\ GetMsg(r))
           /\ \A n \in 1 .. MaxWords : WF_vars(r \in DOMAIN rts /\ Answer(r, n))

FairSpec == Spec /\ Fairness
-----------------------------------------------------------------------------
Word == 1 .. Len(words)
InQueue(n, key) == \E i \in DOMAIN queue[key] : queue[key][i] = n

(* The type invariant, and the place of every word: it waits in the queue   *)
(* of its sender's key, once, or is held by exactly one live RT, or neither.*)
TypeOK ==
    /\ queue \in [Keys -> Seq(Word)]
    /\ words \in Seq([kind : Kinds, key : Keys, directory : Directories])
    /\ fate \in [Word -> {"waiting", "dropped", "stolen", "taken", "lost", "answered"}]
    /\ ui.starts \in 0 .. MaxUIStarts /\ ui.directory \in Directories \cup {{}}
    /\ wd \in [pc : {"off", "fork", "wait", "ended"}, directory : Directories \cup {{}},
               null : BOOLEAN, child : 0 .. Len(rts)]
    /\ rts \in Seq([parent : {"watchdog", "shell"},
                    state : {"exec", "create", "run", "ended"},
                    directory : Directories \cup {{}}, null : 0 .. Len(RunOrder),
                    started : 0 .. Len(RunOrder), inbox : SUBSET Word])
    /\ failures \in 0 .. MaxFailures
    /\ \A n \in Word :
           /\ Cardinality({key \in Keys : InQueue(n, key)})
                = (IF fate[n] = "waiting" THEN 1 ELSE 0)
           /\ Cardinality({r \in DOMAIN rts : Live(r) /\ n \in rts[r].inbox})
                = (IF fate[n] = "taken" THEN 1 ELSE 0)

(* The watchdog's KeepAlive takes a user's command only when both key files *)
(* were missing, the user's where the user interface was started and the    *)
(* watchdog's where that was: neither alone makes the two queues one.       *)
StolenOnlyWithoutKeyFiles ==
    \A n \in Word :
        fate[n] = "stolen" => "file2" \notin words[n].directory /\ "file1" \notin wd.directory

(* Word n waits in a queue that some RT's dispatcher reads.                 *)
WaitsWithReader(n) ==
    /\ n \in Word /\ fate[n] = "waiting"
    /\ \E r \in DOMAIN rts :
           Running(r) /\ "dispatcher" \in Threads(r) /\ RTKey(r) = words[n].key

(* Word n is taken: some live RT has it.                                    *)
Taken(n) == n \in Word /\ fate[n] = "taken"


(* The watchdog is past its fork, and there is no RT of its own: that has   *)
(* ended, or the fork has failed.                                           *)
OutOfService ==
    /\ wd.pc \in {"wait", "ended"}
    /\ \A r \in DOMAIN rts : rts[r].parent = "watchdog" => ~Live(r)

(* From then on no RT of the watchdog takes a command again, whatever it is *)
(* sent and however long it waits: the watchdog sees neither that the fork  *)
(* has failed nor why its child has ended.  Only an RT started by hand      *)
(* serves the words that wait.                                              *)
ServedByHandAfterwards ==
    [](OutOfService =>
         [](\A r \in DOMAIN rts : rts[r].parent = "watchdog" => rts[r].inbox = {}))
=============================================================================
