-------------------------- MODULE Processes_proofs ---------------------------
(***************************************************************************)
(* Theorems about the processes and their shared queues, for any           *)
(* directories and any number of words, processes and failures.            *)
(***************************************************************************)
EXTENDS Processes, SequenceTheorems, FiniteSetTheorems, TLAPS

Fates == {"waiting", "dropped", "stolen", "taken", "lost", "answered"}

WordTypes ==
    /\ queue \in [Keys -> Seq(Word)]
    /\ words \in Seq([kind : Kinds, key : Keys, directory : Directories])
    /\ fate \in [Word -> Fates]

UserTypes ==
    /\ ui.starts \in 0 .. MaxUIStarts /\ ui.directory \in Directories \cup {{}}
    /\ ui.starts > 0 => ui.directory \in Directories

WatchdogTypes ==
    wd \in [pc : {"off", "fork", "wait", "ended"}, directory : Directories \cup {{}},
            null : BOOLEAN, child : 0 .. Len(rts)]

RTProcess == [parent : {"watchdog", "shell"}, state : {"exec", "create", "run", "ended"},
              directory : Directories \cup {{}}, null : 0 .. Len(RunOrder),
              started : 0 .. Len(RunOrder), inbox : SUBSET Word]

RTTypes ==
    /\ rts \in Seq(RTProcess)
    /\ \A r \in DOMAIN rts : rts[r].state # "run" => rts[r].inbox = {}

Types == WordTypes /\ UserTypes /\ WatchdogTypes /\ RTTypes /\ failures \in 0 .. MaxFailures
-----------------------------------------------------------------------------
(* Where a word is: in the queue of its sender's key, once, while it waits, *)
(* with one RT while it is taken, and nowhere afterwards.                   *)

Holds(r, n) == r \in DOMAIN rts /\ n \in rts[r].inbox

PlaceOf(n) ==
    /\ \A key \in Keys : InQueue(n, key) <=> fate[n] = "waiting" /\ words[n].key = key
    /\ fate[n] = "taken" <=> \E r : Holds(r, n)
    /\ \A r, q : Holds(r, n) /\ Holds(q, n) => r = q

Once(q) == \A i, j \in DOMAIN q : q[i] = q[j] => i = j

Places == (\A n \in Word : PlaceOf(n)) /\ \A key \in Keys : Once(queue[key])
-----------------------------------------------------------------------------
LEMMA KeysAre ==
    /\ \A directory : UserKey(directory) \in Keys /\ WatchdogKey(directory) \in Keys
    /\ \A d, e : UserKey(d) = WatchdogKey(e) => "file2" \notin d /\ "file1" \notin e
BY DEF UserKey, WatchdogKey, Key, Keys

LEMMA WordsAre ==
    ASSUME WordTypes
    PROVE  /\ Len(words) \in Nat /\ DOMAIN fate = Word
           /\ \A n \in Word : words[n] \in [kind : Kinds, key : Keys, directory : Directories]
           /\ \A key \in Keys : /\ queue[key] \in Seq(Word)
                                /\ DOMAIN queue[key] = 1 .. Len(queue[key])
                                /\ Len(queue[key]) \in Nat
                                /\ \A i \in DOMAIN queue[key] : queue[key][i] \in Word
<1>1. Len(words) \in Nat
  BY LenProperties DEF WordTypes
<1>2. \A n \in Word : words[n] \in [kind : Kinds, key : Keys, directory : Directories]
  BY ElementOfSeq DEF WordTypes, Word
<1>3. \A key \in Keys : queue[key] \in Seq(Word)
  BY DEF WordTypes
<1>4. \A key \in Keys : /\ DOMAIN queue[key] = 1 .. Len(queue[key])
                        /\ Len(queue[key]) \in Nat
                        /\ \A i \in DOMAIN queue[key] : queue[key][i] \in Word
  BY <1>3, LenProperties, ElementOfSeq
<1> QED
  BY <1>1, <1>2, <1>3, <1>4 DEF WordTypes

(* A process that attaches to a queue drops the words in it.                *)
LEMMA Attached ==
    ASSUME WordTypes, NEW key \in Keys, Attach(key), UNCHANGED words
    PROVE  /\ WordTypes' /\ Word' = Word
           /\ \A k \in Keys : queue'[k] = IF k = key THEN << >> ELSE queue[k]
           /\ \A n \in Word : fate'[n] = IF InQueue(n, key) THEN "dropped" ELSE fate[n]
<1>1. Word' = Word
  BY DEF Word
<1>2. \A k \in Keys : queue'[k] = IF k = key THEN << >> ELSE queue[k]
  BY DEF Attach, WordTypes
<1>3. queue' \in [Keys -> Seq(Word)]
  BY EmptySeq DEF Attach, WordTypes
<1>4. \A n \in Word : fate'[n] = IF InQueue(n, key) THEN "dropped" ELSE fate[n]
  BY DEF Attach, WordTypes, InQueue
<1>5. fate' \in [Word -> Fates]
  <2>1. DOMAIN fate = Word /\ \A n \in Word : fate[n] \in Fates
    BY DEF WordTypes
  <2>2. \A n \in Word : fate'[n] \in Fates
    BY <1>4, <2>1 DEF Fates
  <2>3. fate' = [n \in Word |-> fate'[n]]
    BY <2>1 DEF Attach
  <2> QED
    BY <2>2, <2>3
<1> QED
  BY <1>1, <1>2, <1>3, <1>4, <1>5 DEF WordTypes

(* The first word of a queue is removed from it.                            *)
LEMMA Dequeued ==
    ASSUME WordTypes, NEW key \in Keys, queue[key] # << >>, NEW to \in Fates,
           queue' = [queue EXCEPT ![key] = Tail(@)],
           fate' = [fate EXCEPT ![Head(queue[key])] = to], UNCHANGED words
    PROVE  /\ WordTypes' /\ Word' = Word
           /\ Head(queue[key]) \in Word /\ InQueue(Head(queue[key]), key)
           /\ \A k \in Keys : k # key => queue'[k] = queue[k]
           /\ queue'[key] = Tail(queue[key])
           /\ \A n \in Word : fate'[n] = IF n = Head(queue[key]) THEN to ELSE fate[n]
<1>1. /\ queue[key] \in Seq(Word) /\ Len(queue[key]) \in Nat \ {0}
      /\ DOMAIN queue[key] = 1 .. Len(queue[key])
  BY WordsAre, EmptySeq
<1>2. Head(queue[key]) \in Word /\ Tail(queue[key]) \in Seq(Word)
      /\ Head(queue[key]) = queue[key][1]
  BY <1>1, HeadTailProperties
<1>3. InQueue(Head(queue[key]), key)
  BY <1>1, <1>2 DEF InQueue
<1>4. Word' = Word
  BY DEF Word
<1> QED
  BY <1>2, <1>3, <1>4 DEF WordTypes

LEMMA HeadLeaves ==
    ASSUME NEW S, NEW q \in Seq(S), q # << >>, Once(q)
    PROVE  /\ Once(Tail(q))
           /\ \A n : (\E i \in DOMAIN Tail(q) : Tail(q)[i] = n)
                     <=> (\E i \in DOMAIN q : q[i] = n) /\ n # Head(q)
<1>1. Len(q) \in Nat \ {0} /\ DOMAIN q = 1 .. Len(q) /\ Head(q) = q[1]
  BY EmptySeq, LenProperties
<1>2. /\ DOMAIN Tail(q) = 1 .. Len(q) - 1
      /\ \A i \in DOMAIN Tail(q) : Tail(q)[i] = q[i + 1] /\ i + 1 \in DOMAIN q /\ i + 1 # 1
      /\ \A j \in DOMAIN q : j # 1 => j - 1 \in DOMAIN Tail(q) /\ Tail(q)[j - 1] = q[j]
  BY <1>1
<1>3. 1 \in DOMAIN q
  BY <1>1
<1>4. Once(Tail(q))
  <2> SUFFICES ASSUME NEW i \in DOMAIN Tail(q), NEW j \in DOMAIN Tail(q),
                      Tail(q)[i] = Tail(q)[j]
               PROVE  i = j
    BY DEF Once
  <2>1. i + 1 = j + 1
    BY <1>2 DEF Once
  <2> QED
    BY <1>2, <2>1
<1>5. ASSUME NEW n, NEW i \in DOMAIN Tail(q), Tail(q)[i] = n
      PROVE  (\E j \in DOMAIN q : q[j] = n) /\ n # Head(q)
  BY <1>1, <1>2, <1>3, <1>5 DEF Once
<1>6. ASSUME NEW n, NEW j \in DOMAIN q, q[j] = n, n # Head(q)
      PROVE  \E i \in DOMAIN Tail(q) : Tail(q)[i] = n
  BY <1>1, <1>2, <1>6
<1> QED
  BY <1>4, <1>5, <1>6
-----------------------------------------------------------------------------
(* What the steps make of the places of the words.                          *)

SameHands == \A r, n : Holds(r, n)' <=> Holds(r, n)

LEMMA PlacesSame ==
    ASSUME Places, UNCHANGED <<queue, words, fate>>, SameHands
    PROVE  Places'
BY DEF Places, PlaceOf, InQueue, Word, SameHands

LEMMA PlacesAttach ==
    ASSUME WordTypes, Places, NEW key \in Keys, Attach(key), UNCHANGED words, SameHands
    PROVE  Places'
<1>1. ASSUME NEW n \in Word PROVE PlaceOf(n)'
  <2>1. PlaceOf(n)
    BY DEF Places
  <2>2. ~InQueue(n, key)' /\ \A k \in Keys : k # key => (InQueue(n, k)' <=> InQueue(n, k))
    BY Attached DEF InQueue
  <2>3. fate'[n] = IF InQueue(n, key) THEN "dropped" ELSE fate[n]
    BY Attached
  <2> QED
    BY <2>1, <2>2, <2>3 DEF PlaceOf, SameHands
<1>2. \A k \in Keys : Once(queue'[k])
  BY Attached DEF Places, Once
<1> QED
  BY <1>1, <1>2, Attached DEF Places

LEMMA PlacesDequeue ==
    ASSUME WordTypes, Places, NEW key \in Keys, queue[key] # << >>, NEW to \in Fates,
           queue' = [queue EXCEPT ![key] = Tail(@)],
           fate' = [fate EXCEPT ![Head(queue[key])] = to], UNCHANGED words,
           \/ to = "stolen" /\ SameHands
           \/ to = "taken" /\ \E q : \A r, n :
                  Holds(r, n)' <=> Holds(r, n) \/ (r = q /\ n = Head(queue[key]))
    PROVE  Places'
<1>0. PICK h : h = Head(queue[key])
  OBVIOUS
<1>1. queue[key] \in Seq(Word) /\ Once(queue[key])
  BY DEF WordTypes, Places
<1>2. /\ h \in Word /\ InQueue(h, key) /\ Word' = Word
      /\ queue'[key] = Tail(queue[key])
      /\ \A k \in Keys : k # key => queue'[k] = queue[k]
      /\ \A n \in Word : fate'[n] = IF n = h THEN to ELSE fate[n]
  <2>1. /\ Head(queue[key]) \in Word /\ InQueue(Head(queue[key]), key) /\ Word' = Word
        /\ queue'[key] = Tail(queue[key])
        /\ \A k \in Keys : k # key => queue'[k] = queue[k]
        /\ \A n \in Word : fate'[n] = IF n = Head(queue[key]) THEN to ELSE fate[n]
    BY Dequeued
  <2> QED
    BY <1>0, <2>1
<1>3. Once(queue'[key]) /\ \A n : InQueue(n, key)' <=> InQueue(n, key) /\ n # h
  <2>1. /\ Once(Tail(queue[key]))
        /\ \A n : (\E i \in DOMAIN Tail(queue[key]) : Tail(queue[key])[i] = n)
                  <=> (\E i \in DOMAIN queue[key] : queue[key][i] = n) /\ n # Head(queue[key])
    BY <1>1, HeadLeaves
  <2> QED
    BY <1>0, <1>2, <2>1 DEF InQueue
<1>4. fate[h] = "waiting" /\ words[h].key = key /\ ~(\E r : Holds(r, h))
  BY <1>2 DEF Places, PlaceOf
<1>5. ASSUME NEW n \in Word PROVE PlaceOf(n)'
  <2>1. PlaceOf(n)
    BY DEF Places
  <2>2. \A k \in Keys : InQueue(n, k)' <=> fate'[n] = "waiting" /\ words'[n].key = k
    <3>1. \A k \in Keys : k # key => (InQueue(n, k)' <=> InQueue(n, k))
      BY <1>2 DEF InQueue
    <3>2. to # "waiting"
      OBVIOUS
    <3> QED
      BY <1>2, <1>3, <1>4, <2>1, <3>1, <3>2 DEF PlaceOf
  <2>3. CASE to = "stolen" /\ SameHands
    BY <1>2, <1>4, <2>1, <2>2, <2>3 DEF PlaceOf, SameHands
  <2>4. CASE to = "taken" /\ \E q : \A r, m :
                 Holds(r, m)' <=> Holds(r, m) \/ (r = q /\ m = Head(queue[key]))
    <3>1. PICK q : \A r, m : Holds(r, m)' <=> Holds(r, m) \/ (r = q /\ m = h)
      BY <1>0, <2>4
    <3>2. fate'[n] = "taken" <=> \E r : Holds(r, n)'
      BY <1>2, <1>4, <2>1, <2>4, <3>1 DEF PlaceOf
    <3>3. \A r, p : Holds(r, n)' /\ Holds(p, n)' => r = p
      BY <1>4, <2>1, <3>1 DEF PlaceOf
    <3> QED
      BY <2>2, <3>2, <3>3 DEF PlaceOf
  <2> QED
    BY <2>3, <2>4
<1>6. \A k \in Keys : Once(queue'[k])
  BY <1>2, <1>3 DEF Places
<1> QED
  BY <1>2, <1>5, <1>6 DEF Places

(* Words that were taken are lost or answered.                              *)
LEMMA PlacesLeave ==
    ASSUME WordTypes, WordTypes', Places, UNCHANGED <<queue, words>>, NEW p, NEW S,
           \A n \in S : Holds(p, n),
           \A n \in Word : IF n \in S THEN fate'[n] \in {"lost", "answered"}
                                      ELSE fate'[n] = fate[n],
           \A r, n : Holds(r, n)' <=> Holds(r, n) /\ ~(r = p /\ n \in S)
    PROVE  Places'
<1>1. Word' = Word
  BY DEF Word
<1>2. ASSUME NEW n \in Word PROVE PlaceOf(n)'
  <2>1. PlaceOf(n)
    BY DEF Places
  <2>2. \A k \in Keys : InQueue(n, k)' <=> InQueue(n, k)
    BY DEF InQueue
  <2>3. CASE n \in S
    BY <2>1, <2>2, <2>3 DEF PlaceOf
  <2>4. CASE n \notin S
    BY <2>1, <2>2, <2>4 DEF PlaceOf
  <2> QED
    BY <2>3, <2>4
<1> QED
  BY <1>1, <1>2 DEF Places

(* A word that is entered waits at the end of its queue.                    *)
LEMMA PlacesSend ==
    ASSUME Types, Places, NEW kind \in Kinds, SendCommand(kind)
    PROVE  /\ WordTypes' /\ Places' /\ Word' = Word \cup {Len(words) + 1}
           /\ \A n \in Word : words'[n] = words[n] /\ fate'[n] = fate[n]
           /\ words'[Len(words) + 1].key = UserKey(words'[Len(words) + 1].directory)
           /\ fate'[Len(words) + 1] = "waiting"
<1>a. PICK new, key : new = Len(words) + 1 /\ key = UserKey(ui.directory)
  OBVIOUS
<1> DEFINE word == [kind |-> kind, key |-> key, directory |-> ui.directory]
           W == [kind : Kinds, key : Keys, directory : Directories]
<1>0. WordTypes /\ Len(words) \in Nat
  BY WordsAre DEF Types
<1>1. /\ words' = Append(words, word) /\ fate' = Append(fate, "waiting")
      /\ queue' = [queue EXCEPT ![key] = Append(@, new)]
      /\ UNCHANGED rts
  BY <1>a DEF SendCommand
<1>2. key \in Keys /\ ui.directory \in Directories
  BY <1>a, KeysAre DEF SendCommand, Types, UserTypes
<1>3. word \in W
  BY <1>2
<1>4. /\ words' \in Seq(W) /\ Len(words') = new
      /\ \A n \in Word : words'[n] = words[n]
      /\ words'[new] = word
  BY <1>0, <1>a, <1>1, <1>3, AppendProperties DEF WordTypes, Word
<1>5. Word' = Word \cup {new} /\ new \notin Word
  BY <1>0, <1>a, <1>4 DEF Word
<1>6. /\ fate' \in [Word' -> Fates]
      /\ \A n \in Word : fate'[n] = fate[n]
      /\ fate'[new] = "waiting"
  <2>1. fate \in Seq(Fates) /\ Len(fate) = Len(words)
    <3>1. fate \in [1 .. Len(words) -> Fates]
      BY <1>0 DEF WordTypes, Word
    <3>2. fate \in Seq(Fates)
      BY <1>0, <3>1, SeqDef
    <3>3. DOMAIN fate = 1 .. Len(fate) /\ Len(fate) \in Nat /\ DOMAIN fate = 1 .. Len(words)
      BY <3>1, <3>2, LenProperties
    <3> QED
      BY <1>0, <3>2, <3>3
  <2>2. "waiting" \in Fates
    BY DEF Fates
  <2>3. /\ fate' \in Seq(Fates) /\ Len(fate') = new
        /\ \A n \in Word : fate'[n] = fate[n]
        /\ fate'[new] = "waiting"
    BY <1>0, <1>a, <1>1, <2>1, <2>2, AppendProperties DEF Word
  <2> QED
    BY <1>4, <2>3, LenProperties DEF Word
<1> HIDE DEF word
<1>7. /\ queue[key] \in Seq(Word') /\ new \in Word'
      /\ queue'[key] = Append(queue[key], new)
      /\ \A k \in Keys : k # key => queue'[k] = queue[k]
      /\ \A k \in Keys : queue[k] \in Seq(Word')
  BY <1>0, <1>1, <1>2, <1>5, SeqMonotonic DEF WordTypes
<1>8. queue' \in [Keys -> Seq(Word')]
  BY <1>0, <1>1, <1>2, <1>7, AppendProperties DEF WordTypes
<1>9. WordTypes'
  BY <1>4, <1>6, <1>8 DEF WordTypes
<1>10. /\ DOMAIN queue[key] = 1 .. Len(queue[key]) /\ Len(queue[key]) \in Nat
       /\ DOMAIN queue'[key] = 1 .. Len(queue[key]) + 1
       /\ queue'[key][Len(queue[key]) + 1] = new
       /\ \A i \in DOMAIN queue[key] : queue'[key][i] = queue[key][i] /\ queue[key][i] \in Word
  BY <1>0, <1>2, <1>7, AppendProperties, WordsAre
<1>11. Once(queue'[key])
  <2>1. Once(queue[key])
    BY <1>2 DEF Places
  <2> QED
    BY <1>5, <1>10, <2>1 DEF Once
<1>12. \A n : InQueue(n, key)' <=> InQueue(n, key) \/ n = new
  BY <1>10 DEF InQueue
<1>13. ASSUME NEW n \in Word PROVE PlaceOf(n)'
  <2>1. PlaceOf(n) /\ n # new
    BY <1>5 DEF Places
  <2>2. \A k \in Keys : InQueue(n, k)' <=> InQueue(n, k)
    BY <1>7, <1>12, <2>1 DEF InQueue
  <2> QED
    BY <1>1, <1>4, <1>6, <2>1, <2>2 DEF PlaceOf, Holds
<1>14. PICK m : m = new
  OBVIOUS
<1>15. PlaceOf(m)'
  <2>1. ASSUME NEW k \in Keys PROVE InQueue(m, k)' <=> k = key
    <3>1. k # key => ~InQueue(m, k)'
      BY <1>0, <1>5, <1>7, <1>14, WordsAre DEF InQueue
    <3>2. InQueue(m, key)'
      BY <1>12, <1>14
    <3> QED
      BY <3>1, <3>2
  <2>2. \A r : ~Holds(r, m)'
    <3>1. \A r \in DOMAIN rts : rts[r].inbox \subseteq Word
      <4>1. rts \in Seq(RTProcess) /\ DOMAIN rts = 1 .. Len(rts)
        BY LenProperties DEF Types, RTTypes
      <4>2. \A r \in DOMAIN rts : rts[r] \in RTProcess
        BY <4>1, ElementOfSeq
      <4> QED
        BY <4>2 DEF RTProcess
    <3> QED
      BY <1>1, <1>5, <1>14, <3>1 DEF Holds
  <2> QED
    BY <1>2, <1>4, <1>6, <1>14, <2>1, <2>2 DEF PlaceOf, word
<1>16. Places'
  BY <1>5, <1>7, <1>11, <1>13, <1>14, <1>15 DEF Places
<1> QED
  BY <1>a, <1>4, <1>5, <1>6, <1>9, <1>16 DEF word
-----------------------------------------------------------------------------
(* What the steps make of the RT processes.                                 *)

LEMMA RunOrderIs == DOMAIN RunOrder = 1 .. 3 /\ Len(RunOrder) = 3
BY DEF RunOrder

LEMMA RTsAre ==
    ASSUME RTTypes
    PROVE  /\ Len(rts) \in Nat /\ DOMAIN rts = 1 .. Len(rts)
           /\ \A r \in DOMAIN rts : rts[r] \in RTProcess
<1>1. Len(rts) \in Nat /\ DOMAIN rts = 1 .. Len(rts)
  BY LenProperties DEF RTTypes
<1> QED
  BY <1>1, ElementOfSeq DEF RTTypes

LEMMA Started ==
    ASSUME RTTypes, NEW parent \in {"watchdog", "shell"}, NEW state \in {"exec", "create"},
           NEW directory \in Directories \cup {{}},
           rts' = Append(rts, Process(parent, state, directory)), UNCHANGED words
    PROVE  RTTypes' /\ Len(rts') = Len(rts) + 1 /\ Len(rts) \in Nat /\ SameHands
<1>0. PICK p : p = Process(parent, state, directory)
  OBVIOUS
<1>1. p \in RTProcess /\ p.inbox = {}
  BY <1>0, RunOrderIs DEF Process, RTProcess
<1>2. Len(rts) \in Nat /\ DOMAIN rts = 1 .. Len(rts) /\ rts \in Seq(RTProcess)
  BY RTsAre DEF RTTypes
<1>3. /\ rts' \in Seq(RTProcess) /\ Len(rts') = Len(rts) + 1
      /\ DOMAIN rts' = 1 .. Len(rts) + 1
      /\ \A r \in DOMAIN rts : rts'[r] = rts[r]
      /\ rts'[Len(rts) + 1] = p
  BY <1>0, <1>1, <1>2, AppendProperties
<1>4. RTProcess' = RTProcess
  BY DEF RTProcess, Word
<1>5. RTTypes'
  BY <1>1, <1>2, <1>3, <1>4 DEF RTTypes
<1>6. SameHands
  BY <1>1, <1>2, <1>3 DEF SameHands, Holds
<1> QED
  BY <1>2, <1>3, <1>5, <1>6

LEMMA Changed ==
    ASSUME RTTypes, NEW r \in DOMAIN rts, NEW p \in RTProcess, p.state # "run" => p.inbox = {},
           rts' = [rts EXCEPT ![r] = p], UNCHANGED words
    PROVE  /\ RTTypes' /\ Len(rts') = Len(rts)
           /\ \A q, n : Holds(q, n)' <=> IF q = r THEN n \in p.inbox ELSE Holds(q, n)
<1>1. /\ Len(rts) \in Nat /\ DOMAIN rts = 1 .. Len(rts) /\ rts \in Seq(RTProcess)
  BY RTsAre DEF RTTypes
<1>2. /\ rts' \in Seq(RTProcess) /\ Len(rts') = Len(rts) /\ DOMAIN rts' = DOMAIN rts
      /\ \A q \in DOMAIN rts : rts'[q] = IF q = r THEN p ELSE rts[q]
  BY <1>1, ExceptSeq, LenProperties
<1>3. RTProcess' = RTProcess
  BY DEF RTProcess, Word
<1>4. RTTypes'
  BY <1>2, <1>3 DEF RTTypes
<1> QED
  BY <1>2, <1>4 DEF Holds

LEMMA HandsSame ==
    ASSUME NEW r \in DOMAIN rts, NEW p, p.inbox = rts[r].inbox,
           \A q, n : Holds(q, n)' <=> IF q = r THEN n \in p.inbox ELSE Holds(q, n)
    PROVE  SameHands
BY DEF SameHands, Holds
-----------------------------------------------------------------------------
Inv == Types /\ Places

LEMMA OneMoreFailure ==
    ASSUME failures \in 0 .. MaxFailures, failures < MaxFailures, failures' = failures + 1
    PROVE  failures' \in 0 .. MaxFailures
BY ProcessesAssumption

LEMMA InvInit == Init => Inv
<1> SUFFICES ASSUME Init PROVE Inv
  OBVIOUS
<1>1. words = << >> /\ Word = {}
  BY DEF Init, Word
<1>2. WordTypes
  BY <1>1, EmptySeq DEF Init, WordTypes
<1>3. MaxUIStarts \in Nat /\ MaxFailures \in Nat
  BY ProcessesAssumption
<1>4. Types
  BY <1>2, <1>3, EmptySeq DEF Init, Types, UserTypes, WatchdogTypes, RTTypes
<1>5. Places
  BY <1>1 DEF Init, Places, Once
<1> QED
  BY <1>4, <1>5 DEF Inv

LEMMA RTsSame ==
    ASSUME RTTypes, UNCHANGED <<rts, words>>
    PROVE  RTTypes' /\ SameHands
BY DEF RTTypes, RTProcess, Word, SameHands, Holds

LEMMA WordsSame ==
    ASSUME WordTypes, UNCHANGED <<queue, words, fate>>
    PROVE  WordTypes'
BY DEF WordTypes, Word

(* The user interface.                                                      *)
LEMMA InvUser ==
    ASSUME Inv,
           \/ \E directory \in Directories : UserInterfaceCreate(directory)
           \/ \E kind \in Kinds : SendCommand(kind)
    PROVE  Inv'
<1>0. Types /\ Places /\ WordTypes /\ UserTypes /\ RTTypes /\ WatchdogTypes
  BY DEF Inv, Types
<1>1. ASSUME NEW directory \in Directories, UserInterfaceCreate(directory) PROVE Inv'
  <2>1. /\ ui' = [starts |-> ui.starts + 1, directory |-> directory]
        /\ ui.starts < MaxUIStarts /\ Attach(UserKey(directory))
        /\ UNCHANGED <<words, wd, rts, failures>>
    BY <1>1 DEF UserInterfaceCreate
  <2>2. UserTypes'
    BY <1>0, <2>1, ProcessesAssumption DEF UserTypes
  <2>3. WordTypes' /\ RTTypes' /\ SameHands /\ UserKey(directory) \in Keys
    BY <1>0, <2>1, KeysAre, Attached, RTsSame
  <2>4. Places'
    BY <1>0, <2>1, <2>3, PlacesAttach
  <2> QED
    BY <1>0, <2>1, <2>2, <2>3, <2>4 DEF Inv, Types, WatchdogTypes
<1>2. ASSUME NEW kind \in Kinds, SendCommand(kind) PROVE Inv'
  <2>1. UNCHANGED <<ui, wd, rts, failures>>
    BY <1>2 DEF SendCommand
  <2>2. WordTypes' /\ Places' /\ Word \subseteq Word'
    BY <1>0, <1>2, PlacesSend
  <2>3. RTTypes'
    <3>1. RTProcess \subseteq RTProcess'
      BY <2>2 DEF RTProcess
    <3> QED
      BY <1>0, <2>1, <3>1, SeqMonotonic DEF RTTypes
  <2> QED
    BY <1>0, <2>1, <2>2, <2>3 DEF Inv, Types, UserTypes, WatchdogTypes
<1> QED
  BY <1>1, <1>2

(* The watchdog.                                                            *)
LEMMA InvWatchdog ==
    ASSUME Inv,
           \/ \E directory \in Directories :
                  WatchDogCreate(directory) \/ WatchDogCreateFails(directory)
           \/ WatchDogRun \/ WatchDogKilled \/ KeepAlive
    PROVE  Inv'
<1>0. /\ Types /\ Places /\ WordTypes /\ UserTypes /\ RTTypes /\ WatchdogTypes
      /\ Len(rts) \in Nat /\ failures \in 0 .. MaxFailures /\ MaxFailures \in Nat
  BY RTsAre, ProcessesAssumption DEF Inv, Types
<1>1. ASSUME NEW directory \in Directories, WatchDogCreate(directory) PROVE Inv'
  <2>1. /\ wd' = [wd EXCEPT !.pc = "fork", !.directory = directory]
        /\ Attach(WatchdogKey(directory))
        /\ UNCHANGED <<words, ui, rts, failures>>
    BY <1>1 DEF WatchDogCreate
  <2>2. WordTypes' /\ RTTypes' /\ SameHands /\ WatchdogKey(directory) \in Keys
    BY <1>0, <2>1, KeysAre, Attached, RTsSame
  <2>3. Places'
    BY <1>0, <2>1, <2>2, PlacesAttach
  <2>4. WatchdogTypes'
    BY <1>0, <2>1 DEF WatchdogTypes
  <2> QED
    BY <1>0, <2>1, <2>2, <2>3, <2>4 DEF Inv, Types, UserTypes
<1>2. ASSUME NEW directory \in Directories, WatchDogCreateFails(directory) PROVE Inv'
  <2>1. /\ wd' = [wd EXCEPT !.pc = "fork", !.directory = directory, !.null = TRUE]
        /\ failures' \in 0 .. MaxFailures
        /\ UNCHANGED <<queue, words, fate, ui, rts>>
    BY <1>0, <1>2, OneMoreFailure DEF WatchDogCreateFails
  <2>2. WatchdogTypes'
    BY <1>0, <2>1 DEF WatchdogTypes
  <2>3. WordTypes' /\ RTTypes' /\ Places'
    BY <1>0, <2>1, WordsSame, RTsSame, PlacesSame
  <2> QED
    BY <1>0, <2>1, <2>2, <2>3 DEF Inv, Types, UserTypes
<1>3. CASE WatchDogFork
  <2>1. /\ rts' = Append(rts, Process("watchdog", "exec", wd.directory))
        /\ wd' = [wd EXCEPT !.pc = IF wd.null THEN "ended" ELSE "wait", !.child = Len(rts) + 1]
        /\ UNCHANGED <<queue, words, fate, ui, failures>>
    BY <1>3 DEF WatchDogFork
  <2>2. RTTypes' /\ SameHands /\ Len(rts') = Len(rts) + 1
    BY <1>0, <2>1, Started DEF WatchdogTypes
  <2>3. WatchdogTypes'
    <3>1. PICK pc \in {"ended", "wait"} : wd' = [wd EXCEPT !.pc = pc, !.child = Len(rts')]
      BY <2>1, <2>2
    <3>2. Len(rts') \in 0 .. Len(rts')
      BY <1>0, <2>2
    <3>3. wd \in [pc : {"off", "fork", "wait", "ended"}, directory : Directories \cup {{}},
                  null : BOOLEAN, child : 0 .. Len(rts)]
      BY <1>0 DEF WatchdogTypes
    <3> QED
      BY <3>1, <3>2, <3>3 DEF WatchdogTypes
  <2>4. WordTypes' /\ Places'
    BY <1>0, <2>1, <2>2, WordsSame, PlacesSame
  <2> QED
    BY <1>0, <2>1, <2>2, <2>3, <2>4 DEF Inv, Types, UserTypes
<1>4. CASE KeepAlive
  <2> DEFINE key == WatchdogKey(wd.directory)
  <2>1. /\ queue[key] # << >> /\ queue' = [queue EXCEPT ![key] = Tail(@)]
        /\ fate' = [fate EXCEPT ![Head(queue[key])] = "stolen"]
        /\ UNCHANGED <<words, ui, wd, rts, failures>>
    BY <1>4 DEF KeepAlive
  <2>2. key \in Keys /\ "stolen" \in Fates
    BY KeysAre DEF Fates
  <2> HIDE DEF key
  <2>3. RTTypes' /\ SameHands
    BY <1>0, <2>1, RTsSame
  <2>4. WordTypes'
    BY <1>0, <2>1, <2>2, Dequeued
  <2>5. Places'
    BY <1>0, <2>1, <2>2, <2>3, PlacesDequeue
  <2> QED
    BY <1>0, <2>1, <2>3, <2>4, <2>5 DEF Inv, Types, UserTypes, WatchdogTypes
<1>5. CASE WatchDogForkFails \/ WatchDogReturn \/ WatchDogKilled
  <2>1. UNCHANGED <<queue, words, fate, ui, rts, failures>>
    BY <1>5 DEF WatchDogForkFails, WatchDogReturn, WatchDogKilled
  <2>2. WatchdogTypes'
    BY <1>0, <1>5 DEF WatchDogForkFails, WatchDogReturn, AfterWait, WatchDogKilled,
                      WatchdogTypes
  <2>3. WordTypes' /\ RTTypes' /\ Places'
    BY <1>0, <2>1, WordsSame, RTsSame, PlacesSame
  <2> QED
    BY <1>0, <2>1, <2>2, <2>3 DEF Inv, Types, UserTypes
<1> QED
  BY <1>1, <1>2, <1>3, <1>4, <1>5 DEF WatchDogRun

(* RT.                                                                      *)
LEMMA InvRTSame ==
    ASSUME Inv, RTTypes', SameHands, Len(rts') = Len(rts), failures' \in 0 .. MaxFailures,
           UNCHANGED <<words, ui, wd>>,
           \/ UNCHANGED <<queue, fate>>
           \/ \E directory : Attach(UserKey(directory))
    PROVE  Inv'
<1>0. Types /\ Places /\ WordTypes /\ UserTypes /\ WatchdogTypes
  BY DEF Inv, Types
<1>1. WordTypes' /\ Places'
  BY <1>0, WordsSame, PlacesSame, KeysAre, Attached, PlacesAttach
<1> QED
  BY <1>0, <1>1 DEF Inv, Types, UserTypes, WatchdogTypes

LEMMA InvStart ==
    ASSUME Inv, NEW directory \in Directories, StartByHand(directory)
    PROVE  Inv'
<1>0. Types /\ Places /\ WordTypes /\ UserTypes /\ RTTypes /\ WatchdogTypes
  BY DEF Inv, Types
<1>1. UNCHANGED <<queue, words, fate, ui, wd, failures>>
      /\ rts' = Append(rts, Process("shell", "create", directory))
  BY DEF StartByHand
<1>2. RTTypes' /\ SameHands /\ Len(rts') = Len(rts) + 1 /\ Len(rts) \in Nat
  BY <1>0, <1>1, Started
<1>3. WatchdogTypes'
  BY <1>0, <1>1, <1>2 DEF WatchdogTypes
<1> QED
  BY <1>0, <1>1, <1>2, <1>3, WordsSame, PlacesSame DEF Inv, Types, UserTypes

LEMMA InvInitialize ==
    ASSUME Inv, NEW r \in DOMAIN rts, Execvp(r) \/ CreateAll(r) \/ CreateAllWithNull(r)
    PROVE  Inv'
<1>0. /\ RTTypes /\ rts[r] \in RTProcess /\ failures \in 0 .. MaxFailures /\ MaxFailures \in Nat
  BY RTsAre, ProcessesAssumption DEF Inv, Types
<1>1. ASSUME NEW p \in RTProcess, p.inbox = rts[r].inbox, p.state # "run" => p.inbox = {},
             rts' = [rts EXCEPT ![r] = p], failures' \in 0 .. MaxFailures,
             UNCHANGED <<words, ui, wd>>,
             \/ UNCHANGED <<queue, fate>>
             \/ \E directory : Attach(UserKey(directory))
      PROVE  Inv'
  <2>1. /\ RTTypes' /\ Len(rts') = Len(rts)
        /\ \A q, n : Holds(q, n)' <=> IF q = r THEN n \in p.inbox ELSE Holds(q, n)
    BY <1>0, <1>1, Changed
  <2>2. SameHands
    BY <1>1, <2>1, HandsSame
  <2> QED
    BY <1>1, <2>1, <2>2, InvRTSame
<1>2. CASE Execvp(r)
  <2>1. PICK state \in {"create", "ended"} : rts' = [rts EXCEPT ![r].state = state]
    BY <1>2 DEF Execvp
  <2>2. PICK p : p = [rts[r] EXCEPT !.state = state]
    OBVIOUS
  <2>3. p \in RTProcess /\ p.inbox = rts[r].inbox /\ rts' = [rts EXCEPT ![r] = p]
    BY <1>0, <2>1, <2>2 DEF RTProcess
  <2>4. rts[r].inbox = {}
    BY <1>0, <1>2 DEF Execvp, RTTypes
  <2>5. UNCHANGED <<queue, words, fate, ui, wd, failures>>
    BY <1>2 DEF Execvp
  <2> QED
    BY <1>0, <1>1, <2>3, <2>4, <2>5
<1>3. CASE CreateAll(r)
  <2>1. PICK p : p = [rts[r] EXCEPT !.state = "run"]
    OBVIOUS
  <2>2. p \in RTProcess /\ p.inbox = rts[r].inbox /\ p.state = "run"
    BY <1>0, <2>1 DEF RTProcess
  <2>3. /\ rts' = [rts EXCEPT ![r] = p] /\ Attach(RTKey(r))
        /\ UNCHANGED <<words, ui, wd, failures>>
    BY <1>3, <2>1 DEF CreateAll
  <2> QED
    BY <1>0, <1>1, <2>2, <2>3 DEF RTKey
<1>4. CASE CreateAllWithNull(r)
  <2>1. PICK null \in DOMAIN RunOrder :
            /\ rts' = [rts EXCEPT ![r].state = "run", ![r].null = null]
            /\ (UNCHANGED <<queue, fate>>) \/ Attach(RTKey(r))
    BY <1>4 DEF CreateAllWithNull
  <2>2. PICK p : p = [rts[r] EXCEPT !.state = "run", !.null = null]
    OBVIOUS
  <2>3. p \in RTProcess /\ p.inbox = rts[r].inbox /\ p.state = "run"
    <3>1. null \in 0 .. Len(RunOrder)
      BY RunOrderIs
    <3> QED
      BY <1>0, <2>2, <3>1 DEF RTProcess
  <2>4. rts' = [rts EXCEPT ![r] = p]
    BY <2>1, <2>2
  <2>5. UNCHANGED <<words, ui, wd>> /\ failures' \in 0 .. MaxFailures
    BY <1>0, <1>4, OneMoreFailure DEF CreateAllWithNull
  <2> QED
    BY <1>1, <2>1, <2>3, <2>4, <2>5 DEF RTKey
<1> QED
  BY <1>2, <1>3, <1>4

LEMMA EndRTInv ==
    ASSUME Inv, NEW r \in DOMAIN rts, EndRT(r), UNCHANGED <<queue, words, ui, wd, failures>>
    PROVE  Inv'
<1>0. /\ Types /\ Places /\ WordTypes /\ UserTypes /\ RTTypes /\ WatchdogTypes
      /\ rts[r] \in RTProcess /\ rts[r].inbox \subseteq Word
  BY RTsAre DEF Inv, Types, RTProcess
<1>1. PICK p : p = Process(rts[r].parent, "ended", {})
  OBVIOUS
<1>2. p \in RTProcess /\ p.inbox = {}
  BY <1>0, <1>1, RunOrderIs DEF Process, RTProcess
<1>3. rts' = [rts EXCEPT ![r] = p]
  BY <1>1 DEF EndRT
<1>4. /\ RTTypes' /\ Len(rts') = Len(rts)
      /\ \A q, n : Holds(q, n)' <=> IF q = r THEN n \in p.inbox ELSE Holds(q, n)
  BY <1>0, <1>2, <1>3, Changed
<1>5. /\ DOMAIN fate' = Word /\ DOMAIN fate = Word
      /\ \A n \in Word : fate'[n] = IF n \in rts[r].inbox THEN "lost" ELSE fate[n]
  BY <1>0 DEF EndRT, WordTypes
<1>6. WordTypes'
  <2>1. \A n \in Word : fate'[n] \in Fates
    BY <1>0, <1>5 DEF WordTypes, Fates
  <2>2. fate' = [n \in Word |-> fate'[n]]
    BY <1>5 DEF EndRT
  <2>3. fate' \in [Word -> Fates]
    BY <2>1, <2>2
  <2> QED
    BY <1>0, <2>3 DEF WordTypes, Word
<1>7. PICK S : S = rts[r].inbox
  OBVIOUS
<1>8. /\ \A n \in S : Holds(r, n)
      /\ \A n \in Word : IF n \in S THEN fate'[n] \in {"lost", "answered"}
                                    ELSE fate'[n] = fate[n]
      /\ \A q, n : Holds(q, n)' <=> Holds(q, n) /\ ~(q = r /\ n \in S)
  BY <1>2, <1>4, <1>5, <1>7 DEF Holds
<1>9. Places'
  BY <1>0, <1>6, <1>8, PlacesLeave
<1> QED
  BY <1>0, <1>4, <1>6, <1>9 DEF Inv, Types, UserTypes, WatchdogTypes

LEMMA InvRunNext ==
    ASSUME Inv, NEW r \in DOMAIN rts, RunNext(r)
    PROVE  Inv'
<1>0. RTTypes /\ rts[r] \in RTProcess /\ failures \in 0 .. MaxFailures
  BY RTsAre DEF Inv, Types
<1>1. CASE EndRT(r)
  BY <1>1, EndRTInv DEF RunNext
<1>2. CASE rts' = [rts EXCEPT ![r].started = @ + 1] /\ UNCHANGED fate
  <2>1. PICK p : p = [rts[r] EXCEPT !.started = @ + 1]
    OBVIOUS
  <2>2. rts[r].state = "run" /\ rts[r].started < 3
    BY RunOrderIs DEF RunNext, Running
  <2>3. p \in RTProcess /\ p.inbox = rts[r].inbox /\ p.state = "run"
    BY <1>0, <2>1, <2>2, RunOrderIs DEF RTProcess
  <2>4. rts' = [rts EXCEPT ![r] = p]
    BY <1>2, <2>1
  <2>5. /\ RTTypes' /\ Len(rts') = Len(rts)
        /\ \A q, n : Holds(q, n)' <=> IF q = r THEN n \in p.inbox ELSE Holds(q, n)
    BY <1>0, <2>3, <2>4, Changed DEF RunNext
  <2>6. SameHands
    BY <2>3, <2>5, HandsSame
  <2> QED
    BY <1>0, <1>2, <2>5, <2>6, InvRTSame DEF RunNext
<1> QED
  BY <1>1, <1>2 DEF RunNext

LEMMA InvGetMsg ==
    ASSUME Inv, NEW r \in DOMAIN rts, GetMsg(r)
    PROVE  Inv'
<1>0. /\ Types /\ Places /\ WordTypes /\ UserTypes /\ RTTypes /\ WatchdogTypes
      /\ rts[r] \in RTProcess
  BY RTsAre DEF Inv, Types
<1>1. PICK key, h : key = RTKey(r) /\ h = Head(queue[key])
  OBVIOUS
<1>2. /\ queue[key] # << >> /\ queue' = [queue EXCEPT ![key] = Tail(@)]
      /\ fate' = [fate EXCEPT ![Head(queue[key])] = "taken"]
      /\ rts' = [rts EXCEPT ![r].inbox = @ \cup {h}] /\ rts[r].state = "run"
      /\ UNCHANGED <<words, ui, wd, failures>>
  BY <1>1 DEF GetMsg, Behind, Running
<1>3. key \in Keys /\ "taken" \in Fates
  BY <1>1, KeysAre DEF Fates, RTKey
<1>4. WordTypes' /\ h \in Word
  BY <1>0, <1>1, <1>2, <1>3, Dequeued
<1>5. PICK p : p = [rts[r] EXCEPT !.inbox = @ \cup {h}]
  OBVIOUS
<1>6. /\ p \in RTProcess /\ p.inbox = rts[r].inbox \cup {h} /\ p.state = "run"
      /\ rts' = [rts EXCEPT ![r] = p]
  BY <1>0, <1>2, <1>4, <1>5 DEF RTProcess
<1>7. /\ RTTypes' /\ Len(rts') = Len(rts)
      /\ \A q, n : Holds(q, n)' <=> IF q = r THEN n \in p.inbox ELSE Holds(q, n)
  BY <1>0, <1>2, <1>6, Changed
<1>8. \A q, n : Holds(q, n)' <=> Holds(q, n) \/ (q = r /\ n = Head(queue[key]))
  BY <1>1, <1>6, <1>7 DEF Holds
<1>9. Places'
  BY <1>0, <1>2, <1>3, <1>8, PlacesDequeue
<1> QED
  BY <1>0, <1>2, <1>4, <1>7, <1>9 DEF Inv, Types, UserTypes, WatchdogTypes

LEMMA InvAnswer ==
    ASSUME Inv, NEW r \in DOMAIN rts, NEW n \in rts[r].inbox, Answer(r, n)
    PROVE  Inv'
<1>0. /\ Types /\ Places /\ WordTypes /\ UserTypes /\ RTTypes /\ WatchdogTypes
      /\ rts[r] \in RTProcess /\ n \in Word
  BY RTsAre DEF Inv, Types, RTProcess
<1>1. /\ rts' = [rts EXCEPT ![r].inbox = @ \ {n}] /\ rts[r].state = "run"
      /\ fate' = [fate EXCEPT ![n] = "answered"]
      /\ UNCHANGED <<queue, words, ui, wd, failures>>
  BY DEF Answer, Running
<1>2. WordTypes' /\ \A m \in Word : fate'[m] = IF m = n THEN "answered" ELSE fate[m]
  <2>1. "answered" \in Fates
    BY DEF Fates
  <2> QED
    BY <1>0, <1>1, <2>1 DEF WordTypes, Word
<1>3. PICK p : p = [rts[r] EXCEPT !.inbox = @ \ {n}]
  OBVIOUS
<1>4. /\ p \in RTProcess /\ p.inbox = rts[r].inbox \ {n} /\ p.state = "run"
      /\ rts' = [rts EXCEPT ![r] = p]
  BY <1>0, <1>1, <1>3 DEF RTProcess
<1>5. /\ RTTypes' /\ Len(rts') = Len(rts)
      /\ \A q, m : Holds(q, m)' <=> IF q = r THEN m \in p.inbox ELSE Holds(q, m)
  BY <1>0, <1>1, <1>4, Changed
<1>6. PICK S : S = {n}
  OBVIOUS
<1>7. /\ \A m \in S : Holds(r, m)
      /\ \A m \in Word : IF m \in S THEN fate'[m] \in {"lost", "answered"}
                                    ELSE fate'[m] = fate[m]
      /\ \A q, m : Holds(q, m)' <=> Holds(q, m) /\ ~(q = r /\ m \in S)
  BY <1>2, <1>4, <1>5, <1>6 DEF Holds
<1>8. Places'
  BY <1>0, <1>1, <1>2, <1>7, PlacesLeave
<1> QED
  BY <1>0, <1>1, <1>2, <1>5, <1>8 DEF Inv, Types, UserTypes, WatchdogTypes

LEMMA InvNext == Inv /\ [Next]_vars => Inv'
<1> SUFFICES ASSUME Inv, [Next]_vars PROVE Inv'
  OBVIOUS
<1>1. CASE UNCHANGED vars
  <2>1. Types /\ Places /\ WordTypes /\ UserTypes /\ RTTypes /\ WatchdogTypes
    BY DEF Inv, Types
  <2> QED
    BY <1>1, <2>1, WordsSame, RTsSame, PlacesSame DEF vars, Inv, Types, UserTypes, WatchdogTypes
<1>2. CASE Environment
  <2>1. ASSUME NEW r \in DOMAIN rts, RTKilled(r) PROVE Inv'
    BY <2>1, EndRTInv DEF RTKilled
  <2> QED
    BY <1>2, <2>1, InvUser, InvWatchdog, InvStart DEF Environment
<1>3. CASE WatchDogRun \/ KeepAlive
  BY <1>3, InvWatchdog
<1>4. ASSUME NEW r \in DOMAIN rts,
             InitializeSystem(r) \/ GetMsg(r) \/ \E n \in rts[r].inbox : Answer(r, n)
      PROVE  Inv'
  BY <1>4, InvInitialize, InvRunNext, InvGetMsg, InvAnswer DEF InitializeSystem
<1> QED
  BY <1>1, <1>2, <1>3, <1>4 DEF Next

LEMMA InvAlways == Spec => []Inv
BY InvInit, InvNext, PTL DEF Spec

(* Type correctness, and the place of every word: while it waits it is in   *)
(* one shared queue, once taken it is held by one RT that lives, and it is  *)
(* in no queue and with no RT in the end, however the processes start, end  *)
(* and attach to the queues.                                                *)
THEOREM ProcessesTypeCorrect == Spec => []TypeOK
<1>1. Inv => TypeOK
  <2> SUFFICES ASSUME Inv PROVE TypeOK
    OBVIOUS
  <2>0. Types /\ Places /\ WordTypes /\ UserTypes /\ RTTypes /\ WatchdogTypes
    BY DEF Inv, Types
  <2> SUFFICES ASSUME NEW n \in Word
               PROVE  /\ Cardinality({key \in Keys : InQueue(n, key)})
                           = (IF fate[n] = "waiting" THEN 1 ELSE 0)
                      /\ Cardinality({r \in DOMAIN rts : Live(r) /\ n \in rts[r].inbox})
                           = (IF fate[n] = "taken" THEN 1 ELSE 0)
    BY <2>0 DEF TypeOK, Types, WordTypes, UserTypes, RTTypes, WatchdogTypes, RTProcess, Fates
  <2>1. PlaceOf(n) /\ words[n].key \in Keys
    BY <2>0, WordsAre DEF Places
  <2>2. /\ Cardinality({}) = 0
        /\ \A x : Cardinality({x}) = 1
    BY FS_EmptySet, FS_Singleton
  <2>3. Cardinality({key \in Keys : InQueue(n, key)}) = (IF fate[n] = "waiting" THEN 1 ELSE 0)
    <3>1. CASE fate[n] = "waiting"
      <4>1. {key \in Keys : InQueue(n, key)} = {words[n].key}
        BY <2>1, <3>1 DEF PlaceOf
      <4> QED
        BY <2>2, <3>1, <4>1
    <3>2. CASE fate[n] # "waiting"
      <4>1. {key \in Keys : InQueue(n, key)} = {}
        BY <2>1, <3>2 DEF PlaceOf
      <4> QED
        BY <2>2, <3>2, <4>1
    <3> QED
      BY <3>1, <3>2
  <2>4. Cardinality({r \in DOMAIN rts : Live(r) /\ n \in rts[r].inbox})
            = (IF fate[n] = "taken" THEN 1 ELSE 0)
    <3> DEFINE R == {r \in DOMAIN rts : Live(r) /\ n \in rts[r].inbox}
    <3>1. \A r : r \in R <=> Holds(r, n)
      BY <2>0 DEF Holds, Live, RTTypes
    <3>2. CASE fate[n] = "taken"
      <4>1. PICK r : Holds(r, n)
        BY <2>1, <3>2 DEF PlaceOf
      <4>2. R = {r}
        BY <2>1, <3>1, <4>1 DEF PlaceOf
      <4> QED
        BY <2>2, <3>2, <4>2
    <3>3. CASE fate[n] # "taken"
      <4>1. R = {}
        BY <2>1, <3>1, <3>3 DEF PlaceOf
      <4> QED
        BY <2>2, <3>3, <4>1
    <3> QED
      BY <3>2, <3>3
  <2> QED
    BY <2>3, <2>4
<1> QED
  BY <1>1, InvAlways, PTL
-----------------------------------------------------------------------------
(* Words that the watchdog takes.                                           *)

KeysOfWords == \A n \in Word : words[n].key = UserKey(words[n].directory)

StolenInv ==
    \A n \in Word : fate[n] = "stolen" =>
        /\ "file2" \notin words[n].directory /\ "file1" \notin wd.directory
        /\ wd.pc # "off"

(* A step that steals nothing and leaves the watchdog where it was started. *)
LEMMA NothingStolen ==
    ASSUME StolenInv, KeysOfWords, UNCHANGED words,
           \A n \in Word : fate'[n] = "stolen" => fate[n] = "stolen",
           wd.pc # "off" => wd'.directory = wd.directory /\ wd'.pc # "off"
    PROVE  (StolenInv /\ KeysOfWords)'
BY DEF StolenInv, KeysOfWords, Word, UserKey, Key

LEMMA StolenNext == Inv /\ StolenInv /\ KeysOfWords /\ [Next]_vars => (StolenInv /\ KeysOfWords)'
<1> SUFFICES ASSUME Inv, StolenInv, KeysOfWords, [Next]_vars PROVE (StolenInv /\ KeysOfWords)'
  OBVIOUS
<1>0. WordTypes /\ Places /\ WatchdogTypes /\ Types
  BY DEF Inv, Types
<1>1. CASE UNCHANGED <<words, fate>> /\ (wd.pc # "off" => wd'.directory = wd.directory /\ wd'.pc # "off")
  BY <1>1, NothingStolen
<1>2. ASSUME NEW key \in Keys, Attach(key), UNCHANGED words,
             wd.pc # "off" => wd'.directory = wd.directory /\ wd'.pc # "off"
      PROVE  (StolenInv /\ KeysOfWords)'
  BY <1>0, <1>2, NothingStolen, Attached
<1>3. ASSUME NEW n, NEW to \in {"taken", "answered"}, fate' = [fate EXCEPT ![n] = to],
             UNCHANGED <<words, wd>>
      PROVE  (StolenInv /\ KeysOfWords)'
  <2>1. \A m \in Word : fate'[m] = "stolen" => fate[m] = "stolen"
    BY <1>0, <1>3 DEF WordTypes
  <2> QED
    BY <1>3, <2>1, NothingStolen
<1>4. ASSUME NEW r, EndRT(r), UNCHANGED <<words, wd>>
      PROVE  (StolenInv /\ KeysOfWords)'
  <2>1. \A m \in Word : fate'[m] = "stolen" => fate[m] = "stolen"
    BY <1>0, <1>4 DEF WordTypes, EndRT
  <2> QED
    BY <1>4, <2>1, NothingStolen
<1>5. CASE KeepAlive
  <2>1. PICK key, h : key = WatchdogKey(wd.directory) /\ h = Head(queue[key])
    OBVIOUS
  <2>2. /\ queue[key] # << >> /\ queue' = [queue EXCEPT ![key] = Tail(@)]
        /\ fate' = [fate EXCEPT ![Head(queue[key])] = "stolen"]
        /\ UNCHANGED <<words, wd>> /\ wd.pc = "wait"
    BY <1>5, <2>1 DEF KeepAlive
  <2>3. key \in Keys /\ "stolen" \in Fates
    BY <2>1, KeysAre DEF Fates
  <2>4. /\ h \in Word /\ InQueue(h, key)
        /\ \A n \in Word : fate'[n] = IF n = h THEN "stolen" ELSE fate[n]
    <3>1. /\ Head(queue[key]) \in Word /\ InQueue(Head(queue[key]), key)
          /\ \A n \in Word : fate'[n] = IF n = Head(queue[key]) THEN "stolen" ELSE fate[n]
      BY <1>0, <2>2, <2>3, Dequeued
    <3> QED
      BY <2>1, <3>1
  <2>5. words[h].key = key
    BY <1>0, <2>3, <2>4 DEF Places, PlaceOf
  <2>6. "file2" \notin words[h].directory /\ "file1" \notin wd.directory
    BY <2>1, <2>4, <2>5, KeysAre DEF KeysOfWords
  <2> QED
    BY <2>2, <2>4, <2>6 DEF StolenInv, KeysOfWords, Word, UserKey, Key
<1>6. ASSUME NEW kind \in Kinds, SendCommand(kind)
      PROVE  (StolenInv /\ KeysOfWords)'
  <2>1. /\ Word' = Word \cup {Len(words) + 1}
        /\ \A n \in Word : words'[n] = words[n] /\ fate'[n] = fate[n]
        /\ words'[Len(words) + 1].key = UserKey(words'[Len(words) + 1].directory)
        /\ fate'[Len(words) + 1] = "waiting"
    BY <1>0, <1>6, PlacesSend DEF Inv
  <2>2. UNCHANGED wd
    BY <1>6 DEF SendCommand
  <2> QED
    BY <2>1, <2>2 DEF StolenInv, KeysOfWords, UserKey, Key
<1>7. CASE \E directory \in Directories :
               UserInterfaceCreate(directory) \/ WatchDogCreate(directory)
               \/ WatchDogCreateFails(directory) \/ StartByHand(directory)
  <2>1. ASSUME NEW directory \in Directories, UserInterfaceCreate(directory)
        PROVE  (StolenInv /\ KeysOfWords)'
    BY <1>2, <2>1, KeysAre DEF UserInterfaceCreate
  <2>2. ASSUME NEW directory \in Directories, WatchDogCreate(directory)
        PROVE  (StolenInv /\ KeysOfWords)'
    BY <1>2, <2>2, KeysAre DEF WatchDogCreate
  <2>3. ASSUME NEW directory \in Directories,
               WatchDogCreateFails(directory) \/ StartByHand(directory)
        PROVE  (StolenInv /\ KeysOfWords)'
    BY <1>1, <2>3 DEF WatchDogCreateFails, StartByHand
  <2> QED
    BY <1>7, <2>1, <2>2, <2>3
<1>8. CASE WatchDogRun \/ WatchDogKilled
  <2>1. UNCHANGED <<words, fate>>
    BY <1>8 DEF WatchDogRun, WatchDogFork, WatchDogForkFails, WatchDogReturn, WatchDogKilled
  <2>2. wd'.directory = wd.directory /\ wd'.pc # "off"
    BY <1>0, <1>8 DEF WatchDogRun, WatchDogFork, WatchDogForkFails, WatchDogReturn,
                      AfterWait, WatchDogKilled, WatchdogTypes
  <2> QED
    BY <1>1, <2>1, <2>2
<1>9. ASSUME NEW r \in DOMAIN rts,
             RTKilled(r) \/ InitializeSystem(r) \/ GetMsg(r) \/ \E n \in rts[r].inbox : Answer(r, n)
      PROVE  (StolenInv /\ KeysOfWords)'
  <2>1. CASE RTKilled(r) \/ RunNext(r)
    BY <1>1, <1>4, <2>1 DEF RTKilled, RunNext
  <2>2. CASE Execvp(r)
    BY <1>1, <2>2 DEF Execvp
  <2>3. CASE CreateAll(r) \/ CreateAllWithNull(r)
    BY <1>1, <1>2, <2>3, KeysAre DEF CreateAll, CreateAllWithNull, RTKey
  <2>4. CASE GetMsg(r)
    BY <1>3, <2>4 DEF GetMsg
  <2>5. ASSUME NEW n, Answer(r, n) PROVE (StolenInv /\ KeysOfWords)'
    BY <1>3, <2>5 DEF Answer
  <2> QED
    BY <1>9, <2>1, <2>2, <2>3, <2>4, <2>5 DEF InitializeSystem
<1>10. CASE UNCHANGED vars
  BY <1>1, <1>10 DEF vars
<1> QED
  BY <1>5, <1>6, <1>7, <1>8, <1>9, <1>10 DEF Next, Environment

(* KeepAlive takes a user's command only when the key file of the user      *)
(* interface was missing where that was started, and the watchdog's where   *)
(* the watchdog was: in any set of directories, and however often the       *)
(* programs are started.                                                    *)
THEOREM StolenOnlyWithoutKeyFilesAlways == Spec => []StolenOnlyWithoutKeyFiles
<1>1. Init => StolenInv /\ KeysOfWords
  BY DEF Init, StolenInv, KeysOfWords, Word
<1>2. StolenInv => StolenOnlyWithoutKeyFiles
  BY DEF StolenInv, StolenOnlyWithoutKeyFiles
<1> QED
  BY <1>1, <1>2, StolenNext, InvAlways, PTL DEF Spec
-----------------------------------------------------------------------------
(* The RTs of the watchdog once it is out of service.                       *)

FromWatchdog(r) == rts[r].parent = "watchdog"

ServesNoMore == \A r \in DOMAIN rts : FromWatchdog(r) => rts[r].inbox = {}

(* No process of the watchdog's begins, and none that has ended comes back. *)
LEMMA OutOfServiceStays == Inv /\ OutOfService /\ [Next]_vars => OutOfService'
<1> SUFFICES ASSUME Inv, OutOfService, [Next]_vars PROVE OutOfService'
  OBVIOUS
<1>0. /\ RTTypes /\ Len(rts) \in Nat /\ DOMAIN rts = 1 .. Len(rts)
      /\ \A r \in DOMAIN rts : rts[r] \in RTProcess /\ (FromWatchdog(r) => rts[r].state = "ended")
  BY RTsAre DEF Inv, Types, OutOfService, Live, FromWatchdog
<1>1. CASE UNCHANGED rts /\ wd'.pc \in {"wait", "ended"}
  BY <1>1 DEF OutOfService, Live
<1>2. wd.pc \in {"wait", "ended"} /\ wd \in [pc : {"off", "fork", "wait", "ended"},
          directory : Directories \cup {{}}, null : BOOLEAN, child : 0 .. Len(rts)]
  BY DEF OutOfService, Inv, Types, WatchdogTypes
<1>3. CASE UNCHANGED <<rts, wd>>
  BY <1>1, <1>2, <1>3
<1>4. CASE WatchDogRun \/ WatchDogKilled
  <2>1. UNCHANGED rts
    BY <1>2, <1>4 DEF WatchDogRun, WatchDogFork, WatchDogForkFails, WatchDogReturn, WatchDogKilled
  <2>2. wd'.pc \in {"wait", "ended"}
    BY <1>2, <1>4 DEF WatchDogRun, WatchDogFork, WatchDogForkFails, WatchDogReturn, AfterWait,
                      WatchDogKilled
  <2> QED
    BY <1>1, <2>1, <2>2
<1>5. ASSUME NEW directory \in Directories, StartByHand(directory) PROVE OutOfService'
  <2>1. PICK p : p = Process("shell", "create", directory)
    OBVIOUS
  <2>2. rts' = Append(rts, p) /\ p.parent = "shell" /\ UNCHANGED wd
    BY <1>5, <2>1 DEF StartByHand, Process
  <2>3. /\ DOMAIN rts' = 1 .. Len(rts) + 1 /\ rts'[Len(rts) + 1] = p
        /\ \A r \in DOMAIN rts : rts'[r] = rts[r]
    BY <1>0, <2>2, AppendProperties DEF RTTypes
  <2> QED
    BY <1>0, <1>2, <2>2, <2>3 DEF OutOfService, Live, FromWatchdog
<1>6. ASSUME NEW r \in DOMAIN rts, NEW p, rts' = [rts EXCEPT ![r] = p], UNCHANGED wd,
             p.parent = rts[r].parent, rts[r].state = "ended" => p.state = "ended"
      PROVE  OutOfService'
  <2>1. DOMAIN rts' = DOMAIN rts /\ \A q \in DOMAIN rts : rts'[q] = IF q = r THEN p ELSE rts[q]
    BY <1>0, <1>6
  <2> QED
    BY <1>0, <1>2, <1>6, <2>1 DEF OutOfService, Live, FromWatchdog
<1>7. ASSUME NEW r \in DOMAIN rts, EndRT(r), UNCHANGED wd PROVE OutOfService'
  <2>1. PICK p : p = Process(rts[r].parent, "ended", {})
    OBVIOUS
  <2> QED
    BY <1>6, <1>7, <2>1 DEF EndRT, Process
<1>8. ASSUME NEW r \in DOMAIN rts, rts[r].state # "ended", UNCHANGED wd, NEW p,
             p.parent = rts[r].parent, rts' = [rts EXCEPT ![r] = p]
      PROVE  OutOfService'
  BY <1>6, <1>8
<1>9. ASSUME NEW r \in DOMAIN rts,
             InitializeSystem(r) \/ GetMsg(r) \/ \E n \in rts[r].inbox : Answer(r, n)
      PROVE  OutOfService'
  <2>1. CASE Execvp(r)
    <3>1. PICK state : rts' = [rts EXCEPT ![r].state = state]
      BY <2>1 DEF Execvp
    <3>2. PICK p : p = [rts[r] EXCEPT !.state = state]
      OBVIOUS
    <3> QED
      BY <1>0, <1>8, <2>1, <3>1, <3>2 DEF Execvp, RTProcess
  <2>2. CASE CreateAll(r)
    <3>1. PICK p : p = [rts[r] EXCEPT !.state = "run"]
      OBVIOUS
    <3> QED
      BY <1>0, <1>8, <2>2, <3>1 DEF CreateAll, RTProcess
  <2>3. CASE CreateAllWithNull(r)
    <3>1. PICK null : rts' = [rts EXCEPT ![r].state = "run", ![r].null = null]
      BY <2>3 DEF CreateAllWithNull
    <3>2. PICK p : p = [rts[r] EXCEPT !.state = "run", !.null = null]
      OBVIOUS
    <3>3. p.parent = rts[r].parent /\ rts' = [rts EXCEPT ![r] = p]
      BY <1>0, <3>1, <3>2 DEF RTProcess
    <3>4. rts[r].state # "ended" /\ UNCHANGED wd
      BY <2>3 DEF CreateAllWithNull
    <3> QED
      BY <1>8, <3>3, <3>4
  <2>4. CASE RunNext(r)
    <3>1. PICK p : p = [rts[r] EXCEPT !.started = @ + 1]
      OBVIOUS
    <3> QED
      BY <1>0, <1>7, <1>8, <2>4, <3>1 DEF RunNext, Running, RTProcess
  <2>5. CASE GetMsg(r)
    <3>1. PICK n : n = Head(queue[RTKey(r)])
      OBVIOUS
    <3>2. PICK p : p = [rts[r] EXCEPT !.inbox = @ \cup {n}]
      OBVIOUS
    <3> QED
      BY <1>0, <1>8, <2>5, <3>1, <3>2 DEF GetMsg, Running, RTProcess
  <2>6. ASSUME NEW n, Answer(r, n) PROVE OutOfService'
    <3>1. PICK p : p = [rts[r] EXCEPT !.inbox = @ \ {n}]
      OBVIOUS
    <3> QED
      BY <1>0, <1>8, <2>6, <3>1 DEF Answer, Running, RTProcess
  <2> QED
    BY <1>9, <2>1, <2>2, <2>3, <2>4, <2>5, <2>6 DEF InitializeSystem
<1>10. CASE Environment
  <2>1. ASSUME NEW directory \in Directories,
               UserInterfaceCreate(directory) \/ WatchDogCreate(directory)
               \/ WatchDogCreateFails(directory)
        PROVE  OutOfService'
    BY <1>2, <1>3, <2>1 DEF UserInterfaceCreate, WatchDogCreate, WatchDogCreateFails
  <2>2. ASSUME NEW kind \in Kinds, SendCommand(kind) PROVE OutOfService'
    BY <1>3, <2>2 DEF SendCommand
  <2>3. ASSUME NEW r \in DOMAIN rts, RTKilled(r) PROVE OutOfService'
    BY <1>7, <2>3 DEF RTKilled
  <2> QED
    BY <1>4, <1>5, <1>10, <2>1, <2>2, <2>3 DEF Environment
<1>11. CASE KeepAlive \/ UNCHANGED vars
  BY <1>3, <1>11 DEF KeepAlive, vars
<1> QED
  BY <1>4, <1>9, <1>10, <1>11 DEF Next

(* Once its RT has ended, or its fork has failed, the watchdog gives no RT  *)
(* a command again: whatever is started, killed and sent afterwards, and    *)
(* for any number of processes and words, the RTs that take commands are    *)
(* those started by hand.                                                   *)
THEOREM ServedByHandAfterwardsAlways == Spec => ServedByHandAfterwards
<1>1. Inv /\ OutOfService => ServesNoMore
  BY DEF Inv, Types, RTTypes, OutOfService, Live, ServesNoMore, FromWatchdog
<1>2. ServesNoMore <=> \A r \in DOMAIN rts : rts[r].parent = "watchdog" => rts[r].inbox = {}
  BY DEF ServesNoMore, FromWatchdog
<1>3. []Inv /\ [][Next]_vars => [](OutOfService => []ServesNoMore)
  BY <1>1, OutOfServiceStays, PTL
<1> QED
  BY <1>2, <1>3, InvAlways, PTL DEF Spec, ServedByHandAfterwards
=============================================================================
