-------------------------- MODULE IngestLog_proofs --------------------------
(***************************************************************************)
(* The ingest threads implement LineLog, for any files, any length of the  *)
(* queues and any interleaving.                                            *)
(*                                                                         *)
(* The path of a record is a row of ten stages, seen from its end: the log *)
(* of the aggregators, the hands and the queues back to the line in the    *)
(* reader's hand.  Every step of a thread moves the head of a stage to the *)
(* end of the stage before it, or adds the next line of a file at the far  *)
(* end; a file item, which shares dataManagerQueue and readerQueue with    *)
(* the records, counts as no line.  So the lines of a file stay in order   *)
(* along the row, and the log is its front.                                *)
(***************************************************************************)
EXTENDS Ingest_proofs

NoLine  == [file |-> NoFile, line |-> 0, ending |-> "newline"]
AnyLine == LineEntry \cup {NoLine}
Items   == RowItem \cup Record

Item(x)    == IF x.context = "PROCESSED_DATA" THEN x.entry ELSE NoLine
Entries(q) == [i \in 1 .. Len(q) |-> Item(q[i])]

Depth == 1 .. 10
Path  == [Depth -> Seq(AnyLine)]

Stages == << subSeen \o subAggrQueue,
             IF agSub THEN << >> ELSE Entries(agHand),
             Entries(aggregatorQueue),
             Entries(dmHand),
             Entries(dataManagerQueue),
             Entries(rdHand),
             Entries(readerQueue),
             paHand,
             parserQueue,
             rdLine >>

(* Place i of stage k is nearer to the aggregators than place j of l.       *)
Ahead(k, i, l, j) == k < l \/ (k = l /\ i < j)

InOrder(S) ==
    \A k, l \in Depth : \A i \in 1 .. Len(S[k]), j \in 1 .. Len(S[l]) :
        Ahead(k, i, l, j) /\ S[k][i].file = S[l][j].file /\ S[l][j].file \in Files
            => S[k][i].line < S[l][j].line

Occurs(S, f, n) ==
    \E k \in Depth : \E i \in 1 .. Len(S[k]) : S[k][i].file = f /\ S[k][i].line = n

(* Nothing is in T that is not in S.                                        *)
From(T, S) == \A k \in Depth : \A i \in 1 .. Len(T[k]) :
                 \/ T[k][i] = NoLine
                 \/ \E l \in Depth : \E j \in 1 .. Len(S[l]) : S[l][j] = T[k][i]

Kept(S, T) ==
    /\ InOrder(S) => InOrder(T)
    /\ \A f \in Files : \A n : Occurs(S, f, n) => Occurs(T, f, n)
    /\ From(T, S)
-----------------------------------------------------------------------------
LEMMA EntriesType ==
    ASSUME NEW q \in Seq(Items)
    PROVE  Entries(q) \in Seq(AnyLine) /\ Len(Entries(q)) = Len(q)
<1>1. \A i \in 1 .. Len(q) : Item(q[i]) \in AnyLine
  BY ElementOfSeq, ItemsOfRows DEF Item, AnyLine, Items
<1> QED
  BY <1>1 DEF Entries

LEMMA EntriesEmpty == Entries(<< >>) = << >>
BY DEF Entries

LEMMA EntriesAppend ==
    ASSUME NEW q \in Seq(Items), NEW x \in Items
    PROVE  Entries(Append(q, x)) = Append(Entries(q), Item(x))
<1>1. Append(q, x) \in Seq(Items)
  OBVIOUS
<1>2. Item(x) \in AnyLine
  BY ItemsOfRows DEF Item, AnyLine, Items
<1> QED
  BY <1>1, <1>2, EntriesType DEF Entries

LEMMA EntriesRemove ==
    ASSUME NEW q \in Seq(Items), q # << >>
    PROVE  /\ Entries(q) # << >> /\ Head(Entries(q)) = Item(Head(q))
           /\ Entries(Tail(q)) = Tail(Entries(q))
           /\ Entries(<<Head(q)>>) = <<Item(Head(q))>>
<1>1. Entries(q) \in Seq(AnyLine) /\ Len(Entries(q)) = Len(q) /\ Len(q) \in Nat \ {0}
  BY EntriesType, EmptySeq
<1>2. Tail(q) \in Seq(Items) /\ Entries(Tail(q)) \in Seq(AnyLine)
  BY EntriesType, HeadTailProperties
<1>3. Entries(q) # << >> /\ Head(Entries(q)) = Item(Head(q))
  BY <1>1 DEF Entries
<1>4. Entries(Tail(q)) = Tail(Entries(q))
  BY <1>1, <1>2 DEF Entries
<1>5. Entries(<<Head(q)>>) = <<Item(Head(q))>>
  BY DEF Entries
<1> QED
  BY <1>3, <1>4, <1>5

LEMMA OneItem ==
    \A x : Head(<<x>>) = x /\ Tail(<<x>>) = << >> /\ Entries(<<x>>) = <<Item(x)>>
BY DEF Entries

LEMMA NoLineFile == \A e \in AnyLine : e.file \in Files => e # NoLine /\ e \in LineEntry
BY IngestAssumption DEF AnyLine, NoLine
-----------------------------------------------------------------------------
(* What the steps of the threads do to a path.                              *)

(* The head of a stage goes to the end of the stage before it.              *)
LEMMA Moved ==
    ASSUME NEW S \in Path, NEW T \in Path, NEW k \in Depth, NEW h \in Depth, h = k + 1,
           S[h] # << >>,
           T[k] = Append(S[k], Head(S[h])), T[h] = Tail(S[h]),
           \A l \in Depth \ {k, h} : T[l] = S[l]
    PROVE  Kept(S, T)
<1> DEFINE oldStage(l, i) == IF l = k /\ i = Len(S[k]) + 1 THEN h ELSE l
           oldPlace(l, i) == IF l = k /\ i = Len(S[k]) + 1 THEN 1
                             ELSE IF l = h THEN i + 1 ELSE i
<1>1. \A l \in Depth : S[l] \in Seq(AnyLine) /\ T[l] \in Seq(AnyLine)
  BY DEF Path
<1>2. k \in Int /\ h \in Int /\ k # h
  BY DEF Depth
<1>3. \A l \in Depth : Len(S[l]) \in Nat /\ Len(T[l]) \in Nat
  BY <1>1
<1>4. Head(S[h]) = S[h][1] /\ S[h][1] \in AnyLine /\ Len(S[h]) >= 1
  BY <1>1, EmptySeq
<1>5. /\ Len(T[k]) = Len(S[k]) + 1 /\ T[k][Len(S[k]) + 1] = S[h][1]
      /\ \A i \in 1 .. Len(S[k]) : T[k][i] = S[k][i]
  BY <1>1, <1>4, AppendProperties
<1>6. /\ Len(T[h]) = Len(S[h]) - 1
      /\ \A i \in 1 .. Len(T[h]) : T[h][i] = S[h][i + 1]
  BY <1>1, HeadTailProperties
<1> HIDE DEF oldStage, oldPlace
<1>7. ASSUME NEW l \in Depth, NEW i \in 1 .. Len(T[l])
      PROVE  /\ oldStage(l, i) \in Depth
             /\ oldPlace(l, i) \in 1 .. Len(S[oldStage(l, i)])
             /\ T[l][i] = S[oldStage(l, i)][oldPlace(l, i)]
  <2>1. CASE l = k /\ i = Len(S[k]) + 1
    BY <2>1, <1>2, <1>3, <1>4, <1>5 DEF oldStage, oldPlace
  <2>2. CASE l = k /\ i # Len(S[k]) + 1
    <3>1. i \in 1 .. Len(S[k])
      BY <2>2, <1>3, <1>5
    <3> QED
      BY <3>1, <2>2, <1>2, <1>5 DEF oldStage, oldPlace
  <2>3. CASE l = h
    <3>1. i \in 1 .. Len(T[h]) /\ i + 1 \in 1 .. Len(S[h])
      <4>1. i \in 1 .. Len(T[h])
        BY <2>3
      <4>2. Len(S[h]) \in Nat /\ Len(T[h]) = Len(S[h]) - 1
        BY <1>3, <1>6
      <4> QED
        BY <4>1, <4>2
    <3>2. oldStage(l, i) = h /\ oldPlace(l, i) = i + 1
      BY <2>3, <1>2 DEF oldStage, oldPlace
    <3> QED
      BY <3>1, <3>2, <2>3, <1>6
  <2>4. CASE l # k /\ l # h
    BY <2>4 DEF oldStage, oldPlace
  <2> QED
    BY <2>1, <2>2, <2>3, <2>4
<1>8. ASSUME NEW l \in Depth, NEW m \in Depth,
             NEW i \in 1 .. Len(T[l]), NEW j \in 1 .. Len(T[m]), Ahead(l, i, m, j)
      PROVE  Ahead(oldStage(l, i), oldPlace(l, i), oldStage(m, j), oldPlace(m, j))
  <2>1. l \in Int /\ m \in Int
    BY DEF Depth
  <2>2. i \in Nat /\ i >= 1 /\ j \in Nat /\ j >= 1 /\ (m = k => j <= Len(S[k]) + 1)
        /\ (l = k => i <= Len(S[k]) + 1)
    BY <1>3, <1>5
  <2> QED
    BY <2>1, <2>2, <1>2, <1>3, <1>8 DEF Ahead, oldStage, oldPlace
<1>9. ASSUME InOrder(S), NEW l \in Depth, NEW m \in Depth,
             NEW i \in 1 .. Len(T[l]), NEW j \in 1 .. Len(T[m]), Ahead(l, i, m, j),
             T[l][i].file = T[m][j].file, T[m][j].file \in Files
      PROVE  T[l][i].line < T[m][j].line
  <2>1. Ahead(oldStage(l, i), oldPlace(l, i), oldStage(m, j), oldPlace(m, j))
    BY <1>8, <1>9
  <2>2. /\ oldStage(l, i) \in Depth /\ oldPlace(l, i) \in 1 .. Len(S[oldStage(l, i)])
        /\ oldStage(m, j) \in Depth /\ oldPlace(m, j) \in 1 .. Len(S[oldStage(m, j)])
        /\ T[l][i] = S[oldStage(l, i)][oldPlace(l, i)]
        /\ T[m][j] = S[oldStage(m, j)][oldPlace(m, j)]
    BY <1>7
  <2> QED
    BY <2>1, <2>2, <1>9 DEF InOrder
<1>10. From(T, S)
  BY <1>7 DEF From
<1>11. ASSUME NEW f, NEW n, Occurs(S, f, n) PROVE Occurs(T, f, n)
  <2> PICK l \in Depth : \E i \in 1 .. Len(S[l]) : S[l][i].file = f /\ S[l][i].line = n
    BY <1>11 DEF Occurs
  <2>1. PICK i \in 1 .. Len(S[l]) : S[l][i].file = f /\ S[l][i].line = n
    OBVIOUS
  <2>2. \E m \in Depth : \E j \in 1 .. Len(T[m]) : T[m][j] = S[l][i]
    <3>1. CASE l = h /\ i = 1
      <4>1. Len(S[k]) + 1 \in 1 .. Len(T[k])
        BY <1>3, <1>5
      <4> QED
        BY <3>1, <4>1, <1>5
    <3>2. CASE l = h /\ i # 1
      <4>1. i - 1 \in 1 .. Len(T[h]) /\ (i - 1) + 1 = i
        BY <3>2, <1>3, <1>6
      <4>2. T[h][i - 1] = S[h][i]
        BY <4>1, <1>6
      <4> QED
        BY <3>2, <4>1, <4>2
    <3>3. CASE l = k
      <4>1. i \in 1 .. Len(T[k]) /\ T[k][i] = S[k][i]
        BY <3>3, <1>3, <1>5
      <4> QED
        BY <3>3, <4>1
    <3>4. CASE l # k /\ l # h
      BY <3>4
    <3> QED
      BY <3>1, <3>2, <3>3, <3>4
  <2> QED
    BY <2>1, <2>2 DEF Occurs
<1> QED
  BY <1>9, <1>10, <1>11 DEF InOrder, Kept

(* A file item comes or goes: no line does.                                 *)
LEMMA SameLines ==
    ASSUME NEW S \in Path, NEW T \in Path,
           \A l \in Depth : \A i \in 1 .. Len(T[l]) :
               T[l][i] = NoLine \/ (i \in 1 .. Len(S[l]) /\ S[l][i] = T[l][i]),
           \A l \in Depth : \A i \in 1 .. Len(S[l]) :
               S[l][i] = NoLine \/ (i \in 1 .. Len(T[l]) /\ S[l][i] = T[l][i])
    PROVE  Kept(S, T)
<1>1. NoLine.file \notin Files
  BY IngestAssumption DEF NoLine
<1>2. ASSUME InOrder(S), NEW l \in Depth, NEW m \in Depth,
             NEW i \in 1 .. Len(T[l]), NEW j \in 1 .. Len(T[m]), Ahead(l, i, m, j),
             T[l][i].file = T[m][j].file, T[m][j].file \in Files
      PROVE  T[l][i].line < T[m][j].line
  <2>1. /\ i \in 1 .. Len(S[l]) /\ S[l][i] = T[l][i]
        /\ j \in 1 .. Len(S[m]) /\ S[m][j] = T[m][j]
    BY <1>1, <1>2
  <2> QED
    BY <2>1, <1>2 DEF InOrder
<1>3. \A f \in Files : \A n : Occurs(S, f, n) => Occurs(T, f, n)
  BY <1>1 DEF Occurs
<1>4. From(T, S)
  BY DEF From
<1> QED
  BY <1>2, <1>3, <1>4 DEF InOrder, Kept

LEMMA NoLineCame ==
    ASSUME NEW S \in Path, NEW T \in Path, NEW k \in Depth,
           T[k] = Append(S[k], NoLine), \A l \in Depth \ {k} : T[l] = S[l]
    PROVE  Kept(S, T)
<1>1. S[k] \in Seq(AnyLine) /\ NoLine \in AnyLine /\ Len(S[k]) \in Nat
  BY DEF Path, AnyLine
<1>2. /\ Len(T[k]) = Len(S[k]) + 1 /\ T[k][Len(S[k]) + 1] = NoLine
      /\ \A i \in 1 .. Len(S[k]) : T[k][i] = S[k][i]
  BY <1>1, AppendProperties
<1>3. \A i \in 1 .. Len(T[k]) : i \in 1 .. Len(S[k]) \/ i = Len(S[k]) + 1
  BY <1>1, <1>2
<1>4. \A i \in 1 .. Len(S[k]) : i \in 1 .. Len(T[k])
  BY <1>1, <1>2
<1>5. \A l \in Depth : \A i \in 1 .. Len(T[l]) :
         T[l][i] = NoLine \/ (i \in 1 .. Len(S[l]) /\ S[l][i] = T[l][i])
  BY <1>2, <1>3
<1>6. \A l \in Depth : \A i \in 1 .. Len(S[l]) :
         S[l][i] = NoLine \/ (i \in 1 .. Len(T[l]) /\ S[l][i] = T[l][i])
  BY <1>2, <1>4
<1> QED
  BY <1>5, <1>6, SameLines

LEMMA NoLineLeft ==
    ASSUME NEW S \in Path, NEW T \in Path, NEW k \in Depth,
           S[k] = <<NoLine>>, T[k] = << >>, \A l \in Depth \ {k} : T[l] = S[l]
    PROVE  Kept(S, T)
<1>1. Len(T[k]) = 0 /\ Len(S[k]) = 1 /\ S[k][1] = NoLine
  OBVIOUS
<1>2. \A l \in Depth : \A i \in 1 .. Len(T[l]) :
         T[l][i] = NoLine \/ (i \in 1 .. Len(S[l]) /\ S[l][i] = T[l][i])
  BY <1>1
<1>3. \A l \in Depth : \A i \in 1 .. Len(S[l]) :
         S[l][i] = NoLine \/ (i \in 1 .. Len(T[l]) /\ S[l][i] = T[l][i])
  BY <1>1
<1> QED
  BY <1>2, <1>3, SameLines

(* The next line of its file is read.                                       *)
LEMMA LineCame ==
    ASSUME NEW S \in Path, NEW T \in Path, NEW e \in LineEntry,
           S[10] = << >>, T[10] = <<e>>, \A l \in Depth \ {10} : T[l] = S[l],
           \A l \in Depth : \A i \in 1 .. Len(S[l]) :
               S[l][i].file = e.file => S[l][i].line < e.line
    PROVE  /\ InOrder(S) => InOrder(T)
           /\ \A f, n : Occurs(S, f, n) => Occurs(T, f, n)
           /\ Occurs(T, e.file, e.line)
           /\ \A l \in Depth : \A i \in 1 .. Len(T[l]) :
                 T[l][i] = e \/ \E m \in Depth : \E j \in 1 .. Len(S[m]) : S[m][j] = T[l][i]
<1>1. 10 \in Depth /\ Len(S[10]) = 0 /\ Len(T[10]) = 1 /\ T[10][1] = e
  BY DEF Depth
<1>2. ASSUME InOrder(S), NEW l \in Depth, NEW m \in Depth,
             NEW i \in 1 .. Len(T[l]), NEW j \in 1 .. Len(T[m]), Ahead(l, i, m, j),
             T[l][i].file = T[m][j].file, T[m][j].file \in Files
      PROVE  T[l][i].line < T[m][j].line
  <2>1. l # 10
    BY <1>1, <1>2 DEF Ahead, Depth
  <2>2. T[l] = S[l]
    BY <2>1
  <2>3. CASE m = 10
    BY <1>1, <1>2, <2>2, <2>3
  <2>4. CASE m # 10
    BY <2>2, <2>4, <1>2 DEF InOrder
  <2> QED
    BY <2>3, <2>4
<1>3. ASSUME NEW f, NEW n, Occurs(S, f, n) PROVE Occurs(T, f, n)
  BY <1>1, <1>3 DEF Occurs
<1>4. Occurs(T, e.file, e.line)
  <2>1. 1 \in 1 .. Len(T[10])
    BY <1>1
  <2> QED
    BY <1>1, <2>1 DEF Occurs
<1>5. \A l \in Depth : \A i \in 1 .. Len(T[l]) :
         T[l][i] = e \/ \E m \in Depth : \E j \in 1 .. Len(S[m]) : S[m][j] = T[l][i]
  BY <1>1
<1> QED
  BY <1>2, <1>3, <1>4, <1>5 DEF InOrder
-----------------------------------------------------------------------------
(* The ten stages of a state.                                               *)

SubNeedsHand == agSub => agHand # << >>

LEMMA StagesArePath ==
    TypeOK =>
        /\ Stages \in Path
        /\ dmHand \in Seq(Items) /\ dataManagerQueue \in Seq(Items) /\ rdHand \in Seq(Items)
        /\ readerQueue \in Seq(Items) /\ agHand \in Seq(Items)
        /\ aggregatorQueue \in Seq(Items) /\ dwHand \in Seq(Items)
<1> SUFFICES ASSUME TypeOK
             PROVE  /\ Stages \in Path
                    /\ \A q \in {dmHand, dataManagerQueue, rdHand, readerQueue, agHand,
                                 aggregatorQueue, dwHand} : q \in Seq(Items)
  OBVIOUS
<1>1. \A q \in {dmHand, dataManagerQueue, rdHand, readerQueue, agHand, aggregatorQueue, dwHand} :
         q \in Seq(Items)
  <2>1. \A q \in Seq(Record) \cup Seq(RowItem) : q \in Seq(Items)
    BY SeqMonotonic DEF Items
  <2> QED
    BY <2>1 DEF TypeOK, PipeTypes, Queue, Hand, Items
<1>2. \A q \in Seq(LineEntry) : q \in Seq(AnyLine)
  BY SeqMonotonic DEF AnyLine
<1>3. subSeen \o subAggrQueue \in Seq(AnyLine)
  <2>1. subSeen \in Seq(AnyLine) /\ subAggrQueue \in Seq(AnyLine)
    BY <1>2 DEF TypeOK, PipeTypes, Queue
  <2> QED
    BY <2>1, ConcatProperties
<1>4. paHand \in Seq(AnyLine) /\ parserQueue \in Seq(AnyLine) /\ rdLine \in Seq(AnyLine)
  BY <1>2 DEF TypeOK, PipeTypes, Queue, Hand
<1>5. \A q \in {dmHand, dataManagerQueue, rdHand, readerQueue, agHand, aggregatorQueue} :
         Entries(q) \in Seq(AnyLine)
  BY <1>1, EntriesType
<1>6. << >> \in Seq(AnyLine)
  OBVIOUS
<1>7. Stages \in Path
  <2>1. Stages \in Seq(Seq(AnyLine))
    BY <1>3, <1>4, <1>5, <1>6 DEF Stages
  <2>2. Len(Stages) = 10
    BY DEF Stages
  <2> QED
    BY <2>1, <2>2, LenProperties DEF Path, Depth
<1> QED
  BY <1>1, <1>7

LEMMA StageValues ==
    /\ Stages[1] = subSeen \o subAggrQueue
    /\ Stages[2] = IF agSub THEN << >> ELSE Entries(agHand)
    /\ Stages[3] = Entries(aggregatorQueue) /\ Stages[4] = Entries(dmHand)
    /\ Stages[5] = Entries(dataManagerQueue) /\ Stages[6] = Entries(rdHand)
    /\ Stages[7] = Entries(readerQueue)
    /\ Stages[8] = paHand /\ Stages[9] = parserQueue /\ Stages[10] = rdLine
BY DEF Stages

LEMMA StageValuesNext ==
    /\ Stages'[1] = subSeen' \o subAggrQueue'
    /\ Stages'[2] = IF agSub' THEN << >> ELSE Entries(agHand')
    /\ Stages'[3] = Entries(aggregatorQueue') /\ Stages'[4] = Entries(dmHand')
    /\ Stages'[5] = Entries(dataManagerQueue') /\ Stages'[6] = Entries(rdHand')
    /\ Stages'[7] = Entries(readerQueue')
    /\ Stages'[8] = paHand' /\ Stages'[9] = parserQueue' /\ Stages'[10] = rdLine'
BY DEF Stages

LEMMA DepthCases ==
    \A l \in Depth : \/ l = 1 \/ l = 2 \/ l = 3 \/ l = 4 \/ l = 5
                     \/ l = 6 \/ l = 7 \/ l = 8 \/ l = 9 \/ l = 10
BY DEF Depth

LEMMA StagesSame ==
    UNCHANGED <<subSeen, subAggrQueue, agSub, agHand, aggregatorQueue, dmHand,
                dataManagerQueue, rdHand, readerQueue, paHand, parserQueue, rdLine>>
        => Stages' = Stages
BY DEF Stages


LEMMA Takes ==
    ASSUME NEW q \in Seq(Items), q # << >>
    PROVE  /\ Entries(q) # << >>
           /\ Entries(<<Head(q)>>) = Append(Entries(<< >>), Head(Entries(q)))
           /\ Entries(Tail(q)) = Tail(Entries(q))
<1>1. \A x : <<x>> = Append(<< >>, x)
  OBVIOUS
<1> QED
  BY <1>1, EntriesRemove, EntriesEmpty

LEMMA Gives ==
    ASSUME NEW q \in Seq(Items), NEW h \in Seq(Items), Len(h) <= 1, h # << >>
    PROVE  /\ Entries(h) # << >>
           /\ Entries(q \o h) = Append(Entries(q), Head(Entries(h)))
           /\ Entries(<< >>) = Tail(Entries(h))
<1>1. h = <<h[1]>> /\ h[1] \in Items /\ Head(h) = h[1] /\ Tail(h) = << >>
  <2>1. Len(h) = 1 /\ h[1] \in Items
    <3>1. Len(h) \in Nat \ {0}
      BY EmptySeq
    <3>2. Len(h) = 1
      BY <3>1
    <3> QED
      BY <3>2, ElementOfSeq
  <2>2. h = <<h[1]>>
    BY <2>1
  <2>3. Head(h) = h[1]
    BY <2>1
  <2>4. Len(Tail(h)) = 0 /\ Tail(h) \in Seq(Items)
    BY <2>1, HeadTailProperties
  <2> QED
    BY <2>1, <2>2, <2>3, <2>4, EmptySeq
<1>2. q \o h = Append(q, h[1])
  BY <1>1
<1> QED
  BY <1>1, <1>2, EntriesAppend, EntriesRemove

LEMMA GivesFile ==
    ASSUME NEW h \in Seq(Items), Len(h) <= 1, Holds(h, "ROW_DATA")
    PROVE  Entries(h) = <<NoLine>> /\ h[1] \in Items /\ h = <<h[1]>>
BY DEF Holds, Entries, Item

LEMMA KeptSame == \A S : Kept(S, S)
BY DEF Kept, From

LEMMA FromFrom ==
    ASSUME NEW S, NEW M, NEW T, From(M, S), From(T, M)
    PROVE  From(T, S)
<1> SUFFICES ASSUME NEW k \in Depth, NEW i \in 1 .. Len(T[k]), T[k][i] # NoLine
             PROVE  \E l \in Depth : \E j \in 1 .. Len(S[l]) : S[l][j] = T[k][i]
  BY DEF From
<1>1. PICK m \in Depth : \E j \in 1 .. Len(M[m]) : M[m][j] = T[k][i]
  BY DEF From
<1>2. PICK j \in 1 .. Len(M[m]) : M[m][j] = T[k][i]
  BY <1>1
<1> QED
  BY <1>2 DEF From

LEMMA PathNext == TypeOK' => Stages' \in Path
<1>1. TypeOK => Stages \in Path
  BY StagesArePath
<1>2. TypeOK' => (Stages \in Path)'
  BY <1>1, PTL
<1> QED
  BY <1>2

LEMMA PathDataManager ==
    ASSUME TypeOK, TypeOK', DataWatcherFunction \/ DataManagerFunction
    PROVE  Kept(Stages, Stages')
<1>1. /\ dmHand \in Seq(Items) /\ dataManagerQueue \in Seq(Items) /\ readerQueue \in Seq(Items)
      /\ aggregatorQueue \in Seq(Items) /\ dwHand \in Seq(Items)
      /\ Len(dmHand) <= 1 /\ Len(dwHand) <= 1
      /\ Stages \in Path /\ Stages' \in Path
  BY StagesArePath, PathNext DEF TypeOK, PipeTypes, Hand
<1>2. CASE DataWatcherRemove
  <2>1. Stages' = Stages
    BY <1>2 DEF DataWatcherRemove, Stages, readerVars, parserVars, aggVars, seenVars
  <2> QED
    BY <1>1, <2>1, KeptSame
<1>3. CASE DataWatcherInsert
  <2>1. Entries(dataManagerQueue \o dwHand) = Append(Entries(dataManagerQueue), NoLine)
    <3>1. dwHand # << >> /\ dwHand[1] \in RowItem
      BY <1>3, InHand DEF DataWatcherInsert, Insert, TypeOK, PipeTypes
    <3>2. Holds(dwHand, "ROW_DATA")
      BY <3>1, ItemsOfRows DEF Holds
    <3> QED
      BY <3>1, <3>2, <1>1, Gives, GivesFile
  <2>2. Stages'[5] = Append(Stages[5], NoLine)
    BY <1>3, <2>1 DEF DataWatcherInsert, Insert, Stages
  <2>3. \A l \in Depth \ {5} : Stages'[l] = Stages[l]
    BY <1>3, StageValues, StageValuesNext, DepthCases
    DEF DataWatcherInsert, aggVars, seenVars, readerVars, parserVars
  <2>4. 5 \in Depth
    BY DEF Depth
  <2> QED
    BY <1>1, <2>2, <2>3, <2>4, NoLineCame
<1>4. CASE DataManagerRemove
  <2>1. Stages[5] # << >> /\ Stages'[4] = Append(Stages[4], Head(Stages[5]))
        /\ Stages'[5] = Tail(Stages[5])
    BY <1>1, <1>4, Takes DEF DataManagerRemove, Remove, Stages
  <2>2. \A l \in Depth \ {4, 5} : Stages'[l] = Stages[l]
    BY <1>4, StageValues, StageValuesNext, DepthCases
    DEF DataManagerRemove, aggVars, seenVars, readerVars, parserVars
  <2>3. 4 \in Depth /\ 5 \in Depth /\ 5 = 4 + 1
    BY DEF Depth
  <2> QED
    BY <1>1, <2>1, <2>2, <2>3, Moved
<1>5. CASE DataManagerToReader
  <2> DEFINE M == [Stages EXCEPT ![4] = << >>]
  <2>1. 4 \in Depth /\ 7 \in Depth
    BY DEF Depth
  <2>2. M \in Path /\ M[4] = << >> /\ \A l \in Depth \ {4} : M[l] = Stages[l]
    BY <1>1, <2>1 DEF Path
  <2>3. Stages[4] = <<NoLine>> /\ Stages'[4] = << >>
    BY <1>1, <1>5, GivesFile, EntriesEmpty DEF DataManagerToReader, Insert, Stages
  <2>4. Stages'[7] = Append(Stages[7], NoLine)
    <3>1. /\ dmHand # << >> /\ Holds(dmHand, "ROW_DATA")
          /\ readerQueue' = readerQueue \o dmHand
      BY <1>5 DEF DataManagerToReader, Insert
    <3>2. Entries(readerQueue \o dmHand) = Append(Entries(readerQueue), Head(Entries(dmHand)))
      BY <1>1, <3>1, Gives
    <3>3. Head(Entries(dmHand)) = NoLine
      BY <1>1, <3>1, GivesFile
    <3> QED
      BY <3>1, <3>2, <3>3, StageValues, StageValuesNext
  <2>5. \A l \in Depth \ {4, 7} : Stages'[l] = Stages[l]
    BY <1>5, StageValues, StageValuesNext, DepthCases
    DEF DataManagerToReader, aggVars, seenVars, readerVars, parserVars
  <2>6. Kept(Stages, M)
    BY <1>1, <2>1, <2>2, <2>3, NoLineLeft
  <2>7. M[7] = Stages[7] /\ Stages'[7] = Append(M[7], NoLine)
    BY <2>1, <2>2, <2>4
  <2>8. \A l \in Depth \ {7} : Stages'[l] = M[l]
    BY <2>1, <2>2, <2>3, <2>5
  <2> HIDE DEF M
  <2>9. Kept(M, Stages')
    BY <1>1, <2>1, <2>2, <2>7, <2>8, NoLineCame
  <2> QED
    BY <2>6, <2>9, FromFrom DEF Kept
<1>6. CASE DataManagerToAggregator
  <2>1. Stages[4] # << >> /\ Stages'[3] = Append(Stages[3], Head(Stages[4]))
        /\ Stages'[4] = Tail(Stages[4])
    BY <1>1, <1>6, Gives DEF DataManagerToAggregator, Insert, Stages
  <2>2. \A l \in Depth \ {3, 4} : Stages'[l] = Stages[l]
    BY <1>6, StageValues, StageValuesNext, DepthCases
    DEF DataManagerToAggregator, aggVars, seenVars, readerVars, parserVars
  <2>3. 3 \in Depth /\ 4 \in Depth /\ 4 = 3 + 1
    BY DEF Depth
  <2> QED
    BY <1>1, <2>1, <2>2, <2>3, Moved
<1> QED
  BY <1>2, <1>3, <1>4, <1>5, <1>6 DEF DataWatcherFunction, DataManagerFunction

LEMMA PathReader ==
    ASSUME TypeOK, TypeOK', ReaderFunction, ~Fgets
    PROVE  Kept(Stages, Stages')
<1>1. /\ rdHand \in Seq(Items) /\ dataManagerQueue \in Seq(Items) /\ readerQueue \in Seq(Items)
      /\ Len(rdHand) <= 1 /\ Stages \in Path /\ Stages' \in Path
  BY StagesArePath, PathNext DEF TypeOK, PipeTypes, Hand
<1>2. CASE ReaderRemove
  <2>1. Stages[7] # << >> /\ Stages'[6] = Append(Stages[6], Head(Stages[7]))
        /\ Stages'[7] = Tail(Stages[7])
    BY <1>1, <1>2, Takes DEF ReaderRemove, Remove, Stages
  <2>2. \A l \in Depth \ {6, 7} : Stages'[l] = Stages[l]
    BY <1>2, StageValues, StageValuesNext, DepthCases
    DEF ReaderRemove, parserVars, aggVars, seenVars
  <2>3. 6 \in Depth /\ 7 \in Depth /\ 7 = 6 + 1
    BY DEF Depth
  <2> QED
    BY <1>1, <2>1, <2>2, <2>3, Moved
<1>3. CASE FgetsNull
  <2>1. Stages' = Stages
    BY <1>3 DEF FgetsNull, notReader, Stages, readerVars, parserVars, aggVars, seenVars
  <2> QED
    BY <2>1, KeptSame
<1>4. CASE FgetsEOF
  <2>1. 6 \in Depth
    BY DEF Depth
  <2>2. Stages[6] = <<NoLine>> /\ Stages'[6] = << >>
    BY <1>1, <1>4, GivesFile, EntriesEmpty DEF FgetsEOF, ReadingFile, Stages
  <2>3. \A l \in Depth \ {6} : Stages'[l] = Stages[l]
    BY <1>4, StageValues, StageValuesNext, DepthCases
    DEF FgetsEOF, notReader, parserVars, aggVars, seenVars
  <2> QED
    BY <1>1, <2>1, <2>2, <2>3, NoLineLeft
<1>5. CASE ReaderToParser
  <2>1. /\ rdLine # << >> /\ rdLine \in Hand(LineEntry) /\ parserQueue \in Queue(LineEntry)
        /\ HasRoom(parserQueue) /\ parserQueue' = parserQueue \o rdLine /\ rdLine' = << >>
    BY <1>5 DEF ReaderToParser, Insert, TypeOK, PipeTypes
  <2>2. rdLine = <<rdLine[1]>> /\ rdLine[1] \in LineEntry
    BY <2>1, InHand
  <2>3. parserQueue' = Append(parserQueue, rdLine[1])
    BY <2>1, <2>2, Inserted
  <2>4. Head(rdLine) = rdLine[1] /\ Tail(rdLine) = << >>
    BY <2>2, OneItem, Zenon
  <2>5. Stages[10] # << >> /\ Stages'[9] = Append(Stages[9], Head(Stages[10]))
        /\ Stages'[10] = Tail(Stages[10])
    BY <2>1, <2>3, <2>4, StageValues, StageValuesNext
  <2>6. \A l \in Depth \ {9, 10} : Stages'[l] = Stages[l]
    BY <1>5, StageValues, StageValuesNext, DepthCases
    DEF ReaderToParser, notReader, parserVars, aggVars, seenVars
  <2>7. 9 \in Depth /\ 10 \in Depth /\ 10 = 9 + 1
    BY DEF Depth
  <2> QED
    BY <1>1, <2>5, <2>6, <2>7, Moved
<1>6. CASE ReaderToDataManager
  <2>1. Stages[6] # << >> /\ Stages'[5] = Append(Stages[5], Head(Stages[6]))
        /\ Stages'[6] = Tail(Stages[6])
    BY <1>1, <1>6, Gives DEF ReaderToDataManager, Insert, Stages
  <2>2. \A l \in Depth \ {5, 6} : Stages'[l] = Stages[l]
    BY <1>6, StageValues, StageValuesNext, DepthCases
    DEF ReaderToDataManager, parserVars, aggVars, seenVars
  <2>3. 5 \in Depth /\ 6 \in Depth /\ 6 = 5 + 1
    BY DEF Depth
  <2> QED
    BY <1>1, <2>1, <2>2, <2>3, Moved
<1> QED
  BY <1>2, <1>3, <1>4, <1>5, <1>6 DEF ReaderFunction

LEMMA PathParser ==
    ASSUME TypeOK, TypeOK', ParserFunction
    PROVE  Kept(Stages, Stages')
<1>1. Stages \in Path /\ Stages' \in Path /\ readerQueue \in Seq(Items)
  BY StagesArePath, PathNext
<1>2. CASE ParserRemove
  <2>1. /\ parserQueue # << >> /\ paHand = << >> /\ parserQueue \in Seq(LineEntry)
        /\ paHand' = <<Head(parserQueue)>> /\ parserQueue' = Tail(parserQueue)
    BY <1>2 DEF ParserRemove, Remove, TypeOK, PipeTypes, Queue
  <2>2. <<Head(parserQueue)>> = Append(<< >>, Head(parserQueue))
    OBVIOUS
  <2>3. Stages[9] # << >> /\ Stages'[8] = Append(Stages[8], Head(Stages[9]))
        /\ Stages'[9] = Tail(Stages[9])
    BY <2>1, <2>2, StageValues, StageValuesNext
  <2>4. \A l \in Depth \ {8, 9} : Stages'[l] = Stages[l]
    BY <1>2, StageValues, StageValuesNext, DepthCases
    DEF ParserRemove, readerVars, parserVars, aggVars, seenVars
  <2>5. 8 \in Depth /\ 9 \in Depth /\ 9 = 8 + 1
    BY DEF Depth
  <2> QED
    BY <1>1, <2>3, <2>4, <2>5, Moved
<1>3. CASE ParserInsert
  <2>1. paHand # << >> /\ paHand[1] \in LineEntry /\ paHand = <<paHand[1]>>
    BY <1>3, InHand DEF ParserInsert, TypeOK, PipeTypes
  <2>2. Processed(paHand[1]) \in Items /\ Item(Processed(paHand[1])) = paHand[1]
    BY <2>1, ItemsOfRows DEF Items, Item, Processed
  <2>3. Entries(readerQueue') = Append(Entries(readerQueue), paHand[1])
    BY <1>1, <1>3, <2>2, EntriesAppend DEF ParserInsert
  <2>4. Head(paHand) = paHand[1] /\ Tail(paHand) = << >>
    BY <2>1, OneItem, Zenon
  <2>5. Stages[8] # << >> /\ Stages'[7] = Append(Stages[7], Head(Stages[8]))
        /\ Stages'[8] = Tail(Stages[8])
    BY <1>3, <2>1, <2>3, <2>4, StageValues, StageValuesNext DEF ParserInsert
  <2>6. \A l \in Depth \ {7, 8} : Stages'[l] = Stages[l]
    BY <1>3, StageValues, StageValuesNext, DepthCases
    DEF ParserInsert, readerVars, parserVars, aggVars, seenVars
  <2>7. 7 \in Depth /\ 8 \in Depth /\ 8 = 7 + 1
    BY DEF Depth
  <2> QED
    BY <1>1, <2>5, <2>6, <2>7, Moved
<1> QED
  BY <1>2, <1>3 DEF ParserFunction

LEMMA PathAggregator ==
    ASSUME TypeOK, TypeOK', SubNeedsHand,
           AggregatorFunction \/ SubAggregatorFunction \/ OpAggregatorFunction
    PROVE  Kept(Stages, Stages')
<1>1. /\ Stages \in Path /\ Stages' \in Path /\ aggregatorQueue \in Seq(Items)
      /\ subSeen \in Seq(LineEntry) /\ subAggrQueue \in Seq(LineEntry)
  BY StagesArePath, PathNext DEF TypeOK, PipeTypes, Queue
<1>2. CASE AggregatorRemove
  <2>1. ~agSub /\ ~agSub'
    BY <1>2 DEF AggregatorRemove, Remove, SubNeedsHand
  <2>2. Stages[3] # << >> /\ Stages'[2] = Append(Stages[2], Head(Stages[3]))
        /\ Stages'[3] = Tail(Stages[3])
    BY <1>1, <1>2, <2>1, Takes DEF AggregatorRemove, Remove, Stages
  <2>3. \A l \in Depth \ {2, 3} : Stages'[l] = Stages[l]
    BY <1>2, StageValues, StageValuesNext, DepthCases
    DEF AggregatorRemove, notAggregator, readerVars, parserVars, seenVars
  <2>4. 2 \in Depth /\ 3 \in Depth /\ 3 = 2 + 1
    BY DEF Depth
  <2> QED
    BY <1>1, <2>2, <2>3, <2>4, Moved
<1>3. CASE AggregatorToSub
  <2>1. agHand \in Hand(Record) /\ agHand # << >> /\ ~agSub /\ agSub' = TRUE
    BY <1>3 DEF AggregatorToSub, TypeOK, PipeTypes
  <2>2. agHand = <<agHand[1]>> /\ agHand[1] \in Record
    BY <2>1, InHand
  <2>3. agHand[1].entry \in LineEntry /\ Item(agHand[1]) = agHand[1].entry
    BY <2>2, ItemsOfRows DEF Item
  <2>4. Entries(agHand) = <<agHand[1].entry>>
    BY <2>2, <2>3, OneItem, Zenon
  <2>5. subSeen \o Append(subAggrQueue, agHand[1].entry)
            = Append(subSeen \o subAggrQueue, agHand[1].entry)
    BY <1>1, <2>3
  <2>6. /\ Stages[2] # << >> /\ Head(Stages[2]) = agHand[1].entry
        /\ Tail(Stages[2]) = << >> /\ Stages'[2] = << >>
    BY <2>1, <2>4, StageValues, StageValuesNext
  <2>7. Stages'[1] = Append(Stages[1], Head(Stages[2])) /\ Stages'[2] = Tail(Stages[2])
    BY <1>3, <2>5, <2>6, StageValues, StageValuesNext DEF AggregatorToSub, seenVars
  <2>8. \A l \in Depth \ {1, 2} : Stages'[l] = Stages[l]
    BY <1>3, StageValues, StageValuesNext, DepthCases
    DEF AggregatorToSub, notAggregator, readerVars, parserVars
  <2>9. 1 \in Depth /\ 2 \in Depth /\ 2 = 1 + 1
    BY DEF Depth
  <2> QED
    BY <1>1, <2>6, <2>7, <2>8, <2>9, Moved
<1>4. CASE AggregatorToOp
  <2>1. Stages' = Stages
    BY <1>4, EntriesEmpty
    DEF AggregatorToOp, notAggregator, Stages, readerVars, parserVars, seenVars
  <2> QED
    BY <2>1, KeptSame
<1>5. CASE SubAggregatorFunction
  <2>1. /\ subAggrQueue # << >>
        /\ Append(subSeen, Head(subAggrQueue)) \o Tail(subAggrQueue) = subSeen \o subAggrQueue
    BY <1>1, <1>5 DEF SubAggregatorFunction
  <2>2. Stages' = Stages
    BY <1>5, <2>1
    DEF SubAggregatorFunction, notAggregator, Stages, readerVars, parserVars, aggVars
  <2> QED
    BY <2>2, KeptSame
<1>6. CASE OpAggregatorFunction
  <2>1. Stages' = Stages
    BY <1>6 DEF OpAggregatorFunction, notAggregator, Stages, readerVars, parserVars, aggVars
  <2> QED
    BY <2>1, KeptSame
<1> QED
  BY <1>2, <1>3, <1>4, <1>5, <1>6 DEF AggregatorFunction
-----------------------------------------------------------------------------
(* What the reader has read of a file, and what there is of it.             *)

(* A file that is not there is empty; one that is renamed into ./Input is   *)
(* there with all its lines, so that an even number of halves is read.      *)
WholeFiles ==
    /\ \A f \in Files \ present : written[f] = 0
    /\ \A f \in MovedIn : /\ written[f] % 2 = 0 /\ pos[f] % 2 = 0
                          /\ f \in present => written[f] = HalfLines(f)

(* A line that is on its way was read; a line cut off is the last one read. *)
Read(e) ==
    /\ e.file \in present
    /\ e.ending = "eof" => pos[e.file] = 2 * e.line - 1 /\ e.file \notin MovedIn
    /\ e.ending # "eof" => 2 * e.line <= pos[e.file]
    /\ e.ending = "buffer" => <<e.file, e.line>> \in LongLines

AllRead == \A k \in Depth : \A i \in 1 .. Len(Stages[k]) :
               Stages[k][i] = NoLine \/ Read(Stages[k][i])

NothingLost == \A f \in Files : \A n \in Nat \ {0} :
                   2 * n - 1 <= pos[f] => Occurs(Stages, f, n)

LEMMA Halves ==
    /\ \A n \in Nat : (2 * n) % 2 = 0
    /\ \A n \in Nat \ {0} : (2 * n - 1) % 2 = 1
    /\ \A n \in Nat : n % 2 = 0 => 2 * (n \div 2) = n /\ n \div 2 \in Nat
    /\ \A n \in Nat : (n + 2) % 2 = n % 2 /\ ((n + 1) % 2 = 0 <=> n % 2 = 1)
OBVIOUS

LEMMA FilesGrow ==
    ASSUME TypeOK, [Next]_vars
    PROVE  present \subseteq present' /\ (Fgets \/ UNCHANGED pos)
<1>1. CASE Pipeline
  <2>1. UNCHANGED present
    BY <1>1, PipelineFrame DEF inputVars
  <2>2. Fgets \/ UNCHANGED pos
    BY <1>1, PipelineSteps
    DEF DataWatcherRemove, DataWatcherInsert, DataManagerRemove, DataManagerToReader,
        DataManagerToAggregator, ReaderRemove, FgetsNull, FgetsEOF, ReaderToParser,
        ReaderToDataManager, ParserRemove, ParserInsert,
        AggregatorRemove, AggregatorToSub, AggregatorToOp, SubAggregatorFunction,
        OpAggregatorFunction, notAggregator, readerVars, parserVars, pipeVars
  <2> QED
    BY <2>1, <2>2
<1>2. CASE OpenFile
  BY <1>2 DEF OpenFile, inputVars, readerVars, parserVars
<1>3. CASE Environment
  BY <1>3, InputFrame
  DEF Environment, CreateFile, MoveFile, WriteFile, FileWatcherPause, FileWatcherWakeUp,
      OpenReport, OpenReportFails, inputVars, pipeVars, readerVars
<1>4. CASE StartWatch \/ TestPause \/ ReadEvents \/ CloseReport \/ MemoryFault \/ UNCHANGED vars
  BY <1>4, InputFrame
  DEF StartWatch, TestPause, ReadEvents, CloseReport, MemoryFault, vars, inputVars, pipeVars,
      readerVars
<1> QED
  BY <1>1, <1>2, <1>3, <1>4, NextSteps

(* Facts about the line that fgets returns.                                 *)
LEMMA FgetsReads ==
    ASSUME TypeOK, WholeFiles, Fgets,
           NEW f, f = rdHand[1].file, NEW e, e = rdLine'[1]
    PROVE  /\ f \in Files \cap present /\ e \in LineEntry /\ e.file = f /\ rdLine' = <<e>>
           /\ rdLine = << >> /\ pos[f] \in Nat /\ pos[f] % 2 = 0 /\ 2 * e.line = pos[f] + 2
           /\ \/ pos' = [pos EXCEPT ![f] = pos[f] + 1] /\ e.ending = "eof" /\ f \notin MovedIn
              \/ pos' = [pos EXCEPT ![f] = pos[f] + 2] /\ e.ending # "eof"
           /\ e.ending = "buffer" => <<f, e.line>> \in LongLines
<1> DEFINE available == written[f] - pos[f]
           n == (pos[f] \div 2) + 1
           ending == Ending(f, n, available)
<1>1. f \in Files
  BY InHand, ItemsOfRows DEF Fgets, ReadingFile, Holds, TypeOK, PipeTypes
<1>2. /\ pos[f] \in Nat /\ written[f] \in Nat
      /\ pos[f] % 2 = 0 /\ available > 0 /\ rdLine = << >>
      /\ pos' = [pos EXCEPT ![f] = pos[f] + HalvesRead(available)]
      /\ rdLine' = <<Line(f, n, ending)>>
  BY <1>1 DEF Fgets, ReadingFile, TypeOK, InputTypes
<1>3. e = Line(f, n, ending)
  BY <1>2
<1>4. f \in present
  BY <1>1, <1>2 DEF WholeFiles
<1>5. e \in LineEntry /\ e.file = f /\ 2 * e.line = pos[f] + 2 /\ e.ending = ending
  <2>1. /\ e.file = f /\ e.line = n /\ e.ending = ending
        /\ e = [file |-> e.file, line |-> e.line, ending |-> e.ending]
    BY <1>3 DEF Line
  <2>2. 2 * (pos[f] \div 2) = pos[f] /\ pos[f] \div 2 \in Nat
    BY <1>2, Halves
  <2>3. 2 * e.line = pos[f] + 2 /\ e.line \in Nat \ {0}
    BY <1>2, <2>1, <2>2
  <2>4. ending \in {"newline", "buffer", "eof"}
    BY DEF Ending
  <2>5. e \in LineEntry
    BY <1>1, <2>1, <2>3, <2>4 DEF LineEntry
  <2> QED
    BY <2>1, <2>3, <2>4, <2>5
<1>6. /\ ending = "eof" <=> available = 1
      /\ ending = "buffer" => <<f, e.line>> \in LongLines
  <2>1. e.line = n
    BY <1>3 DEF Line
  <2> QED
    BY <2>1 DEF Ending
<1>7. CASE available = 1
  <2>1. f \notin MovedIn
    BY <1>2, <1>7 DEF WholeFiles
  <2>2. e.ending = "eof" /\ HalvesRead(available) = 1
    BY <1>5, <1>6, <1>7 DEF HalvesRead
  <2> QED
    BY <2>1, <2>2, <1>1, <1>2, <1>3, <1>4, <1>5, <1>6
<1>8. CASE available # 1
  <2>1. e.ending # "eof" /\ HalvesRead(available) = 2
    <3>1. available >= 2
      BY <1>2, <1>8
    <3> QED
      BY <3>1, <1>5, <1>6, <1>8 DEF HalvesRead
  <2> QED
    BY <2>1, <1>1, <1>2, <1>3, <1>4, <1>5, <1>6
<1> QED
  BY <1>7, <1>8

LEMMA WholeFilesStep ==
    ASSUME TypeOK, WholeFiles, [Next]_vars
    PROVE  WholeFiles'
<1> USE DEF HalfLines
<1>1. \A f \in Files : written[f] \in Nat /\ pos[f] \in Nat /\ LinesPerFile[f] \in Nat
  BY IngestAssumption DEF TypeOK, InputTypes
<1>2. MovedIn \subseteq Files
  BY IngestAssumption
<1>3. CASE Fgets
  <2> DEFINE f == rdHand[1].file
  <2>1. UNCHANGED <<present, written>>
    BY <1>3 DEF Fgets, notReader, inputVars
  <2>2. f \in Files /\ pos[f] \in Nat /\ pos[f] % 2 = 0
        /\ (f \in MovedIn => pos' = [pos EXCEPT ![f] = pos[f] + 2])
        /\ \E d \in {1, 2} : pos' = [pos EXCEPT ![f] = pos[f] + d]
    BY <1>3, FgetsReads
  <2>3. pos \in [Files -> Nat]
    BY DEF TypeOK, InputTypes
  <2>4. \A g \in MovedIn : pos'[g] % 2 = 0
    <3>1. \A g \in MovedIn : g # f => pos'[g] = pos[g]
      BY <2>2, <2>3, <1>2
    <3>2. f \in MovedIn => pos'[f] = pos[f] + 2
      BY <2>2, <2>3
    <3> QED
      BY <3>1, <3>2, <2>2, Halves DEF WholeFiles
  <2> QED
    BY <2>1, <2>4 DEF WholeFiles
<1>4. CASE UNCHANGED <<present, written, pos>>
  BY <1>4 DEF WholeFiles
<1>5. ASSUME NEW f \in Files, CreateFile(f) PROVE WholeFiles'
  <2>1. f \notin MovedIn /\ present' = present \cup {f} /\ UNCHANGED <<written, pos>>
    BY <1>5 DEF CreateFile, pipeVars, readerVars, parserVars
  <2> QED
    BY <2>1, <1>2 DEF WholeFiles
<1>6. ASSUME NEW f \in Files, MoveFile(f) PROVE WholeFiles'
  <2>1. /\ f \in MovedIn /\ present' = present \cup {f} /\ UNCHANGED pos
        /\ written' = [written EXCEPT ![f] = HalfLines(f)]
    BY <1>6 DEF MoveFile, pipeVars, readerVars, parserVars
  <2>2. HalfLines(f) % 2 = 0
    BY <1>1, Halves
  <2>3. written \in [Files -> Nat]
    BY DEF TypeOK, InputTypes
  <2> QED
    BY <2>1, <2>2, <2>3, <1>2 DEF WholeFiles
<1>7. ASSUME NEW f \in Files, WriteFile(f) PROVE WholeFiles'
  <2>1. /\ f \in present /\ written[f] < HalfLines(f) /\ UNCHANGED <<present, pos>>
        /\ written' = [written EXCEPT ![f] = written[f] + 1]
    BY <1>7 DEF WriteFile, pipeVars, readerVars, parserVars
  <2>2. f \notin MovedIn
    BY <2>1, <1>1 DEF WholeFiles
  <2>3. written \in [Files -> Nat]
    BY DEF TypeOK, InputTypes
  <2> QED
    BY <2>1, <2>2, <2>3, <1>2 DEF WholeFiles
<1>8. Fgets \/ UNCHANGED <<present, written, pos>>
      \/ \E f \in Files : CreateFile(f) \/ MoveFile(f) \/ WriteFile(f)
  <2>1. Fgets \/ UNCHANGED pos
    BY FilesGrow
  <2>2. CASE Pipeline
    BY <2>1, <2>2, PipelineFrame DEF inputVars
  <2>3. CASE Environment
    BY <2>1, <2>3 DEF Environment, FileWatcherPause, FileWatcherWakeUp, OpenReport,
       OpenReportFails, inputVars
  <2>4. CASE \/ StartWatch \/ TestPause \/ ReadEvents \/ CloseReport \/ MemoryFault \/ OpenFile
             \/ UNCHANGED vars
    BY <2>1, <2>4
    DEF StartWatch, TestPause, ReadEvents, CloseReport, MemoryFault, OpenFile, vars, inputVars
  <2> QED
    BY <2>2, <2>3, <2>4, NextSteps
<1> QED
  BY <1>3, <1>4, <1>5, <1>6, <1>7, <1>8

(* What was read stays read: after a line that was cut off fgets returns    *)
(* nothing more of its file.                                                *)
LEMMA ReadStaysRead ==
    ASSUME TypeOK, WholeFiles, [Next]_vars, NEW e \in LineEntry, Read(e)
    PROVE  Read(e)'
<1>1. present \subseteq present'
  BY FilesGrow
<1>2. CASE UNCHANGED pos
  BY <1>1, <1>2 DEF Read
<1>3. CASE Fgets
  <2> DEFINE f == rdHand[1].file
  <2>1. f \in Files /\ pos[f] \in Nat /\ pos[f] % 2 = 0
        /\ \E d \in {1, 2} : pos' = [pos EXCEPT ![f] = pos[f] + d]
    BY <1>3, FgetsReads
  <2>2. pos \in [Files -> Nat] /\ e.file \in Files /\ e.line \in Nat
    BY DEF TypeOK, InputTypes, LineEntry
  <2>3. CASE e.file = f
    <3>1. e.ending # "eof"
      BY <2>1, <2>2, <2>3 DEF Read
    <3>2. 2 * e.line <= pos'[f]
      BY <2>1, <2>2, <2>3, <3>1 DEF Read
    <3> QED
      BY <1>1, <2>3, <3>1, <3>2 DEF Read
  <2>4. CASE e.file # f
    <3>1. pos'[e.file] = pos[e.file]
      BY <2>1, <2>2, <2>4
    <3> QED
      BY <1>1, <3>1 DEF Read
  <2> QED
    BY <2>3, <2>4
<1> QED
  BY <1>2, <1>3, FilesGrow

PathInv == InOrder(Stages) /\ AllRead /\ NothingLost

LEMMA StageEntries ==
    ASSUME TypeOK, NEW k \in Depth, NEW i \in 1 .. Len(Stages[k])
    PROVE  Stages[k][i] \in AnyLine
           /\ (Stages[k][i].file \in Files => Stages[k][i] # NoLine /\ Stages[k][i] \in LineEntry)
<1>1. Stages[k] \in Seq(AnyLine)
  BY StagesArePath DEF Path
<1>2. Stages[k][i] \in AnyLine
  BY <1>1, ElementOfSeq
<1> QED
  BY <1>2, NoLineFile

(* Every step but the reader's fgets leaves the lines and their order as    *)
(* they are.                                                                *)
LEMMA PathKept ==
    ASSUME TypeOK, TypeOK', SubNeedsHand, [Next]_vars, ~Fgets
    PROVE  Kept(Stages, Stages')
<1>1. CASE Pipeline
  BY <1>1, PathDataManager, PathReader, PathParser, PathAggregator DEF Pipeline
<1>2. CASE OpenFile
  <2>1. Stages' = Stages
    BY <1>2 DEF OpenFile, Stages, readerVars, parserVars, aggVars, seenVars
  <2> QED
    BY <2>1, KeptSame
<1>3. CASE UNCHANGED pipeVars
  <2>1. Stages' = Stages
    BY <1>3 DEF pipeVars, Stages, readerVars, parserVars, aggVars, seenVars
  <2> QED
    BY <2>1, KeptSame
<1> QED
  BY <1>1, <1>2, <1>3, NextSteps, InputFrame

LEMMA PathInvStep ==
    ASSUME TypeOK, TypeOK', SubNeedsHand, WholeFiles, PathInv, [Next]_vars
    PROVE  PathInv'
<1>1. \A k \in Depth : \A i \in 1 .. Len(Stages[k]) :
         Stages[k][i] = NoLine \/ (Stages[k][i] \in LineEntry /\ Read(Stages[k][i]))
  BY StageEntries DEF PathInv, AllRead, AnyLine
<1>2. \A e \in LineEntry : Read(e) => Read(e)'
  BY ReadStaysRead
<1>3. CASE ~Fgets
  <2>1. Kept(Stages, Stages')
    BY <1>3, PathKept
  <2>2. UNCHANGED pos
    BY <1>3, FilesGrow
  <2>3. AllRead'
    <3> SUFFICES ASSUME NEW k \in Depth, NEW i \in 1 .. Len(Stages'[k]), Stages'[k][i] # NoLine
                 PROVE  Read(Stages[k][i])'
      BY DEF AllRead
    <3>1. PICK m \in Depth : \E j \in 1 .. Len(Stages[m]) : Stages[m][j] = Stages'[k][i]
      BY <2>1 DEF Kept, From
    <3>2. Stages'[k][i] \in LineEntry /\ Read(Stages'[k][i])
      BY <1>1, <3>1
    <3> QED
      BY <1>2, <3>2
  <2>4. NothingLost'
    BY <2>1, <2>2 DEF PathInv, NothingLost, Kept
  <2>5. InOrder(Stages)'
    BY <2>1 DEF PathInv, Kept
  <2> QED
    BY <2>3, <2>4, <2>5 DEF PathInv
<1>4. CASE Fgets
  <2> PICK f, e : f = rdHand[1].file /\ e = rdLine'[1]
    OBVIOUS
  <2>1. /\ f \in Files \cap present /\ e \in LineEntry /\ e.file = f /\ rdLine' = <<e>>
        /\ rdLine = << >> /\ pos[f] \in Nat /\ pos[f] % 2 = 0 /\ 2 * e.line = pos[f] + 2
        /\ \/ pos' = [pos EXCEPT ![f] = pos[f] + 1] /\ e.ending = "eof" /\ f \notin MovedIn
           \/ pos' = [pos EXCEPT ![f] = pos[f] + 2] /\ e.ending # "eof"
        /\ e.ending = "buffer" => <<f, e.line>> \in LongLines
    BY <1>4, FgetsReads
  <2>2. present \subseteq present' /\ pos \in [Files -> Nat] /\ e.line \in Nat \ {0}
    BY <2>1, FilesGrow DEF TypeOK, InputTypes, LineEntry
  <2>3. /\ Stages[10] = << >> /\ Stages'[10] = <<e>>
        /\ \A l \in Depth \ {10} : Stages'[l] = Stages[l]
    BY <1>4, <2>1, StageValues, StageValuesNext, DepthCases
    DEF Fgets, notReader, parserVars, aggVars, seenVars
  <2>4. ASSUME NEW l \in Depth, NEW i \in 1 .. Len(Stages[l]), Stages[l][i].file = e.file
        PROVE  Stages[l][i].line < e.line
    <3>1. Stages[l][i] \in LineEntry /\ Read(Stages[l][i])
      BY <1>1, <2>1, <2>4, StageEntries
    <3>2. PICK d : d = Stages[l][i]
      OBVIOUS
    <3>3. d.line \in Nat \ {0} /\ d.file = f
      BY <2>1, <2>4, <3>1, <3>2 DEF LineEntry
    <3>4. pos[f] # 2 * d.line - 1
      BY <2>1, <3>3, Halves
    <3>5. 2 * d.line <= pos[f]
      BY <3>1, <3>2, <3>3, <3>4 DEF Read
    <3>6. d.line < e.line
      BY <2>1, <2>2, <3>3, <3>5
    <3> QED
      BY <3>2, <3>6
  <2>5. Stages \in Path /\ Stages' \in Path
    BY StagesArePath, PathNext
  <2>6. /\ InOrder(Stages) => InOrder(Stages')
        /\ \A g, n : Occurs(Stages, g, n) => Occurs(Stages', g, n)
        /\ Occurs(Stages', e.file, e.line)
        /\ \A l \in Depth : \A i \in 1 .. Len(Stages'[l]) :
               \/ Stages'[l][i] = e
               \/ \E m \in Depth : \E j \in 1 .. Len(Stages[m]) : Stages[m][j] = Stages'[l][i]
    BY <2>1, <2>3, <2>4, <2>5, LineCame
  <2>7. Read(e)'
    <3>1. /\ e.ending = "eof" => pos'[f] = pos[f] + 1 /\ f \notin MovedIn
          /\ e.ending # "eof" => pos'[f] = pos[f] + 2
      BY <2>1, <2>2
    <3>2. 2 * e.line <= pos[f] + 2 /\ pos[f] + 1 = 2 * e.line - 1
      BY <2>1, <2>2
    <3> QED
      BY <2>1, <2>2, <3>1, <3>2 DEF Read
  <2>8. AllRead'
    <3> SUFFICES ASSUME NEW k \in Depth, NEW i \in 1 .. Len(Stages'[k]), Stages'[k][i] # NoLine
                 PROVE  Read(Stages[k][i])'
      BY DEF AllRead
    <3>1. CASE Stages'[k][i] = e
      BY <2>7, <3>1
    <3>2. CASE Stages'[k][i] # e
      <4>1. PICK m \in Depth : \E j \in 1 .. Len(Stages[m]) : Stages[m][j] = Stages'[k][i]
        BY <2>6, <3>2
      <4>2. Stages'[k][i] \in LineEntry /\ Read(Stages'[k][i])
        BY <1>1, <4>1
      <4> QED
        BY <1>2, <4>2
    <3> QED
      BY <3>1, <3>2
  <2>9. NothingLost'
    <3> SUFFICES ASSUME NEW g \in Files, NEW n \in Nat \ {0}, 2 * n - 1 <= pos'[g]
                 PROVE  Occurs(Stages', g, n)
      BY DEF NothingLost
    <3>1. CASE 2 * n - 1 <= pos[g]
      BY <2>6, <3>1 DEF PathInv, NothingLost
    <3>2. CASE ~(2 * n - 1 <= pos[g])
      <4>1. g = f
        BY <2>1, <2>2, <3>2
      <4>2. n = e.line
        BY <2>1, <2>2, <3>2, <4>1, Halves
      <4> QED
        BY <2>1, <2>6, <4>1, <4>2
    <3> QED
      BY <3>1, <3>2
  <2> QED
    BY <2>6, <2>8, <2>9 DEF PathInv
<1> QED
  BY <1>3, <1>4
-----------------------------------------------------------------------------
(* The operator aggregator is given what the subscriber aggregator is given *)
(* but for the one record in the aggregator's hand.                         *)

OneForOp == IF agSub THEN <<agHand[1].entry>> ELSE << >>
OpBehind == opSeen \o (opAggrQueue \o OneForOp) = subSeen \o subAggrQueue

LEMMA Shift ==
    ASSUME NEW S, NEW s \in Seq(S), NEW t \in Seq(S), NEW u \in Seq(S), t # << >>
    PROVE  Append(s, Head(t)) \o (Tail(t) \o u) = s \o (t \o u)
<1>1. Tail(t) \o u \in Seq(S) /\ t \o u \in Seq(S)
  OBVIOUS
<1>2. Append(s, Head(t)) \o (Tail(t) \o u) \in Seq(S) /\ s \o (t \o u) \in Seq(S)
  BY <1>1
<1>3. Len(Append(s, Head(t)) \o (Tail(t) \o u)) = Len(s \o (t \o u))
  BY <1>1
<1>4. \A i \in 1 .. Len(s \o (t \o u)) :
         (Append(s, Head(t)) \o (Tail(t) \o u))[i] = (s \o (t \o u))[i]
  BY <1>1
<1> QED
  BY <1>2, <1>3, <1>4, SeqEqual

LEMMA AggregatorFrame ==
    [Next]_vars =>
        \/ AggregatorRemove \/ AggregatorToSub \/ AggregatorToOp
        \/ SubAggregatorFunction \/ OpAggregatorFunction
        \/ UNCHANGED <<aggVars, seenVars, subAggrQueue, opAggrQueue>>
<1>1. CASE Pipeline
  BY <1>1, PipelineSteps
  DEF DataWatcherRemove, DataWatcherInsert, DataManagerRemove, DataManagerToReader,
      DataManagerToAggregator, ReaderRemove, FgetsNull, Fgets, FgetsEOF, ReaderToParser,
      ReaderToDataManager, notReader, ParserRemove, ParserInsert, pipeVars
<1>2. CASE OpenFile
  BY <1>2 DEF OpenFile
<1> QED
  BY <1>1, <1>2, NextSteps, InputFrame DEF pipeVars

LEMMA BehindStep ==
    ASSUME TypeOK, SubNeedsHand, OpBehind, [Next]_vars
    PROVE  SubNeedsHand' /\ OpBehind'
<1>1. /\ subSeen \in Seq(LineEntry) /\ subAggrQueue \in Seq(LineEntry)
      /\ opSeen \in Seq(LineEntry) /\ opAggrQueue \in Seq(LineEntry)
  BY DEF TypeOK, PipeTypes, Queue
<1>2. agHand # << >> => agHand[1].entry \in LineEntry
  BY InHand, ItemsOfRows DEF TypeOK, PipeTypes
<1>3. OneForOp \in Seq(LineEntry)
  BY <1>2 DEF SubNeedsHand, OneForOp
<1>4. CASE AggregatorRemove
  <2>1. agSub = FALSE /\ agSub' = FALSE
    BY <1>4 DEF AggregatorRemove, Remove, SubNeedsHand, TypeOK, PipeTypes
  <2> QED
    BY <1>4, <2>1 DEF AggregatorRemove, SubNeedsHand, OpBehind, OneForOp, seenVars
<1>5. CASE AggregatorToSub
  <2> DEFINE e == agHand[1].entry
  <2>1. /\ e \in LineEntry /\ agHand # << >> /\ UNCHANGED <<agHand, opSeen, opAggrQueue, subSeen>>
        /\ ~agSub /\ agSub' /\ subAggrQueue' = Append(subAggrQueue, e)
    BY <1>2, <1>5 DEF AggregatorToSub, seenVars
  <2>2. OneForOp = << >> /\ OneForOp' = <<e>>
    BY <2>1 DEF OneForOp
  <2>3. opSeen \o opAggrQueue = subSeen \o subAggrQueue
    BY <1>1, <2>2 DEF OpBehind
  <2>4. opSeen \o (opAggrQueue \o <<e>>) = Append(opSeen \o opAggrQueue, e)
    BY <1>1, <2>1
  <2>5. subSeen \o Append(subAggrQueue, e) = Append(subSeen \o subAggrQueue, e)
    BY <1>1, <2>1
  <2> QED
    BY <2>1, <2>2, <2>3, <2>4, <2>5 DEF OpBehind, SubNeedsHand
<1>6. CASE AggregatorToOp
  <2> DEFINE e == agHand[1].entry
  <2>1. /\ e \in LineEntry /\ UNCHANGED <<opSeen, subSeen, subAggrQueue>>
        /\ agSub /\ ~agSub' /\ opAggrQueue' = Append(opAggrQueue, e)
    BY <1>2, <1>6 DEF AggregatorToOp, seenVars
  <2>2. OneForOp = <<e>> /\ OneForOp' = << >>
    BY <2>1 DEF OneForOp
  <2>3. Append(opAggrQueue, e) \o << >> = opAggrQueue \o <<e>>
    <3>1. Append(opAggrQueue, e) \in Seq(LineEntry)
      BY <1>1, <2>1
    <3>2. Append(opAggrQueue, e) \o << >> = Append(opAggrQueue, e)
      BY <3>1, ConcatEmptySeq
    <3> QED
      BY <3>2, <1>1, <2>1, AppendIsConcat
  <2> QED
    BY <2>1, <2>2, <2>3 DEF OpBehind, SubNeedsHand
<1>7. CASE SubAggregatorFunction
  <2>1. UNCHANGED <<agHand, agSub, opSeen, opAggrQueue>>
    BY <1>7 DEF SubAggregatorFunction, aggVars
  <2>2. /\ subAggrQueue # << >> /\ subSeen' = Append(subSeen, Head(subAggrQueue))
        /\ subAggrQueue' = Tail(subAggrQueue)
    BY <1>7 DEF SubAggregatorFunction
  <2>3. Append(subSeen, Head(subAggrQueue)) \o Tail(subAggrQueue) = subSeen \o subAggrQueue
    BY <1>1, <2>2
  <2> QED
    BY <2>1, <2>2, <2>3 DEF OpBehind, OneForOp, SubNeedsHand
<1>8. CASE OpAggregatorFunction
  <2>1. UNCHANGED <<agHand, agSub, subSeen, subAggrQueue>>
    BY <1>8 DEF OpAggregatorFunction, aggVars
  <2>2. /\ opAggrQueue # << >> /\ opSeen' = Append(opSeen, Head(opAggrQueue))
        /\ opAggrQueue' = Tail(opAggrQueue)
    BY <1>8 DEF OpAggregatorFunction
  <2>3. Append(opSeen, Head(opAggrQueue)) \o (Tail(opAggrQueue) \o OneForOp)
            = opSeen \o (opAggrQueue \o OneForOp)
    BY <1>1, <1>3, <2>2, Shift
  <2>4. OneForOp' = OneForOp
    BY <2>1 DEF OneForOp
  <2> QED
    BY <2>1, <2>2, <2>3, <2>4 DEF OpBehind, SubNeedsHand
<1>9. CASE UNCHANGED <<aggVars, seenVars, subAggrQueue, opAggrQueue>>
  BY <1>9 DEF OpBehind, OneForOp, SubNeedsHand, aggVars, seenVars
<1> QED
  BY <1>4, <1>5, <1>6, <1>7, <1>8, <1>9, AggregatorFrame
-----------------------------------------------------------------------------
LogInv == WholeFiles /\ SubNeedsHand /\ OpBehind /\ PathInv

(* A process that starts holds nothing, whatever there is in ./Input.       *)
NothingHeld ==
    /\ dataManagerQueue = << >> /\ readerQueue = << >> /\ parserQueue = << >>
    /\ aggregatorQueue = << >> /\ subAggrQueue = << >> /\ opAggrQueue = << >>
    /\ dmHand = << >> /\ rdHand = << >> /\ rdLine = << >> /\ paHand = << >>
    /\ agHand = << >> /\ agSub = FALSE /\ subSeen = << >> /\ opSeen = << >>
    /\ pos = [f \in Files |-> 0]

LEMMA LogInvFromNothing == WholeFiles /\ NothingHeld => LogInv
<1> SUFFICES ASSUME WholeFiles, NothingHeld PROVE LogInv
  OBVIOUS
<1>1. SubNeedsHand
  BY DEF NothingHeld, SubNeedsHand
<1>2. OpBehind
  BY DEF NothingHeld, OpBehind, OneForOp
<1>3. \A k \in Depth : Len(Stages[k]) = 0
  BY StageValues, DepthCases, EntriesEmpty DEF NothingHeld
<1>4. InOrder(Stages) /\ AllRead
  BY <1>3 DEF InOrder, AllRead
<1>5. NothingLost
  BY DEF NothingHeld, NothingLost
<1> QED
  BY <1>1, <1>2, <1>4, <1>5 DEF LogInv, PathInv

LEMMA LogInvInit == Init => LogInv
<1>1. Init => WholeFiles /\ NothingHeld
  BY IngestAssumption DEF Init, WholeFiles, NothingHeld
<1> QED
  BY <1>1, LogInvFromNothing

LEMMA LogInvStep == TypeOK /\ TypeOK' /\ LogInv /\ [Next]_vars => LogInv'
BY PathInvStep, BehindStep, WholeFilesStep DEF LogInv

LEMMA LogInvAlways == Spec => [](TypeOK /\ LogInv)
BY LogInvInit, LogInvStep, IngestTypeCorrect, PTL DEF Spec
-----------------------------------------------------------------------------
(* A line may enter the log when the one before it of its file is the last  *)
(* of that file in the log.                                                 *)
LEMMA EntersLog ==
    ASSUME TypeOK, LogInv, AggregatorToSub
    PROVE  agHand[1].entry.file \in Files /\ Log!AppendLine(agHand[1].entry.file)
<1> DEFINE log == subSeen \o subAggrQueue
<1> PICK e : e = agHand[1].entry
  OBVIOUS
<1> SUFFICES e.file \in Files /\ Log!AppendLine(e.file)
  OBVIOUS
<1>1. /\ subSeen \in Seq(LineEntry) /\ subAggrQueue \in Seq(LineEntry)
      /\ agHand \in Hand(Record) /\ agHand # << >> /\ ~agSub
      /\ subAggrQueue' = Append(subAggrQueue, e) /\ UNCHANGED seenVars
  BY DEF TypeOK, PipeTypes, Queue, AggregatorToSub
<1>2. e \in LineEntry /\ Stages[2] = <<e>>
  <2>1. agHand = <<agHand[1]>> /\ agHand[1] \in Record
    BY <1>1, InHand
  <2>2. agHand[1].entry \in LineEntry /\ Item(agHand[1]) = agHand[1].entry
    BY <2>1, ItemsOfRows DEF Item
  <2>3. Entries(agHand) = <<e>>
    BY <2>1, <2>2, OneItem, Zenon
  <2> QED
    BY <1>1, <2>2, <2>3, StageValues
<1>3. /\ e.file \in Files /\ e.line \in Nat \ {0} /\ e.ending \in Log!Endings
      /\ e = [file |-> e.file, line |-> e.line, ending |-> e.ending]
  BY <1>2 DEF LineEntry, Log!Endings
<1>4. /\ 1 \in Depth /\ 2 \in Depth /\ 1 \in 1 .. Len(Stages[2]) /\ Stages[2][1] = e
      /\ Stages[1] = log /\ log \in Seq(LineEntry)
      /\ DOMAIN log = 1 .. Len(log) /\ Len(log) \in Nat
  BY <1>1, <1>2, StageValues DEF Depth
<1> HIDE DEF log
<1>5. log' = Append(log, e)
  BY <1>1, <1>2 DEF seenVars, log
<1>6. \A i \in 1 .. Len(log) : log[i] \in LineEntry /\ (log[i].file = e.file => log[i].line < e.line)
  <2> SUFFICES ASSUME NEW i \in 1 .. Len(log)
               PROVE  log[i] \in LineEntry /\ (log[i].file = e.file => log[i].line < e.line)
    OBVIOUS
  <2>1. log[i] \in LineEntry
    BY <1>4
  <2>2. Ahead(1, i, 2, 1)
    BY DEF Ahead
  <2> QED
    BY <2>1, <2>2, <1>3, <1>4 DEF LogInv, PathInv, InOrder
<1>7. NoLine # e
  BY <1>3, IngestAssumption DEF NoLine
<1>8. Read(e)
  BY <1>4, <1>7 DEF LogInv, PathInv, AllRead
<1>9. pos[e.file] \in Nat /\ 2 * e.line - 1 <= pos[e.file]
  BY <1>3, <1>8 DEF Read, TypeOK, InputTypes
<1>10. CASE e.line = 1
  <2>1. \A i \in DOMAIN log : log[i].file # e.file
    <3> SUFFICES ASSUME NEW i \in 1 .. Len(log), log[i].file = e.file PROVE FALSE
      BY <1>4
    <3>1. log[i].line \in Nat \ {0} /\ log[i].line < 1
      BY <1>6, <1>10 DEF LineEntry
    <3> QED
      BY <3>1
  <2> QED
    BY <2>1, <1>1, <1>3, <1>5, <1>10 DEF Log!AppendLine, log, seenVars
<1>11. CASE e.line # 1
  <2> PICK n : n = e.line - 1
    OBVIOUS
  <2>1. n \in Nat \ {0} /\ e.line = n + 1 /\ 2 * n - 1 <= pos[e.file]
    BY <1>3, <1>9, <1>11
  <2>2. Occurs(Stages, e.file, n)
    BY <2>1, <1>3 DEF LogInv, PathInv, NothingLost
  <2>3. PICK k \in Depth : \E i \in 1 .. Len(Stages[k]) :
              Stages[k][i].file = e.file /\ Stages[k][i].line = n
    BY <2>2 DEF Occurs
  <2>4. PICK i \in 1 .. Len(Stages[k]) : Stages[k][i].file = e.file /\ Stages[k][i].line = n
    BY <2>3
  <2>5. k = 1
    <3>1. ~Ahead(2, 1, k, i)
      <4> SUFFICES ASSUME Ahead(2, 1, k, i) PROVE FALSE
        OBVIOUS
      <4>1. e.line < n
        BY <2>4, <1>3, <1>4 DEF LogInv, PathInv, InOrder
      <4> QED
        BY <4>1, <2>1
    <3>2. ~(k = 2 /\ i = 1)
      BY <2>1, <2>4, <1>4
    <3>3. k \in 1 .. 10 /\ i \in Nat \ {0}
      BY <2>4, StagesArePath DEF Path, Depth
    <3> QED
      BY <3>1, <3>2, <3>3 DEF Ahead
  <2>6. i \in 1 .. Len(log) /\ log[i].file = e.file /\ log[i].line = n
    BY <2>4, <2>5, <1>4
  <2>7. log[i].ending # "eof"
    <3>1. NoLine # log[i]
      BY <2>6, <1>3, IngestAssumption DEF NoLine
    <3>2. Read(log[i])
      BY <2>6, <3>1, <1>4 DEF LogInv, PathInv, AllRead
    <3>3. log[i].ending = "eof" => pos[e.file] = 2 * n - 1
      BY <3>2, <2>6 DEF Read
    <3>4. 2 * n + 1 <= pos[e.file]
      BY <2>1, <1>9
    <3> QED
      BY <3>3, <3>4, <2>1, <1>9
  <2>8. \A j \in 1 .. Len(log) : log[j].file = e.file => j <= i
    <3> SUFFICES ASSUME NEW j \in 1 .. Len(log), log[j].file = e.file, ~(j <= i) PROVE FALSE
      OBVIOUS
    <3>1. Ahead(1, i, 1, j)
      BY <2>6, <1>4 DEF Ahead
    <3>2. n < log[j].line
      BY <3>1, <2>6, <1>3, <1>4 DEF LogInv, PathInv, InOrder
    <3>3. log[j].line < e.line /\ log[j].line \in Nat
      BY <1>6 DEF LineEntry
    <3> QED
      BY <3>2, <3>3, <2>1
  <2>9. i \in DOMAIN log /\ e.line = log[i].line + 1 /\ i \in {m \in DOMAIN log :
            log[m].file = e.file /\ \A j \in DOMAIN log : log[j].file = e.file => j <= m}
    BY <2>1, <2>6, <2>8, <1>4
  <2> QED
    BY <2>7, <2>9, <1>1, <1>3, <1>5 DEF Log!AppendLine, Log!LastOf, log, seenVars
<1> QED
  BY <1>10, <1>11

(* Each of the two aggregators reads the next line of the log.              *)
LEMMA SubReadsLog ==
    ASSUME TypeOK, SubAggregatorFunction
    PROVE  Log!SubRead
<1>1. subSeen \in Seq(LineEntry) /\ subAggrQueue \in Seq(LineEntry)
  BY DEF TypeOK, PipeTypes, Queue
<1>2. /\ subAggrQueue # << >> /\ subSeen' = Append(subSeen, Head(subAggrQueue))
      /\ subAggrQueue' = Tail(subAggrQueue) /\ UNCHANGED opSeen
  BY DEF SubAggregatorFunction
<1>3. Append(subSeen, Head(subAggrQueue)) \o Tail(subAggrQueue) = subSeen \o subAggrQueue
  BY <1>1, <1>2
<1>4. /\ Len(subSeen) < Len(subSeen \o subAggrQueue)
      /\ (subSeen \o subAggrQueue)[Len(subSeen) + 1] = Head(subAggrQueue)
  BY <1>1, <1>2
<1> QED
  BY <1>2, <1>3, <1>4 DEF Log!SubRead

LEMMA OpReadsLog ==
    ASSUME TypeOK, LogInv, OpAggregatorFunction
    PROVE  Log!OpRead
<1>1. opSeen \in Seq(LineEntry) /\ opAggrQueue \in Seq(LineEntry)
  BY DEF TypeOK, PipeTypes, Queue
<1>2. /\ opAggrQueue # << >> /\ opSeen' = Append(opSeen, Head(opAggrQueue))
      /\ UNCHANGED <<subSeen, subAggrQueue>>
  BY DEF OpAggregatorFunction
<1>3. OneForOp \in Seq(LineEntry)
  BY InHand, ItemsOfRows DEF TypeOK, PipeTypes, LogInv, SubNeedsHand, OneForOp
<1>4. opAggrQueue \o OneForOp \in Seq(LineEntry) /\ Len(opAggrQueue) >= 1
      /\ (opAggrQueue \o OneForOp)[1] = Head(opAggrQueue)
  BY <1>1, <1>2, <1>3
<1>5. /\ Len(opSeen) < Len(opSeen \o (opAggrQueue \o OneForOp))
      /\ (opSeen \o (opAggrQueue \o OneForOp))[Len(opSeen) + 1] = Head(opAggrQueue)
  BY <1>1, <1>3, <1>4
<1> QED
  BY <1>2, <1>5 DEF Log!OpRead, LogInv, OpBehind

LEMMA LogAlone ==
    ASSUME [Next]_vars, ~(AggregatorToSub \/ SubAggregatorFunction \/ OpAggregatorFunction)
    PROVE  UNCHANGED Log!vars
BY AggregatorFrame
DEF AggregatorRemove, AggregatorToOp, aggVars, seenVars, Log!vars

LEMMA LogStep == TypeOK /\ LogInv /\ [Next]_vars => [Log!Next]_Log!vars
BY EntersLog, SubReadsLog, OpReadsLog, LogAlone DEF Log!Next

(* ImplementsLineLog: whatever the eight threads do in between, what the    *)
(* two aggregators are given is one log, in which the lines of a file are   *)
(* in file order, none skipped and none repeated, and which each aggregator *)
(* reads from its beginning.                                                *)
THEOREM IngestImplementsLog == Spec => ImplementsLineLog
<1>1. Init => Log!Init
  BY DEF Init, Log!Init
<1> QED
  BY <1>1, LogStep, LogInvAlways, PTL DEF Spec, ImplementsLineLog, Log!Spec

(* What was read and is not whole is of a long line, or was read last.      *)
LEMMA ReadInPart ==
    ASSUME NEW e \in LineEntry, Read(e)
    PROVE  \/ Whole(e)
           \/ {<<e.file, e.line>>, <<e.file, e.line - 1>>} \cap LongLines # {}
           \/ e.file \notin MovedIn /\ pos[e.file] = 2 * e.line - 1
<1>1. e.ending \in {"newline", "buffer", "eof"}
  BY DEF LineEntry
<1> QED
  BY <1>1 DEF Read, Whole

LEMMA LinesInPart == TypeOK /\ LogInv => LinesInPartAreLongOrLast
<1> SUFFICES ASSUME TypeOK, LogInv PROVE LinesInPartAreLongOrLast
  OBVIOUS
<1>1. /\ parserQueue \in Seq(LineEntry) /\ subSeen \in Seq(LineEntry)
      /\ subAggrQueue \in Seq(LineEntry)
  BY DEF TypeOK, PipeTypes, Queue
<1>2. 9 \in Depth /\ 1 \in Depth /\ Stages[9] = parserQueue
      /\ Stages[1] = subSeen \o subAggrQueue
  BY StageValues DEF Depth
<1>3. \A e \in LineEntry : e # NoLine
  BY IngestAssumption DEF LineEntry, NoLine
<1>4. ASSUME NEW i \in DOMAIN parserQueue
      PROVE  parserQueue[i] \in LineEntry /\ Read(parserQueue[i])
  <2>1. i \in 1 .. Len(Stages[9]) /\ parserQueue[i] \in LineEntry
    BY <1>1, <1>2
  <2> QED
    BY <1>2, <1>3, <2>1 DEF LogInv, PathInv, AllRead
<1>5. ASSUME NEW i \in DOMAIN subSeen
      PROVE  subSeen[i] \in LineEntry /\ Read(subSeen[i])
  <2>1. i \in 1 .. Len(subSeen \o subAggrQueue) /\ subSeen[i] \in LineEntry
        /\ (subSeen \o subAggrQueue)[i] = subSeen[i]
    BY <1>1
  <2> QED
    BY <1>2, <1>3, <2>1 DEF LogInv, PathInv, AllRead
<1> QED
  BY <1>4, <1>5, ReadInPart DEF LinesInPartAreLongOrLast

(* LinesInPartAreLongOrLast: a line is seen in part only when it is longer  *)
(* than the reader's buffer, or when it is the last that is read of a file  *)
(* written in place.                                                        *)
THEOREM LinesInPartAreLongOrLastAlways == Spec => []LinesInPartAreLongOrLast
BY LinesInPart, LogInvAlways, PTL
-----------------------------------------------------------------------------
(* Streams and crashes.                                                     *)

(* Every file has one event, and a stream at most; a process that finds     *)
(* files in ./Input as it starts, those of Old, has no event of them.       *)
StreamsAreOfFiles(Old) ==
    /\ Old \subseteq present /\ IsFiniteSet(present \ Old)
    /\ Len(events) + Len(batch) + streams <= Cardinality(present \ Old)
    /\ events \in Seq(present \ Old) /\ batch \in Seq(present \ Old)

ManyFiles(Old) == Cardinality(present \ Old) >= MaxStreams
FilesMayFail(Old) == ManyFiles(Old) \/ MayBeGone \cap (present \ Old) # {}

(* A NULL among the files means that many files have come, or one that may  *)
(* have gone.                                                               *)
FileItem == {x \in Items : x.context = "ROW_DATA" => x.file # NoFile}
NoNull ==
    /\ dataWatcherQueue \in Seq(FileItem) /\ dwHand \in Seq(FileItem)
    /\ dataManagerQueue \in Seq(FileItem) /\ dmHand \in Seq(FileItem)
    /\ readerQueue \in Seq(FileItem) /\ rdHand \in Seq(FileItem)

HarmfulLineRead == \E f \in present : HarmfulRead(f)

CrashInv(Old) ==
    /\ StreamsAreOfFiles(Old)
    /\ NoNull \/ FilesMayFail(Old)
    /\ spoiled => HarmfulLineRead
    /\ crashed => \/ FilesMayFail(Old) \/ HarmfulLineRead
                  \/ ReportsMayFail /\ (subSeen # << >> \/ opSeen # << >>)

LEMMA SeqGrows == ASSUME NEW S, NEW T, S \subseteq T, NEW q \in Seq(S) PROVE q \in Seq(T)
OBVIOUS

LEMMA FilesMayFailStays ==
    ASSUME NEW Old, TypeOK, StreamsAreOfFiles(Old), [Next]_vars
    PROVE  StreamsAreOfFiles(Old)' /\ (FilesMayFail(Old) => FilesMayFail(Old)')
<1>1. /\ Len(events) \in Nat /\ Len(batch) \in Nat /\ streams \in Nat
      /\ events \in Seq(Files) /\ batch \in Seq(Files)
      /\ Cardinality(present \ Old) \in Nat /\ MaxStreams \in Nat
  BY IngestAssumption, FS_CardinalityType DEF TypeOK, WatchTypes, StreamsAreOfFiles
<1>2. ASSUME NEW f \in Files, f \notin present, present' = present \cup {f}, Notify(f),
             UNCHANGED <<batch, streams>>
      PROVE  StreamsAreOfFiles(Old)' /\ (FilesMayFail(Old) => FilesMayFail(Old)')
  <2>1. /\ present' \ Old = (present \ Old) \cup {f}
        /\ f \notin present \ Old /\ Old \subseteq present'
    BY <1>2 DEF StreamsAreOfFiles
  <2>2. /\ IsFiniteSet(present' \ Old)
        /\ Cardinality(present' \ Old) = Cardinality(present \ Old) + 1
    BY <2>1, FS_AddElement DEF StreamsAreOfFiles
  <2>3. Len(events') <= Len(events) + 1 /\ Len(events') \in Nat
    BY <1>1, <1>2, AppendProperties DEF Notify
  <2>4. events' \in Seq(present' \ Old) /\ batch' \in Seq(present' \ Old)
    <3> DEFINE New == present' \ Old
    <3>1. f \in New /\ events \in Seq(New) /\ batch \in Seq(New)
      BY <2>1, SeqGrows DEF StreamsAreOfFiles
    <3> HIDE DEF New
    <3>2. events' \in Seq(New) /\ batch' \in Seq(New)
      BY <1>2, <3>1, AppendProperties DEF Notify
    <3> QED
      BY <3>2 DEF New
  <2>5. FilesMayFail(Old) => FilesMayFail(Old)'
    BY <1>1, <2>1, <2>2 DEF FilesMayFail, ManyFiles
  <2>6. Len(events') + Len(batch') + streams' <= Cardinality(present' \ Old)
    BY <1>1, <1>2, <2>2, <2>3 DEF StreamsAreOfFiles
  <2> QED
    BY <2>1, <2>2, <2>4, <2>5, <2>6 DEF StreamsAreOfFiles
<1>3. CASE \E f \in Files : CreateFile(f) \/ MoveFile(f)
  <2> PICK f \in Files : CreateFile(f) \/ MoveFile(f)
    BY <1>3
  <2>1. f \notin present /\ present' = present \cup {f} /\ Notify(f)
        /\ UNCHANGED <<batch, streams>>
    BY DEF CreateFile, MoveFile, fwVars, fileVars
  <2> QED
    BY <2>1, <1>2
<1>4. CASE ReadEvents
  <2>1. UNCHANGED <<present, streams>> /\ batch' = events /\ Len(events') = 0
    BY <1>4 DEF ReadEvents, inputVars
  <2>2. events' \in Seq(present \ Old)
    BY <1>4, EmptySeq DEF ReadEvents
  <2> QED
    BY <1>1, <2>1, <2>2 DEF StreamsAreOfFiles, FilesMayFail, ManyFiles
<1>5. CASE OpenFile
  <2>1. /\ UNCHANGED <<present, events>> /\ batch # << >> /\ batch' = Tail(batch)
        /\ streams' <= streams + 1 /\ streams' \in Nat
    BY <1>1, <1>5 DEF OpenFile, inputVars, watchVars, TypeOK, WatchTypes
  <2>2. Len(batch') = Len(batch) - 1
    BY <1>1, <2>1, HeadTailProperties
  <2>3. batch' \in Seq(present \ Old)
    BY <2>1, HeadTailProperties DEF StreamsAreOfFiles
  <2> QED
    BY <1>1, <2>1, <2>2, <2>3 DEF StreamsAreOfFiles, FilesMayFail, ManyFiles
<1>6. CASE UNCHANGED <<present, events, batch, streams>>
  BY <1>6 DEF StreamsAreOfFiles, FilesMayFail, ManyFiles
<1>7. \/ \E f \in Files : CreateFile(f) \/ MoveFile(f)
      \/ ReadEvents \/ OpenFile \/ UNCHANGED <<present, events, batch, streams>>
  <2>1. CASE Environment
    BY <2>1 DEF Environment, WriteFile, FileWatcherPause, FileWatcherWakeUp, OpenReport,
       OpenReportFails, inputVars, watchVars, fwVars, fileVars
  <2>2. CASE StartWatch \/ TestPause \/ CloseReport \/ MemoryFault \/ UNCHANGED vars
    BY <2>2 DEF StartWatch, TestPause, CloseReport, MemoryFault, vars, inputVars, watchVars,
       fwVars, fileVars
  <2>3. CASE Pipeline
    BY <2>3, PipelineFrame DEF inputVars, watchVars, fwVars, fileVars
  <2> QED
    BY <2>1, <2>2, <2>3, NextSteps
<1> QED
  BY <1>3, <1>4, <1>5, <1>6, <1>7

LEMMA NoNullStays ==
    ASSUME NEW Old, TypeOK, StreamsAreOfFiles(Old), NoNull, ~FilesMayFail(Old), [Next]_vars
    PROVE  NoNull'
<1>1. /\ \A q \in Seq(FileItem) : q # << >> => <<Head(q)>> \in Seq(FileItem)
                                                /\ Tail(q) \in Seq(FileItem)
      /\ \A q, r \in Seq(FileItem) : q \o r \in Seq(FileItem)
      /\ << >> \in Seq(FileItem)
  OBVIOUS
<1>2. CASE OpenFile
  <2>1. batch \in Seq(Files) /\ batch # << >> /\ Len(batch) >= 1 /\ Head(batch) \in Files
    BY <1>2, EmptySeq, HeadTailProperties DEF OpenFile, TypeOK, WatchTypes
  <2>2. StreamLeft
    <3>1. /\ Len(events) \in Nat /\ Len(batch) \in Nat /\ streams \in Nat
          /\ Cardinality(present \ Old) \in Nat /\ MaxStreams \in Nat
      BY IngestAssumption, FS_CardinalityType DEF TypeOK, WatchTypes, StreamsAreOfFiles
    <3> QED
      BY <2>1, <3>1 DEF StreamLeft, StreamsAreOfFiles, FilesMayFail, ManyFiles
  <2>3. Head(batch) \notin MayBeGone
    <3>1. Head(batch) \in present \ Old
      BY <2>1, HeadTailProperties DEF StreamsAreOfFiles
    <3> QED
      BY <3>1 DEF FilesMayFail
  <2>4. PICK file \in Files : dataWatcherQueue' = Append(dataWatcherQueue, Row(file))
    BY <1>2, <2>1, <2>2, <2>3 DEF OpenFile, Opened
  <2>5. Row(file) \in FileItem
    BY <2>4, ItemsOfRows, IngestAssumption DEF Row, FileItem, Items
  <2>6. dataWatcherQueue' \in Seq(FileItem)
    BY <2>4, <2>5 DEF NoNull
  <2> QED
    BY <1>2, <2>6 DEF OpenFile, NoNull, readerVars
<1>3. CASE DataWatcherRemove \/ DataWatcherInsert
  BY <1>1, <1>3 DEF DataWatcherRemove, DataWatcherInsert, Remove, Insert, NoNull, readerVars
<1>4. CASE DataManagerRemove \/ DataManagerToReader
  BY <1>1, <1>4 DEF DataManagerRemove, DataManagerToReader, Remove, Insert, NoNull, readerVars
<1>5. CASE DataManagerToAggregator
  BY <1>1, <1>5 DEF DataManagerToAggregator, Insert, NoNull, readerVars
<1>6. CASE ReaderRemove \/ ReaderToDataManager
  BY <1>1, <1>6 DEF ReaderRemove, ReaderToDataManager, Remove, Insert, NoNull
<1>7. CASE FgetsNull \/ Fgets \/ FgetsEOF \/ ReaderToParser
  BY <1>1, <1>7 DEF FgetsNull, Fgets, FgetsEOF, ReaderToParser, notReader, NoNull, readerVars
<1>8. CASE ParserInsert
  <2>1. Processed(paHand[1]) \in FileItem
    BY <1>8, InHand, ItemsOfRows DEF ParserInsert, TypeOK, PipeTypes, FileItem, Items, Processed
  <2>2. readerQueue' \in Seq(FileItem)
    BY <1>8, <2>1 DEF ParserInsert, NoNull
  <2> QED
    BY <1>8, <2>2 DEF ParserInsert, NoNull, readerVars
<1>9. CASE ParserRemove
  BY <1>9 DEF ParserRemove, NoNull, readerVars
<1>10. CASE AggregatorRemove \/ AggregatorToSub \/ AggregatorToOp
            \/ SubAggregatorFunction \/ OpAggregatorFunction
  BY <1>10 DEF AggregatorRemove, AggregatorToSub, AggregatorToOp, SubAggregatorFunction,
     OpAggregatorFunction, notAggregator, NoNull, readerVars
<1>11. CASE UNCHANGED pipeVars
  BY <1>11 DEF NoNull, pipeVars, readerVars
<1> QED
  BY <1>2, <1>3, <1>4, <1>5, <1>6, <1>7, <1>8, <1>9, <1>10, <1>11,
     NextSteps, PipelineSteps, InputFrame

LEMMA HarmfulLineStays ==
    ASSUME TypeOK, WholeFiles, [Next]_vars, HarmfulLineRead
    PROVE  HarmfulLineRead'
<1>1. present \subseteq present' /\ (Fgets \/ UNCHANGED pos)
  BY FilesGrow
<1>2. /\ present \subseteq Files /\ pos \in [Files -> Nat]
      /\ \A line \in GapLines \cup LongLines \cup OverrunLines : line[2] \in Nat
  BY IngestAssumption DEF TypeOK, InputTypes
<1>3. \A f \in Files : pos[f] <= pos'[f] /\ (pos[f] % 2 = 1 => pos'[f] = pos[f])
                       /\ pos'[f] \in Nat
  <2>1. CASE Fgets
    <3> PICK g : g = rdHand[1].file
      OBVIOUS
    <3>1. g \in Files /\ pos[g] \in Nat /\ pos[g] % 2 = 0
          /\ \E d \in {1, 2} : pos' = [pos EXCEPT ![g] = pos[g] + d]
      BY <2>1, FgetsReads
    <3> QED
      BY <3>1, <1>2
  <2>2. CASE UNCHANGED pos
    BY <2>2, <1>2
  <2> QED
    BY <2>1, <2>2, <1>1
<1> PICK f \in present : HarmfulRead(f)
  BY DEF HarmfulLineRead
<1>4. f \in present' /\ f \in Files
  BY <1>1, <1>2
<1>5. CASE f \notin MovedIn /\ pos[f] % 2 = 1
  <2>1. pos'[f] % 2 = 1
    BY <1>3, <1>4, <1>5
  <2> QED
    BY <1>4, <1>5, <2>1 DEF HarmfulLineRead, HarmfulRead
<1>6. CASE \E line \in GapLines \cup LongLines \cup OverrunLines :
               line[1] = f /\ pos[f] >= 2 * line[2] - 1
  <2> PICK line \in GapLines \cup LongLines \cup OverrunLines :
               line[1] = f /\ pos[f] >= 2 * line[2] - 1
    BY <1>6
  <2>1. pos'[f] >= 2 * line[2] - 1
    BY <1>2, <1>3, <1>4
  <2> QED
    BY <1>4, <2>1 DEF HarmfulLineRead, HarmfulRead
<1> QED
  BY <1>5, <1>6 DEF HarmfulRead

(* The report writer has no stream, and nobody prints: files hold them all. *)
LEMMA NoStreamMeansManyFiles ==
    ASSUME NEW Old, TypeOK, StreamsAreOfFiles(Old), ~reporting, ~StreamLeft
    PROVE  ManyFiles(Old)
<1>1. /\ Len(events) \in Nat /\ Len(batch) \in Nat /\ streams \in Nat
      /\ Cardinality(present \ Old) \in Nat /\ MaxStreams \in Nat
  BY IngestAssumption, FS_CardinalityType DEF TypeOK, WatchTypes, StreamsAreOfFiles
<1>2. ~(streams < MaxStreams)
  BY <1>1 DEF StreamLeft
<1> QED
  BY <1>1, <1>2 DEF StreamsAreOfFiles, ManyFiles

LEMMA NullWasPassedOn == NoNull => ~NullAtHand
<1> SUFFICES ASSUME NoNull, NullAtHand PROVE FALSE
  OBVIOUS
<1>1. rdHand # << >> /\ rdHand[1].context = "ROW_DATA" /\ rdHand[1].file = NoFile
  BY DEF NullAtHand, ReadingFile, Holds
<1>2. rdHand[1] \notin FileItem
  BY <1>1 DEF FileItem
<1> QED
  BY <1>1, <1>2, EmptySeq, ElementOfSeq DEF NoNull

(* What comes to the parser the reader has read. *)
LEMMA HarmfulWasRead ==
    ASSUME TypeOK, LogInv, parserQueue # << >>, Harmful(Head(parserQueue))
    PROVE  HarmfulLineRead
<1> PICK e : e = Head(parserQueue)
  OBVIOUS
<1>1. /\ parserQueue \in Seq(LineEntry) /\ e \in LineEntry /\ e = parserQueue[1]
      /\ 1 \in 1 .. Len(parserQueue)
  BY DEF TypeOK, PipeTypes, Queue
<1>2. e # NoLine
  BY <1>1, IngestAssumption DEF LineEntry, NoLine
<1>3. Read(e)
  <2>1. 9 \in Depth /\ Stages[9] = parserQueue
    BY StageValues DEF Depth
  <2> QED
    BY <1>1, <1>2, <2>1 DEF LogInv, PathInv, AllRead
<1>4. /\ e.file \in present /\ pos[e.file] \in Nat /\ e.line \in Nat \ {0}
      /\ pos[e.file] >= 2 * e.line - 1
  BY <1>1, <1>3 DEF Read, LineEntry, TypeOK, InputTypes
<1>5. CASE e.file \notin MovedIn /\ pos[e.file] = 2 * e.line - 1
  <2>1. pos[e.file] % 2 = 1
    BY <1>4, <1>5, Halves
  <2> QED
    BY <2>1, <1>4, <1>5 DEF HarmfulLineRead, HarmfulRead
<1>6. ASSUME NEW m \in {e.line, e.line - 1},
             <<e.file, m>> \in GapLines \cup LongLines \cup OverrunLines
      PROVE  HarmfulLineRead
  <2> PICK line : line = <<e.file, m>>
    OBVIOUS
  <2>1. /\ line \in GapLines \cup LongLines \cup OverrunLines
        /\ line[1] = e.file /\ pos[e.file] >= 2 * line[2] - 1
    BY <1>4, <1>6
  <2> QED
    BY <2>1, <1>4 DEF HarmfulLineRead, HarmfulRead
<1>7. \/ e.file \notin MovedIn /\ pos[e.file] = 2 * e.line - 1
      \/ \E m \in {e.line, e.line - 1} :
             <<e.file, m>> \in GapLines \cup LongLines \cup OverrunLines
  BY <1>1, <1>3, ReadInPart DEF Harmful
<1> QED
  BY <1>5, <1>6, <1>7

LEMMA SpoiledStep ==
    ASSUME TypeOK, LogInv, spoiled => HarmfulLineRead, [Next]_vars
    PROVE  spoiled' => HarmfulLineRead'
<1>1. HarmfulLineRead => HarmfulLineRead'
  BY HarmfulLineStays DEF LogInv
<1>2. CASE UNCHANGED spoiled
  BY <1>1, <1>2
<1>3. CASE ParserRemove
  <2>1. spoiled' => spoiled \/ Harmful(Head(parserQueue))
    BY <1>3, Zenon DEF ParserRemove
  <2>2. parserQueue # << >>
    BY <1>3 DEF ParserRemove, Remove
  <2> QED
    BY <2>1, <2>2, <1>1, HarmfulWasRead
<1>4. ParserRemove \/ UNCHANGED spoiled
  <2>1. CASE Pipeline
    BY <2>1, PipelineSteps
    DEF DataWatcherRemove, DataWatcherInsert, DataManagerRemove, DataManagerToReader,
        DataManagerToAggregator, ReaderRemove, FgetsNull, Fgets, FgetsEOF, ReaderToParser,
        ReaderToDataManager, notReader, ParserInsert, AggregatorRemove, AggregatorToSub,
        AggregatorToOp, SubAggregatorFunction, OpAggregatorFunction, notAggregator, parserVars
  <2>2. CASE OpenFile
    BY <2>2 DEF OpenFile, parserVars
  <2> QED
    BY <2>1, <2>2, NextSteps, InputFrame DEF pipeVars, parserVars
<1> QED
  BY <1>2, <1>3, <1>4

(* What the aggregators have removed only grows.                            *)
LEMMA SeenStays ==
    ASSUME TypeOK, [Next]_vars, subSeen # << >> \/ opSeen # << >>
    PROVE  (subSeen # << >> \/ opSeen # << >>)'
<1>1. CASE UNCHANGED seenVars
  BY <1>1 DEF seenVars
<1>2. CASE SubAggregatorFunction \/ OpAggregatorFunction
  BY <1>2, AppendProperties DEF SubAggregatorFunction, OpAggregatorFunction, TypeOK, PipeTypes
<1>3. SubAggregatorFunction \/ OpAggregatorFunction \/ UNCHANGED seenVars
  <2>1. CASE Pipeline
    BY <2>1, PipelineSteps
    DEF DataWatcherRemove, DataWatcherInsert, DataManagerRemove, DataManagerToReader,
        DataManagerToAggregator, ReaderRemove, FgetsNull, Fgets, FgetsEOF, ReaderToParser,
        ReaderToDataManager, notReader, ParserRemove, ParserInsert, AggregatorRemove,
        AggregatorToSub, AggregatorToOp
  <2>2. CASE OpenFile
    BY <2>2 DEF OpenFile
  <2> QED
    BY <2>1, <2>2, NextSteps, InputFrame DEF pipeVars
<1> QED
  BY <1>1, <1>2, <1>3

LEMMA CrashInvStep ==
    ASSUME NEW Old, TypeOK, LogInv, CrashInv(Old), [Next]_vars
    PROVE  CrashInv(Old)'
<1>1. StreamsAreOfFiles(Old)' /\ (FilesMayFail(Old) => FilesMayFail(Old)')
  BY FilesMayFailStays DEF CrashInv
<1>2. (NoNull \/ FilesMayFail(Old)) => (NoNull' \/ FilesMayFail(Old)')
  BY <1>1, NoNullStays DEF CrashInv
<1>3. spoiled' => HarmfulLineRead'
  BY SpoiledStep DEF CrashInv
<1>4. HarmfulLineRead => HarmfulLineRead'
  BY HarmfulLineStays DEF LogInv
<1> DEFINE Cause == \/ FilesMayFail(Old) \/ HarmfulLineRead
                    \/ ReportsMayFail /\ (subSeen # << >> \/ opSeen # << >>)
<1>5. Cause => Cause'
  BY <1>1, <1>4, SeenStays
<1>6. crashed' => Cause
  <2>1. CASE crashed' => crashed
    BY <2>1 DEF CrashInv
  <2>2. CASE OpenReportFails
    <3>1. ~StreamLeft => ManyFiles(Old)
      BY <2>2, NoStreamMeansManyFiles DEF OpenReportFails, ReportToOpen, CrashInv
    <3> QED
      BY <2>2, <3>1 DEF OpenReportFails, ReportToOpen, ReportFails, FilesMayFail
  <2>3. CASE FgetsNull
    BY <2>3, NullWasPassedOn DEF FgetsNull, CrashInv
  <2>4. CASE MemoryFault
    BY <2>4 DEF MemoryFault, CrashInv
  <2>5. OpenReportFails \/ FgetsNull \/ MemoryFault \/ (crashed' => crashed)
    <3>1. CASE Pipeline
      BY <3>1, PipelineSteps
      DEF DataWatcherRemove, DataWatcherInsert, DataManagerRemove, DataManagerToReader,
          DataManagerToAggregator, ReaderRemove, Fgets, FgetsEOF, ReaderToParser,
          ReaderToDataManager, ParserRemove, ParserInsert, AggregatorRemove, AggregatorToSub,
          AggregatorToOp, SubAggregatorFunction, OpAggregatorFunction, notAggregator
    <3>2. CASE Environment
      BY <3>2 DEF Environment, CreateFile, MoveFile, WriteFile, FileWatcherPause,
         FileWatcherWakeUp, OpenReport
    <3>3. CASE \/ StartWatch \/ TestPause \/ ReadEvents \/ CloseReport \/ OpenFile
               \/ UNCHANGED vars
      BY <3>3 DEF StartWatch, TestPause, ReadEvents, CloseReport, OpenFile, vars
    <3> QED
      BY <3>1, <3>2, <3>3, NextSteps
  <2> QED
    BY <2>1, <2>2, <2>3, <2>4, <2>5
<1> QED
  BY <1>1, <1>2, <1>3, <1>5, <1>6 DEF CrashInv

(* CrashHasACause: the process crashes over a stream only when as many      *)
(* files have come as it may open streams, or one that may have gone again, *)
(* or when a report may not be written; otherwise over a line that it has   *)
(* read, of those that spoil memory.                                        *)
THEOREM CrashHasACauseAlways == Spec => []CrashHasACause
<1>1. Init => CrashInv({})
  <2> SUFFICES ASSUME Init PROVE CrashInv({})
    OBVIOUS
  <2>1. StreamsAreOfFiles({})
    BY FS_EmptySet, EmptySeq DEF Init, StreamsAreOfFiles
  <2>2. NoNull
    BY DEF Init, NoNull
  <2> QED
    BY <2>1, <2>2 DEF Init, CrashInv
<1>2. CrashInv({}) => CrashHasACause
  BY present \ {} = present
  DEF CrashInv, FilesMayFail, ManyFiles, HarmfulLineRead, CrashHasACause
<1>3. TypeOK /\ LogInv /\ CrashInv({}) /\ [Next]_vars => CrashInv({})'
  BY CrashInvStep
<1> QED
  BY <1>1, <1>2, <1>3, LogInvAlways, PTL DEF Spec
=============================================================================
