-------------------------- MODULE UsageStore_proofs --------------------------
(***************************************************************************)
(* Theorems about the two aggregates and their reports, for any lines, any *)
(* keys and hash function, and any number of records and requests.         *)
(***************************************************************************)
EXTENDS UsageStore, SequenceTheorems, FiniteSetTheorems, TLAPS
-----------------------------------------------------------------------------
(* The fields that a record is added to.                                    *)

LEMMA FieldsOf ==
    /\ FieldSet("sub") = {"m_OutCallsWithMobOper", "m_InCallsWithMobOper",
                          "m_OutCallsOutOper", "m_InCallsOutOper", "m_SMS_sentWithOper",
                          "m_SMS_receivedWithOper", "m_SMS_sentOutOper",
                          "m_SMS_receivedOutOper", "m_MB_Download", "m_MB_Upload"}
    /\ FieldSet("op") = {"m_IMSI", "m_InCallsDuration", "m_OutCallsDuration",
                         "m_SMS_in", "m_SMS_out"}
<1>1. DOMAIN SubAggFields = 1 .. 10 /\ DOMAIN OpAggFields = 1 .. 5
  BY DEF SubAggFields, OpAggFields
<1>2. \A i : i \in 1 .. 5 <=> i = 1 \/ i = 2 \/ i = 3 \/ i = 4 \/ i = 5
  OBVIOUS
<1>3. \A i : i \in 1 .. 10 <=> \/ i = 1 \/ i = 2 \/ i = 3 \/ i = 4 \/ i = 5
                              \/ i = 6 \/ i = 7 \/ i = 8 \/ i = 9 \/ i = 10
  OBVIOUS
<1>4. Fields("op") = OpAggFields /\ Fields("sub") = SubAggFields
  BY DEF Fields
<1>5. FieldSet("op") = {OpAggFields[1], OpAggFields[2], OpAggFields[3], OpAggFields[4],
                        OpAggFields[5]}
  BY <1>1, <1>2, <1>4 DEF FieldSet
<1>6. FieldSet("sub") = {SubAggFields[1], SubAggFields[2], SubAggFields[3], SubAggFields[4],
                         SubAggFields[5], SubAggFields[6], SubAggFields[7],
                         SubAggFields[8], SubAggFields[9], SubAggFields[10]}
  BY <1>1, <1>3, <1>4 DEF FieldSet
<1> QED
  BY <1>5, <1>6 DEF SubAggFields, OpAggFields

LEMMA SubUpdatesOf ==
    ASSUME NEW call \in CallClass
    PROVE  /\ SubUpdates(call) \in Seq(FieldSet("sub"))
           /\ Len(SubUpdates(call)) <= 2
<1>1. call.type \in CallTypes /\ call.cross \in BOOLEAN
  BY DEF CallClass
<1>2. CASE call.type \in {"MOC", "MTC", "SMS_MO", "SMS_MT"}
  <2>1. SubUpdates(call) = <<SubField(SubFlags(call))>>
    BY <1>2 DEF SubUpdates, SubFlags
  <2>2. SubField(SubFlags(call)) \in FieldSet("sub")
    BY <1>1, <1>2, FieldsOf DEF SubField, SubFlags
  <2> QED
    BY <2>1, <2>2
<1>3. CASE call.type = "GPRS"
  <2>1. SubUpdates(call) = <<"m_MB_Download", "m_MB_Upload">>
    BY <1>3 DEF SubUpdates, SubFlags
  <2>2. "m_MB_Download" \in FieldSet("sub") /\ "m_MB_Upload" \in FieldSet("sub")
    BY FieldsOf
  <2> QED
    BY <2>1, <2>2
<1>4. CASE call.type = "other"
  <2>1. SubUpdates(call) = << >>
    BY <1>4 DEF SubUpdates, SubFlags
  <2> QED
    BY <2>1
<1> QED
  BY <1>1, <1>2, <1>3, <1>4 DEF CallTypes

LEMMA OpUpdatesOf ==
    ASSUME NEW call \in CallClass
    PROVE  /\ OpUpdates(call) \in Seq(FieldSet("op"))
           /\ Len(OpUpdates(call)) <= 2
<1>1. call.type \in CallTypes /\ call.cross \in BOOLEAN
  BY DEF CallClass
<1>2. "m_IMSI" \in FieldSet("op") /\ "m_InCallsDuration" \in FieldSet("op")
      /\ "m_OutCallsDuration" \in FieldSet("op") /\ "m_SMS_in" \in FieldSet("op")
      /\ "m_SMS_out" \in FieldSet("op")
  BY FieldsOf
<1> QED
  BY <1>1, <1>2 DEF OpUpdates, OperFlags

LEMMA UpdatesOf ==
    ASSUME TypeOK, NEW s \in Stores, NEW n \in Records
    PROVE  /\ Updates(s, n) \in Seq(FieldSet(s)) /\ Len(Updates(s, n)) <= 2
           /\ KeyOf(s, n) \in Keys
<1>1. arrived[n] \in [line : Lines, key : [Stores -> Keys], call : CallClass]
  BY ElementOfSeq DEF TypeOK, Records
<1>2. arrived[n].call \in CallClass /\ arrived[n].key[s] \in Keys
  BY <1>1
<1> QED
  BY <1>2, SubUpdatesOf, OpUpdatesOf DEF Updates, KeyOf, Stores
-----------------------------------------------------------------------------
(* Type correctness, with the thread that inserts into a store between its  *)
(* steps.                                                                   *)
ThreadOf(s) ==
    /\ ins[s].pc = "remove" => ins[s] = Idle
    /\ ins[s].pc # "remove" => ins[s].record = taken[s] /\ taken[s] > 0
    /\ ins[s].pc = "insert" => ins[s].aggregate = 0 /\ ins[s].step = 1
    /\ ins[s].pc = "update" =>
           /\ ins[s].aggregate \in Aggregate
           /\ aggregates[ins[s].aggregate].store = s
           /\ ins[s].step \in 1 .. Len(Updates(s, ins[s].record)) + 1

ThreadOK == \A s \in Stores : ThreadOf(s)

Typed == TypeOK /\ ThreadOK

AggregateTypes == aggregates \in Seq(AggregateOf("sub") \cup AggregateOf("op"))

LEMMA AggregatesAre ==
    ASSUME AggregateTypes, NEW a \in Aggregate
    PROVE  /\ aggregates[a].store \in Stores /\ aggregates[a].key \in Keys
           /\ aggregates[a] \in AggregateOf(aggregates[a].store)
           /\ aggregates[a].sum
                  \in [FieldSet(aggregates[a].store) -> SUBSET (1 .. taken[aggregates[a].store])]
BY ElementOfSeq DEF AggregateTypes, AggregateOf, Aggregate, Stores

(* What the thread works on.                                                *)
LEMMA InThread ==
    ASSUME Typed, NEW s \in Stores, ins[s].pc # "remove"
    PROVE  /\ ins[s].record \in Records /\ ins[s].record = taken[s]
           /\ ins[s].record \in 1 .. taken[s] /\ ins[s].record # 0
BY DEF Typed, TypeOK, ThreadOK, ThreadOf, Records

LEMMA InUpdate ==
    ASSUME Typed, NEW s \in Stores, InsertUpdate(s)
    PROVE  LET n == ins[s].record
               a == ins[s].aggregate
               field == Updates(s, n)[ins[s].step]
           IN /\ n \in Records /\ n \in 1 .. taken[s] /\ n = taken[s]
              /\ a \in Aggregate /\ aggregates[a].store = s
              /\ ins[s].step \in DOMAIN Updates(s, n)
              /\ field \in FieldSet(s)
              /\ Len(Updates(s, n)) <= 2
<1>1. ins[s].pc = "update" /\ ins[s].step <= Len(Updates(s, ins[s].record))
  BY DEF InsertUpdate
<1>2. ins[s].record \in Records /\ ins[s].record \in 1 .. taken[s]
      /\ ins[s].record = taken[s]
  BY <1>1, InThread
<1>3. /\ ins[s].aggregate \in Aggregate /\ aggregates[ins[s].aggregate].store = s
      /\ ins[s].step \in 1 .. Len(Updates(s, ins[s].record)) + 1
  BY <1>1 DEF Typed, ThreadOK, ThreadOf
<1>4. /\ Updates(s, ins[s].record) \in Seq(FieldSet(s))
      /\ Len(Updates(s, ins[s].record)) <= 2
  BY <1>2, UpdatesOf DEF Typed
<1>5. ins[s].step \in 1 .. Len(Updates(s, ins[s].record))
  BY <1>1, <1>3, <1>4
<1> QED
  BY <1>2, <1>3, <1>4, <1>5, ElementOfSeq

(* How the aggregates change.                                               *)
LEMMA UpdatedAggregates ==
    ASSUME Typed, NEW s \in Stores, InsertUpdate(s)
    PROVE  /\ AggregateTypes' /\ Aggregate' = Aggregate
           /\ \A b \in Aggregate :
                  /\ aggregates'[b].store = aggregates[b].store
                  /\ aggregates'[b].key = aggregates[b].key
                  /\ \A f \in FieldSet(aggregates[b].store) :
                         aggregates'[b].sum[f] =
                             IF b = ins[s].aggregate /\ f = Updates(s, ins[s].record)[ins[s].step]
                             THEN Added(f, aggregates[b].sum[f], ins[s].record)
                             ELSE aggregates[b].sum[f]
<1> DEFINE n == ins[s].record
           a == ins[s].aggregate
           field == Updates(s, n)[ins[s].step]
           sum == [aggregates[a].sum EXCEPT ![field] = Added(field, @, n)]
           new == [aggregates[a] EXCEPT !.sum = sum]
           T == AggregateOf("sub") \cup AggregateOf("op")
<1>1. /\ n \in 1 .. taken[s] /\ a \in Aggregate /\ aggregates[a].store = s
      /\ field \in FieldSet(s)
  BY InUpdate
<1>2. AggregateTypes
  BY DEF Typed, TypeOK, AggregateTypes
<1>3. aggregates[a] \in AggregateOf(s) /\ aggregates[a].sum \in [FieldSet(s) -> SUBSET (1 .. taken[s])]
  BY <1>1, <1>2, AggregatesAre
<1>4. aggregates' = [aggregates EXCEPT ![a] = new] /\ UNCHANGED taken
  BY DEF InsertUpdate
<1>5. Added(field, aggregates[a].sum[field], n) \in SUBSET (1 .. taken[s])
  BY <1>1, <1>3 DEF Added
<1>6. /\ new \in AggregateOf(s)
      /\ new.store = aggregates[a].store /\ new.key = aggregates[a].key
      /\ \A f \in FieldSet(s) :
             new.sum[f] = IF f = field THEN Added(f, aggregates[a].sum[f], n)
                          ELSE aggregates[a].sum[f]
  <2>1. sum \in [FieldSet(s) -> SUBSET (1 .. taken[s])]
    BY <1>1, <1>3, <1>5
  <2>2. \A f \in FieldSet(s) : sum[f] = IF f = field THEN Added(f, aggregates[a].sum[f], n)
                                         ELSE aggregates[a].sum[f]
    BY <1>1, <1>3
  <2> HIDE DEF sum
  <2>3. new \in AggregateOf(s) /\ new.store = aggregates[a].store
        /\ new.key = aggregates[a].key /\ new.sum = sum
    BY <1>3, <2>1 DEF AggregateOf
  <2> QED
    BY <2>2, <2>3
<1> HIDE DEF new
<1>7. new \in T
  BY <1>6 DEF Stores
<1>8. aggregates' \in Seq(T) /\ Len(aggregates') = Len(aggregates)
  BY <1>1, <1>2, <1>4, <1>7, ExceptSeq DEF AggregateTypes, Aggregate
<1>9. \A b \in Aggregate : aggregates'[b] = IF b = a THEN new ELSE aggregates[b]
  BY <1>2, <1>4 DEF AggregateTypes, Aggregate
<1> QED
  BY <1>1, <1>4, <1>6, <1>8, <1>9 DEF AggregateTypes, Aggregate, AggregateOf, FieldSet, Fields

LEMMA AddedAggregate ==
    ASSUME Typed, NEW s \in Stores, InsertNew(s)
    PROVE  /\ AggregateTypes'
           /\ Len(aggregates) \in Nat /\ Len(aggregates') = Len(aggregates) + 1
           /\ \A b \in Aggregate : aggregates'[b] = aggregates[b] /\ b \in Aggregate'
           /\ aggregates'[Len(aggregates')].store = s
           /\ aggregates'[Len(aggregates')].key = KeyOf(s, ins[s].record)
           /\ \A f \in FieldSet(s) : aggregates'[Len(aggregates')].sum[f] = {}
<1> DEFINE T == AggregateOf("sub") \cup AggregateOf("op")
<1>0. PICK new : new = [store |-> s, key |-> KeyOf(s, ins[s].record),
                        sum |-> [field \in FieldSet(s) |-> {}]]
  OBVIOUS
<1>1. aggregates' = Append(aggregates, new) /\ UNCHANGED taken /\ ins[s].pc = "insert"
  BY <1>0 DEF InsertNew
<1>2. KeyOf(s, ins[s].record) \in Keys
  <2>1. ins[s].record \in Records
    BY <1>1, InThread
  <2> QED
    BY <2>1, UpdatesOf DEF Typed
<1>3. new \in T
  BY <1>0, <1>2 DEF AggregateOf, Stores
<1>4. aggregates \in Seq(T)
  BY DEF Typed, TypeOK
<1>5. /\ aggregates' \in Seq(T) /\ Len(aggregates') = Len(aggregates) + 1
      /\ \A b \in Aggregate : aggregates'[b] = aggregates[b]
      /\ aggregates'[Len(aggregates')] = new
  BY <1>1, <1>3, <1>4, AppendProperties DEF Aggregate
<1>6. AggregateTypes'
  BY <1>1, <1>5 DEF AggregateTypes, AggregateOf, FieldSet, Fields
<1>7. Len(aggregates) \in Nat
  BY <1>4, LenProperties
<1>8. \A b \in Aggregate : b \in Aggregate'
  BY <1>5, <1>7 DEF Aggregate
<1>9. new.store = s /\ new.key = KeyOf(s, ins[s].record)
      /\ \A f \in FieldSet(s) : new.sum[f] = {}
  BY <1>0
<1> QED
  BY <1>5, <1>6, <1>7, <1>8, <1>9

(* A record that has come stays what it is.                                 *)
LEMMA SameRecords ==
    ASSUME TypeOK, NEW line \in Lines, Arrive(line)
    PROVE  /\ Len(arrived') = Len(arrived) + 1 /\ Len(arrived) \in Nat
           /\ arrived' \in Seq([line : Lines, key : [Stores -> Keys], call : CallClass])
           /\ \A n \in Records : arrived'[n] = arrived[n] /\ n \in Records'
<1> DEFINE R == [line : Lines, key : [Stores -> Keys], call : CallClass]
<1>1. arrived \in Seq(R)
  BY DEF TypeOK
<1>2. PICK record \in RecordsOf(line, Garbage) :
          arrived' = Append(arrived, [line |-> line, key |-> record.key, call |-> record.call])
  BY DEF Arrive
<1>3. [line |-> line, key |-> record.key, call |-> record.call] \in R
  BY UsageStoreAssumption
<1> QED
  BY <1>1, <1>2, <1>3, AppendProperties, LenProperties DEF Records

LEMMA SameUpdates ==
    ASSUME NEW s \in Stores, NEW n, arrived'[n] = arrived[n]
    PROVE  Updates(s, n)' = Updates(s, n) /\ KeyOf(s, n)' = KeyOf(s, n)
BY DEF Updates, KeyOf

(* A matching aggregate is one of the store.                                *)
LEMMA MatchingAre ==
    ASSUME TypeOK, NEW s \in Stores, NEW k, NEW a \in Matching(s, k)
    PROVE  a \in Aggregate /\ a \in map[s] /\ aggregates[a].store = s
BY DEF TypeOK, Matching

(* What a report request takes out of a map.                                *)
LEMMA TakenOut ==
    ASSUME TypeOK, NEW s \in Stores, NEW k, ReportKey(s, k)
    PROVE  /\ UNCHANGED <<arrived, taken, ins, aggregates, subRepQueue, writer, reports>>
           /\ \/ UNCHANGED <<map, repGenQueue>>
              \/ \E a \in map[s] :
                    /\ a \in Aggregate /\ aggregates[a].store = s
                    /\ map' = [map EXCEPT ![s] = map[s] \ {a}]
                    /\ repGenQueue' = Append(repGenQueue, a)
<1>1. UNCHANGED <<arrived, taken, ins, aggregates, subRepQueue, writer, reports>>
  BY DEF ReportKey
<1>2. CASE \E a \in Matching(s, k) : /\ map' = [map EXCEPT ![s] = InMapAfter(s, a)]
                                     /\ repGenQueue' = Append(repGenQueue, a)
  BY <1>1, <1>2, MatchingAre DEF InMapAfter
<1> QED
  BY <1>1, <1>2 DEF ReportKey
-----------------------------------------------------------------------------
LEMMA TypedInit == Init => Typed
<1> SUFFICES ASSUME Init PROVE Typed
  OBVIOUS
<1>1. MaxRecords \in Nat /\ MaxRequests \in Nat
  BY UsageStoreAssumption
<1>2. Idle \in [pc : {"remove", "insert", "update"}, record : 0 .. MaxRecords,
                aggregate : 0 .. 0, step : 0 .. 3]
  BY <1>1 DEF Idle
<1>3. NoReport \in [aggregate : 0 .. 0, lines : Seq(SUBSET Nat)] /\ Len(NoReport.lines) = 0
  BY EmptySeq DEF NoReport
<1>4. 0 <= Len(PrintedFields)
  BY DEF PrintedFields
<1>5. crashed \in BOOLEAN
  BY DEF Init
<1>6. TypeOK
  BY <1>1, <1>2, <1>3, <1>4, <1>5, EmptySeq DEF Init, TypeOK, Aggregate
<1>7. ThreadOK
  BY DEF Init, ThreadOK, ThreadOf, Idle
<1> QED
  BY <1>6, <1>7 DEF Typed

InsTypes ==
    ins \in [Stores -> [pc : {"remove", "insert", "update"}, record : 0 .. MaxRecords,
                        aggregate : 0 .. Len(aggregates), step : 0 .. 3]]

LEMMA TypedArrive ==
    ASSUME Typed, NEW line \in Lines, Arrive(line)
    PROVE  Typed'
<1>1. UNCHANGED <<taken, ins, aggregates, map, requests, repGenQueue, subRepQueue,
                  writer, reports, crashed>>
  BY DEF Arrive
<1>2. Len(arrived) < MaxRecords /\ MaxRecords \in Nat
  BY UsageStoreAssumption DEF Arrive
<1>3. TypeOK'
  <2>1. taken' \in [Stores -> 0 .. Len(arrived')] /\ Len(arrived') <= MaxRecords
    BY <1>1, <1>2, SameRecords DEF Typed, TypeOK
  <2>2. AggregateOf("sub")' = AggregateOf("sub") /\ AggregateOf("op")' = AggregateOf("op")
    BY <1>1 DEF AggregateOf, FieldSet, Fields
  <2> QED
    BY <1>1, <2>1, <2>2, SameRecords DEF Typed, TypeOK, Aggregate
<1>4. ThreadOK'
  <2> SUFFICES ASSUME NEW s \in Stores PROVE ThreadOf(s)'
    BY DEF ThreadOK
  <2>1. ThreadOf(s)
    BY DEF Typed, ThreadOK
  <2>2. ins[s].pc # "remove" => Updates(s, ins[s].record)' = Updates(s, ins[s].record)
    BY <1>1, InThread, SameRecords, SameUpdates DEF Typed
  <2> QED
    BY <1>1, <2>1, <2>2 DEF ThreadOf, Aggregate
<1> QED
  BY <1>3, <1>4 DEF Typed

LEMMA TypedFind ==
    ASSUME Typed, NEW s \in Stores, InsertFind(s)
    PROVE  Typed'
<1> DEFINE n == taken[s] + 1
           thread(pc, a) == [pc |-> pc, record |-> n, aggregate |-> a, step |-> 1]
           Threads == [pc : {"remove", "insert", "update"}, record : 1 .. MaxRecords,
                       aggregate : 0 .. Len(aggregates), step : {1}]
<1>1. UNCHANGED <<arrived, aggregates, map, requests, repGenQueue, subRepQueue,
                  writer, reports, crashed>>
  BY DEF InsertFind
<1>2. /\ taken' = [taken EXCEPT ![s] = n] /\ n \in Records /\ n \in 1 .. MaxRecords
      /\ taken[s] \in Nat /\ Len(arrived) \in Nat
  BY UsageStoreAssumption DEF InsertFind, Typed, TypeOK, Records
<1>3. PICK th \in Threads :
          /\ ins' = [ins EXCEPT ![s] = th]
          /\ th.pc # "remove" /\ th.record = n
          /\ th.pc = "insert" => th.aggregate = 0
          /\ th.pc = "update" => th.aggregate \in Aggregate
                                 /\ aggregates[th.aggregate].store = s
  <2>1. Len(aggregates) \in Nat
    BY LenProperties DEF Typed, TypeOK
  <2>2. CASE \E a \in Matching(s, KeyOf(s, n)) :
                ins' = [ins EXCEPT ![s] = thread("update", a)]
    <3>1. PICK a \in Matching(s, KeyOf(s, n)) : ins' = [ins EXCEPT ![s] = thread("update", a)]
      BY <2>2
    <3>2. a \in Aggregate /\ aggregates[a].store = s
      BY <3>1, MatchingAre DEF Typed
    <3>3. thread("update", a) \in Threads
      BY <1>2, <2>1, <3>2 DEF Aggregate
    <3> QED
      BY <3>1, <3>2, <3>3
  <2>3. CASE ins' = [ins EXCEPT ![s] = thread("insert", 0)]
    <3>1. thread("insert", 0) \in Threads
      BY <1>2, <2>1
    <3> QED
      BY <2>3, <3>1
  <2> QED
    BY <2>2, <2>3 DEF InsertFind
<1>4. taken' \in [Stores -> 0 .. Len(arrived)] /\ \A t \in Stores : taken[t] <= taken'[t]
  BY <1>2 DEF Typed, TypeOK, Records
<1>5. AggregateTypes'
  <2>1. \A t \in Stores : AggregateOf(t) \subseteq AggregateOf(t)'
    <3> SUFFICES ASSUME NEW t \in Stores, NEW x \in AggregateOf(t)
                 PROVE  x \in AggregateOf(t)'
      OBVIOUS
    <3>1. FieldSet(t)' = FieldSet(t) /\ SUBSET (1 .. taken[t]) \subseteq SUBSET (1 .. taken'[t])
      BY <1>4 DEF FieldSet, Fields, Typed, TypeOK
    <3> QED
      BY <3>1 DEF AggregateOf
  <2>2. (AggregateOf("sub") \cup AggregateOf("op"))
            \subseteq (AggregateOf("sub") \cup AggregateOf("op"))'
    BY <2>1 DEF Stores
  <2> QED
    BY <1>1, <2>2, SeqMonotonic DEF AggregateTypes, Typed, TypeOK
<1>6. InsTypes'
  BY <1>1, <1>3, UsageStoreAssumption DEF InsTypes, Typed, TypeOK
<1>7. TypeOK'
  BY <1>1, <1>4, <1>5, <1>6 DEF Typed, TypeOK, Aggregate, AggregateTypes, InsTypes
<1>8. ThreadOK'
  <2> SUFFICES ASSUME NEW t \in Stores PROVE ThreadOf(t)'
    BY DEF ThreadOK
  <2>1. CASE t = s
    <3>1. ins'[s] = th /\ taken'[s] = n
      BY <1>2, <1>3 DEF Typed, TypeOK
    <3>2. Updates(s, n) \in Seq(FieldSet(s))
      BY <1>2, UpdatesOf DEF Typed
    <3>3. Len(Updates(s, n)) \in Nat
      BY <3>2, LenProperties
    <3> QED
      BY <1>1, <1>2, <1>3, <2>1, <3>1, <3>3 DEF ThreadOf, Aggregate, Updates
  <2>2. CASE t # s
    <3>1. ins'[t] = ins[t] /\ taken'[t] = taken[t] /\ ThreadOf(t)
      BY <1>2, <1>3, <2>2 DEF Typed, TypeOK, ThreadOK
    <3> QED
      BY <1>1, <3>1 DEF ThreadOf, Aggregate, Updates
  <2> QED
    BY <2>1, <2>2
<1> QED
  BY <1>7, <1>8 DEF Typed
-----------------------------------------------------------------------------
(* The lines of a report.                                                   *)

LEMMA PlacesOf ==
    \A i \in DOMAIN PrintedFields :
        Place(PrintedFields[i]) \in 1 .. 10
<1> SUFFICES ASSUME NEW i \in DOMAIN PrintedFields PROVE Place(PrintedFields[i]) \in 1 .. 10
  OBVIOUS
<1>1. i \in 1 .. 10 /\ DOMAIN SubAggFields = 1 .. 10
  BY DEF PrintedFields, SubAggFields
<1>2. \E j \in DOMAIN SubAggFields : SubAggFields[j] = PrintedFields[i]
  <2>1. i = 1 \/ i = 2 \/ i = 3 \/ i = 4 \/ i = 5 \/ i = 6 \/ i = 7 \/ i = 8 \/ i = 9 \/ i = 10
    BY <1>1
  <2>2. CASE i = 4
    BY <2>2 DEF PrintedFields, SubAggFields
  <2>3. CASE i = 10
    BY <2>3 DEF PrintedFields, SubAggFields
  <2>4. CASE i # 4 /\ i # 10
    <3>1. SubAggFields[i] = PrintedFields[i]
      BY <2>1, <2>4 DEF PrintedFields, SubAggFields
    <3> QED
      BY <1>1, <3>1
  <2> QED
    BY <2>2, <2>3, <2>4
<1> QED
  BY <1>1, <1>2 DEF Place

(* A line prints a sum of the aggregate, or what lies behind it.            *)
LEMMA PrintedIsSum ==
    ASSUME AggregateTypes, NEW a \in Aggregate, NEW i \in DOMAIN PrintedFields
    PROVE  \/ \E f \in FieldSet(aggregates[a].store) : PrintedAt(a, i) = aggregates[a].sum[f]
           \/ PrintedAt(a, i) = Behind
<1> DEFINE p == Place(PrintedFields[i])
           fields == Fields(aggregates[a].store)
<1>1. p \in 1 .. 10
  BY PlacesOf
<1>2. aggregates[a].store \in Stores
  BY AggregatesAre
<1>3. DOMAIN fields = 1 .. Len(fields)
  <2>1. DOMAIN SubAggFields = 1 .. Len(SubAggFields) /\ DOMAIN OpAggFields = 1 .. Len(OpAggFields)
    BY DEF SubAggFields, OpAggFields
  <2>2. fields = SubAggFields \/ fields = OpAggFields
    BY <1>2 DEF Fields, Stores
  <2> QED
    BY <2>1, <2>2
<1> HIDE DEF p
<1>4. CASE p <= Len(fields)
  <2>1. p \in DOMAIN fields
    BY <1>1, <1>3, <1>4
  <2>2. fields[p] \in FieldSet(aggregates[a].store)
    BY <2>1 DEF FieldSet
  <2>3. PrintedAt(a, i) = aggregates[a].sum[fields[p]]
    BY <1>4 DEF PrintedAt, ReadAt, p
  <2> QED
    BY <2>2, <2>3
<1>5. CASE ~(p <= Len(fields))
  BY <1>5 DEF PrintedAt, ReadAt, p
<1> QED
  BY <1>4, <1>5

LEMMA PrintedAreRecords ==
    ASSUME AggregateTypes, taken \in [Stores -> Nat],
           NEW a \in Aggregate, NEW i \in DOMAIN PrintedFields
    PROVE  PrintedAt(a, i) \in SUBSET Nat
<1>1. \A f \in FieldSet(aggregates[a].store) : aggregates[a].sum[f] \in SUBSET Nat
  BY AggregatesAre
<1> QED
  BY <1>1, PrintedIsSum DEF Behind

(* The other variables' types, when there are only more aggregates.         *)
RestTypes ==
    /\ map \in [Stores -> SUBSET Aggregate]
    /\ \A s \in Stores : \A a \in map[s] : aggregates[a].store = s
    /\ repGenQueue \in Seq(Aggregate) /\ subRepQueue \in Seq(Aggregate)
    /\ writer \in [aggregate : 0 .. Len(aggregates), lines : Seq(SUBSET Nat)]
    /\ Len(writer.lines) <= Len(PrintedFields)
    /\ reports \in Seq([aggregate : Aggregate, lines : [1 .. Len(PrintedFields) -> SUBSET Nat]])

LEMMA TypedNew ==
    ASSUME Typed, NEW s \in Stores, InsertNew(s)
    PROVE  Typed'
<1> DEFINE new == Len(aggregates')
<1>1. /\ UNCHANGED <<arrived, taken, requests, repGenQueue, subRepQueue, writer, reports,
                     crashed>>
      /\ map' = [map EXCEPT ![s] = @ \cup {new}]
      /\ ins' = [ins EXCEPT ![s].pc = "update", ![s].aggregate = new]
      /\ ins[s].pc = "insert"
  BY DEF InsertNew, InMapWith
<1>2. /\ AggregateTypes' /\ Len(aggregates) \in Nat /\ new = Len(aggregates) + 1
      /\ \A b \in Aggregate : aggregates'[b] = aggregates[b] /\ b \in Aggregate'
      /\ aggregates'[new].store = s
  BY AddedAggregate
<1>3. new \in Aggregate' /\ Aggregate \subseteq Aggregate' /\ new \in Nat
  BY <1>2 DEF Aggregate
<1> HIDE DEF new
<1>4. ins'[s] = [pc |-> "update", record |-> ins[s].record, aggregate |-> new, step |-> 1]
  <2>1. ins'[s] = [ins[s] EXCEPT !.pc = "update", !.aggregate = new]
    BY <1>1 DEF Typed, TypeOK
  <2>2. ins[s] \in [pc : {"remove", "insert", "update"}, record : 0 .. MaxRecords,
                    aggregate : 0 .. Len(aggregates), step : 0 .. 3]
    BY DEF Typed, TypeOK
  <2>3. ins[s].step = 1
    BY <1>1 DEF Typed, ThreadOK, ThreadOf
  <2> QED
    BY <2>1, <2>2, <2>3
<1>5. \A t \in Stores : t # s => ins'[t] = ins[t]
  BY <1>1 DEF Typed, TypeOK
<1>6. InsTypes'
  <2>1. \A t \in Stores : ins'[t] \in [pc : {"remove", "insert", "update"},
                                       record : 0 .. MaxRecords,
                                       aggregate : 0 .. new, step : 0 .. 3]
    <3> SUFFICES ASSUME NEW t \in Stores
                 PROVE  ins'[t] \in [pc : {"remove", "insert", "update"},
                                     record : 0 .. MaxRecords,
                                     aggregate : 0 .. new, step : 0 .. 3]
      OBVIOUS
    <3>1. ins[t] \in [pc : {"remove", "insert", "update"}, record : 0 .. MaxRecords,
                      aggregate : 0 .. Len(aggregates), step : 0 .. 3]
          /\ ins[s].record \in 0 .. MaxRecords
      BY DEF Typed, TypeOK
    <3>2. CASE t = s
      BY <1>3, <1>4, <3>1, <3>2
    <3>3. CASE t # s
      BY <1>2, <1>5, <3>1, <3>3
    <3> QED
      BY <3>2, <3>3
  <2>2. ins' = [t \in Stores |-> ins'[t]]
    BY <1>1 DEF Typed, TypeOK
  <2> QED
    BY <2>1, <2>2 DEF InsTypes, new
<1>7. RestTypes'
  <2>1. map' \in [Stores -> SUBSET Aggregate']
    BY <1>1, <1>3 DEF Typed, TypeOK
  <2>2. \A t \in Stores : \A a \in map'[t] : aggregates'[a].store = t
    BY <1>1, <1>2 DEF Typed, TypeOK
  <2>3. repGenQueue' \in Seq(Aggregate') /\ subRepQueue' \in Seq(Aggregate')
    BY <1>1, <1>3, SeqMonotonic DEF Typed, TypeOK
  <2>4. writer' \in [aggregate : 0 .. new, lines : Seq(SUBSET Nat)]
    BY <1>1, <1>2 DEF Typed, TypeOK
  <2>5. reports' \in Seq([aggregate : Aggregate', lines : [1 .. Len(PrintedFields) -> SUBSET Nat]])
    BY <1>1, <1>3, SeqMonotonic DEF Typed, TypeOK
  <2> QED
    BY <1>1, <2>1, <2>2, <2>3, <2>4, <2>5 DEF RestTypes, Typed, TypeOK, new
<1>8. TypeOK'
  BY <1>1, <1>2, <1>6, <1>7 DEF Typed, TypeOK, RestTypes, InsTypes, AggregateTypes
<1>9. ThreadOK'
  <2> SUFFICES ASSUME NEW t \in Stores PROVE ThreadOf(t)'
    BY DEF ThreadOK
  <2>0. ThreadOf(t)
    BY DEF Typed, ThreadOK
  <2>1. CASE t = s
    <3>1. Updates(s, ins[s].record) \in Seq(FieldSet(s)) /\ UNCHANGED Updates(s, ins[s].record)
      BY <1>1, <1>4, InThread, UpdatesOf DEF Typed, Updates
    <3>2. 1 \in 1 .. Len(Updates(s, ins[s].record)) + 1
      BY <3>1, LenProperties
    <3> QED
      BY <1>1, <1>2, <1>3, <1>4, <2>0, <2>1, <3>1, <3>2 DEF ThreadOf
  <2>2. CASE t # s
    BY <1>1, <1>2, <1>5, <2>0, <2>2 DEF ThreadOf, Updates
  <2> QED
    BY <2>1, <2>2
<1> QED
  BY <1>8, <1>9 DEF Typed

LEMMA TypedUpdate ==
    ASSUME Typed, NEW s \in Stores, InsertUpdate(s)
    PROVE  Typed'
<1>1. /\ UNCHANGED <<arrived, taken, map, requests, repGenQueue, subRepQueue, writer,
                     reports, crashed>>
      /\ ins' = [ins EXCEPT ![s].step = @ + 1]
      /\ ins[s].pc = "update"
  BY DEF InsertUpdate
<1>2. /\ AggregateTypes' /\ Len(aggregates') = Len(aggregates)
      /\ \A b \in Aggregate : aggregates'[b].store = aggregates[b].store
  <2>1. Aggregate' = Aggregate /\ AggregateTypes'
    BY UpdatedAggregates
  <2>2. Len(aggregates') \in Nat /\ Len(aggregates) \in Nat
    BY <2>1, LenProperties DEF Typed, TypeOK, AggregateTypes
  <2> QED
    BY <2>1, <2>2, UpdatedAggregates DEF Aggregate
<1>3. /\ ins[s].step \in DOMAIN Updates(s, ins[s].record)
      /\ Len(Updates(s, ins[s].record)) <= 2
  BY InUpdate
<1>4. Updates(s, ins[s].record) \in Seq(FieldSet(s))
  BY InUpdate, UpdatesOf DEF Typed
<1>5. ins[s].step \in 1 .. Len(Updates(s, ins[s].record))
      /\ Len(Updates(s, ins[s].record)) \in Nat
  BY <1>3, <1>4, LenProperties
<1>6. InsTypes'
  <2>1. ins[s] \in [pc : {"remove", "insert", "update"}, record : 0 .. MaxRecords,
                    aggregate : 0 .. Len(aggregates), step : 0 .. 3]
    BY DEF Typed, TypeOK
  <2>2. ins[s].step + 1 \in 0 .. 3
    BY <1>3, <1>5
  <2>3. [ins[s] EXCEPT !.step = @ + 1]
            \in [pc : {"remove", "insert", "update"}, record : 0 .. MaxRecords,
                aggregate : 0 .. Len(aggregates), step : 0 .. 3]
    BY <2>1, <2>2
  <2> QED
    BY <1>1, <1>2, <2>3 DEF InsTypes, Typed, TypeOK
<1>7. RestTypes'
  BY <1>1, <1>2 DEF RestTypes, Typed, TypeOK, Aggregate
<1>8. TypeOK'
  BY <1>1, <1>2, <1>6, <1>7 DEF Typed, TypeOK, RestTypes, InsTypes, AggregateTypes
<1>9. ThreadOK'
  <2> SUFFICES ASSUME NEW t \in Stores PROVE ThreadOf(t)'
    BY DEF ThreadOK
  <2>0. ThreadOf(t)
    BY DEF Typed, ThreadOK
  <2>1. CASE t = s
    <3>1. /\ ins'[s].step = ins[s].step + 1 /\ ins'[s].pc = "update"
          /\ ins'[s].record = ins[s].record /\ ins'[s].aggregate = ins[s].aggregate
      BY <1>1 DEF Typed, TypeOK
    <3>2. ins[s].step + 1 \in 1 .. Len(Updates(s, ins[s].record)) + 1
      BY <1>5
    <3>3. Updates(s, ins[s].record)' = Updates(s, ins[s].record) /\ Aggregate' = Aggregate
      BY <1>1, <1>2, <3>1 DEF Updates, Aggregate
    <3> QED
      BY <1>1, <1>2, <2>0, <2>1, <3>1, <3>2, <3>3 DEF ThreadOf
  <2>2. CASE t # s
    <3>1. ins'[t] = ins[t]
      BY <1>1, <2>2 DEF Typed, TypeOK
    <3> QED
      BY <1>1, <1>2, <2>0, <2>2, <3>1 DEF ThreadOf, Updates, Aggregate
  <2> QED
    BY <2>1, <2>2
<1> QED
  BY <1>8, <1>9 DEF Typed

LEMMA TypedDone ==
    ASSUME Typed, NEW s \in Stores, InsertDone(s)
    PROVE  Typed'
<1>1. /\ UNCHANGED <<arrived, taken, aggregates, map, requests, repGenQueue, subRepQueue,
                     writer, reports, crashed>>
      /\ ins' = [ins EXCEPT ![s] = Idle]
  BY DEF InsertDone
<1>2. InsTypes'
  <2>1. Len(aggregates) \in Nat
    BY LenProperties DEF Typed, TypeOK
  <2>2. Idle \in [pc : {"remove", "insert", "update"}, record : 0 .. MaxRecords,
                  aggregate : 0 .. Len(aggregates), step : 0 .. 3]
    BY <2>1, UsageStoreAssumption DEF Idle
  <2> QED
    BY <1>1, <2>2 DEF InsTypes, Typed, TypeOK
<1>3. TypeOK'
  BY <1>1, <1>2 DEF InsTypes, Typed, TypeOK, AggregateOf, Aggregate
<1>4. ThreadOK'
  <2> SUFFICES ASSUME NEW t \in Stores PROVE ThreadOf(t)'
    BY DEF ThreadOK
  <2>1. ThreadOf(t) /\ ins'[t] = IF t = s THEN Idle ELSE ins[t]
    BY <1>1 DEF Typed, TypeOK, ThreadOK
  <2> QED
    BY <1>1, <2>1 DEF ThreadOf, Idle, Aggregate, Updates
<1> QED
  BY <1>3, <1>4 DEF Typed

(* A step of the reports leaves the threads alone.                          *)
LEMMA SameThreads ==
    ASSUME ThreadOK, UNCHANGED <<arrived, taken, ins, aggregates>>
    PROVE  ThreadOK'
BY DEF ThreadOK, ThreadOf, Updates, Aggregate

LEMMA TypedReports ==
    ASSUME Typed,
           \/ \E s \in Stores, k \in Keys : ReportKey(s, k)
           \/ ReportGeneratorFunction \/ SubReportGeneratorFunction
    PROVE  Typed'
<1>1. UNCHANGED <<arrived, taken, ins, aggregates>>
  BY DEF ReportKey, ReportGeneratorFunction, SubReportGeneratorFunction, OpenReport,
         PrintLine, CloseReport
<1>2. RestTypes /\ Len(aggregates) \in Nat
  BY LenProperties DEF RestTypes, Typed, TypeOK
<1>3. RestTypes' /\ requests' \in 0 .. MaxRequests
  <2>1. requests \in 0 .. MaxRequests /\ MaxRequests \in Nat
    BY UsageStoreAssumption DEF Typed, TypeOK
  <2>2. ASSUME NEW s \in Stores, NEW k \in Keys, ReportKey(s, k)
        PROVE  RestTypes' /\ requests' \in 0 .. MaxRequests
    <3>1. requests' \in 0 .. MaxRequests
      BY <2>1, <2>2 DEF ReportKey
    <3>2. UNCHANGED <<aggregates, subRepQueue, writer, reports>>
      BY <2>2 DEF ReportKey
    <3>3. CASE UNCHANGED <<map, repGenQueue>>
      BY <1>2, <3>1, <3>2, <3>3 DEF RestTypes, Aggregate
    <3>4. CASE \E a \in Matching(s, k) : /\ map' = [map EXCEPT ![s] = InMapAfter(s, a)]
                                         /\ repGenQueue' = Append(repGenQueue, a)
      <4>1. PICK a \in Matching(s, k) : /\ map' = [map EXCEPT ![s] = map[s] \ {a}]
                                        /\ repGenQueue' = Append(repGenQueue, a)
        BY <3>4 DEF InMapAfter
      <4>2. a \in Aggregate
        BY MatchingAre DEF Typed
      <4>3. repGenQueue' \in Seq(Aggregate)
        BY <1>2, <4>1, <4>2, AppendProperties DEF RestTypes
      <4>4. map' \in [Stores -> SUBSET Aggregate] /\ \A t \in Stores : map'[t] \subseteq map[t]
        BY <1>2, <4>1 DEF RestTypes
      <4> QED
        BY <1>2, <3>1, <3>2, <4>3, <4>4 DEF RestTypes, Aggregate
    <3> QED
      BY <2>2, <3>3, <3>4 DEF ReportKey
  <2>3. CASE ReportGeneratorFunction
    <3>1. /\ repGenQueue # << >> /\ repGenQueue' = Tail(repGenQueue)
          /\ subRepQueue' = Append(subRepQueue, Head(repGenQueue))
          /\ UNCHANGED <<map, requests, writer, reports>>
      BY <2>3 DEF ReportGeneratorFunction, Forwarded
    <3>2. Head(repGenQueue) \in Aggregate /\ Tail(repGenQueue) \in Seq(Aggregate)
      BY <1>2, <3>1, HeadTailProperties DEF RestTypes
    <3>3. subRepQueue' \in Seq(Aggregate)
      BY <1>2, <3>1, <3>2, AppendProperties DEF RestTypes
    <3> QED
      BY <1>1, <1>2, <2>1, <3>1, <3>2, <3>3 DEF RestTypes, Aggregate
  <2>4. CASE OpenReport
    <3>1. /\ subRepQueue # << >> /\ subRepQueue' = Tail(subRepQueue)
          /\ writer' = [aggregate |-> Head(subRepQueue), lines |-> << >>]
          /\ UNCHANGED <<map, requests, repGenQueue, reports>>
      BY <2>4 DEF OpenReport
    <3>2. Head(subRepQueue) \in Aggregate /\ Tail(subRepQueue) \in Seq(Aggregate)
      BY <1>2, <3>1, HeadTailProperties DEF RestTypes
    <3>3. writer' \in [aggregate : 0 .. Len(aggregates), lines : Seq(SUBSET Nat)]
      BY <1>2, <3>1, <3>2, EmptySeq DEF Aggregate
    <3>4. Len(writer'.lines) <= Len(PrintedFields)
      BY <3>1 DEF PrintedFields
    <3> QED
      BY <1>1, <1>2, <2>1, <3>1, <3>2, <3>3, <3>4 DEF RestTypes, Aggregate
  <2>5. CASE PrintLine
    <3> DEFINE value == PrintedAt(writer.aggregate, Len(writer.lines) + 1)
    <3>1. /\ writer.aggregate # 0 /\ Len(writer.lines) < Len(PrintedFields)
          /\ writer' = [writer EXCEPT !.lines = Append(@, value)]
          /\ UNCHANGED <<map, requests, repGenQueue, subRepQueue, reports>>
      BY <2>5 DEF PrintLine
    <3>2. writer.aggregate \in Aggregate
      BY <1>2, <3>1 DEF RestTypes, Aggregate
    <3>3. value \in SUBSET Nat
      <4>1. taken \in [Stores -> Nat] /\ AggregateTypes
        BY DEF Typed, TypeOK, AggregateTypes
      <4>2. Len(writer.lines) + 1 \in DOMAIN PrintedFields
        BY <1>2, <3>1, LenProperties DEF RestTypes, PrintedFields
      <4> QED
        BY <3>2, <4>1, <4>2, PrintedAreRecords
    <3>4. Append(writer.lines, value) \in Seq(SUBSET Nat)
          /\ Len(Append(writer.lines, value)) <= Len(PrintedFields)
      BY <1>2, <3>1, <3>3, AppendProperties, LenProperties DEF RestTypes, PrintedFields
    <3> QED
      BY <1>1, <1>2, <2>1, <3>1, <3>4 DEF RestTypes, Aggregate
  <2>6. CASE CloseReport
    <3>1. /\ writer.aggregate # 0 /\ Len(writer.lines) = Len(PrintedFields)
          /\ reports' = Append(reports, writer) /\ writer' = NoReport
          /\ UNCHANGED <<map, requests, repGenQueue, subRepQueue>>
      BY <2>6 DEF CloseReport
    <3>2. writer.lines \in [1 .. Len(PrintedFields) -> SUBSET Nat]
      BY <1>2, <3>1, LenProperties DEF RestTypes
    <3>3. writer \in [aggregate : Aggregate, lines : [1 .. Len(PrintedFields) -> SUBSET Nat]]
      BY <1>2, <3>1, <3>2 DEF RestTypes, Aggregate
    <3>4. reports' \in Seq([aggregate : Aggregate, lines : [1 .. Len(PrintedFields) -> SUBSET Nat]])
      BY <1>2, <3>1, <3>3, AppendProperties DEF RestTypes
    <3>5. writer' \in [aggregate : 0 .. Len(aggregates), lines : Seq(SUBSET Nat)]
          /\ Len(writer'.lines) <= Len(PrintedFields)
      BY <1>2, <3>1, EmptySeq DEF NoReport, PrintedFields
    <3> QED
      BY <1>1, <1>2, <2>1, <3>1, <3>4, <3>5 DEF RestTypes, Aggregate
  <2> QED
    BY <2>2, <2>3, <2>4, <2>5, <2>6 DEF SubReportGeneratorFunction
<1>4. crashed' \in BOOLEAN
  BY DEF ReportKey, ReportGeneratorFunction, SubReportGeneratorFunction, OpenReport,
         PrintLine, CloseReport, Typed, TypeOK
<1>5. TypeOK'
  BY <1>1, <1>3, <1>4 DEF RestTypes, Typed, TypeOK, AggregateOf, Aggregate
<1> QED
  BY <1>1, <1>5, SameThreads DEF Typed

LEMMA TypedNext == Typed /\ [Next]_vars => Typed'
<1> SUFFICES ASSUME Typed, [Next]_vars PROVE Typed'
  OBVIOUS
<1>1. CASE UNCHANGED vars
  BY <1>1, SameThreads DEF vars, Typed, TypeOK, AggregateOf, Aggregate
<1>2. CASE \E line \in Lines : Arrive(line)
  BY <1>2, TypedArrive
<1>3. CASE \E s \in Stores : InsertThread(s)
  BY <1>3, TypedFind, TypedNew, TypedUpdate, TypedDone DEF InsertThread
<1>4. CASE \/ \E s \in Stores, k \in Keys : ReportKey(s, k)
           \/ ReportGeneratorFunction \/ SubReportGeneratorFunction
  BY <1>4, TypedReports
<1> QED
  BY <1>1, <1>2, <1>3, <1>4 DEF Next

LEMMA TypedAlways == Spec => []Typed
BY TypedInit, TypedNext, PTL DEF Spec

(* Every variable of the two aggregators and of the reports keeps its type, *)
(* an aggregate in a map is one of that store, and the sums of a store hold *)
(* only records that its own thread has taken from its queue.               *)
THEOREM UsageTypeCorrect == Spec => []TypeOK
<1>1. Typed => TypeOK
  BY DEF Typed
<1> QED
  BY <1>1, TypedAlways, PTL
-----------------------------------------------------------------------------
(* One aggregate for a key.  The thread that is about to insert an aggregate *)
(* has found none of its key, and the other thread only takes some away.    *)

KeysDiffer(s) ==
    \A a, b \in map[s] :
        /\ SameKey(aggregates[a].key, aggregates[b].key)
        /\ {aggregates[a].key, aggregates[b].key} \cap ShortKeys = {}
        => a = b

NoneFound(s) ==
    ins[s].pc = "insert" /\ KeyOf(s, ins[s].record) \notin ShortKeys
    => Matching(s, KeyOf(s, ins[s].record)) = {}

KeyInv == \A s \in Stores : KeysDiffer(s) /\ NoneFound(s)

(* A step that inserts no aggregate into the map of a store.                *)
LEMMA NoKeyCame ==
    ASSUME NEW s \in Stores, KeysDiffer(s), NoneFound(s),
           map'[s] \subseteq map[s],
           \A a \in map[s] : aggregates'[a].key = aggregates[a].key,
           ins'[s].pc = "insert" =>
               /\ ins'[s] = ins[s]
               /\ KeyOf(s, ins[s].record)' = KeyOf(s, ins[s].record)
    PROVE  KeysDiffer(s)' /\ NoneFound(s)'
<1>1. KeysDiffer(s)'
  BY DEF KeysDiffer, SameKey
<1>2. ASSUME ins'[s].pc = "insert", KeyOf(s, ins[s].record)' \notin ShortKeys
      PROVE  Matching(s, KeyOf(s, ins[s].record))' = {}
  <2>1. Matching(s, KeyOf(s, ins[s].record)) = {}
    BY <1>2 DEF NoneFound
  <2> QED
    BY <1>2, <2>1 DEF Matching, SameKey
<1>3. NoneFound(s)'
  BY <1>2 DEF NoneFound
<1> QED
  BY <1>1, <1>3

LEMMA KeyInvNext == Typed /\ KeyInv /\ [Next]_vars => KeyInv'
<1> SUFFICES ASSUME Typed, KeyInv, [Next]_vars, NEW t \in Stores
             PROVE  KeysDiffer(t)' /\ NoneFound(t)'
  BY DEF KeyInv
<1>0. KeysDiffer(t) /\ NoneFound(t) /\ TypeOK
  BY DEF KeyInv, Typed
<1>1. CASE UNCHANGED vars
  BY <1>0, <1>1, NoKeyCame DEF vars, KeyOf
<1>2. ASSUME NEW line \in Lines, Arrive(line)
      PROVE  KeysDiffer(t)' /\ NoneFound(t)'
  <2>1. UNCHANGED <<ins, aggregates, map>>
    BY <1>2 DEF Arrive
  <2>2. ins[t].pc = "insert" => KeyOf(t, ins[t].record)' = KeyOf(t, ins[t].record)
    BY <1>2, <2>1, InThread, SameRecords DEF Typed, KeyOf
  <2> QED
    BY <1>0, <2>1, <2>2, NoKeyCame
<1>3. ASSUME NEW s \in Stores, InsertFind(s)
      PROVE  KeysDiffer(t)' /\ NoneFound(t)'
  <2>1. UNCHANGED <<arrived, aggregates, map>>
    BY <1>3 DEF InsertFind
  <2>2. CASE t # s
    <3>1. ins'[t] = ins[t]
      BY <1>0, <1>3, <2>2 DEF InsertFind, TypeOK
    <3> QED
      BY <1>0, <2>1, <3>1, NoKeyCame DEF KeyOf
  <2>3. CASE t = s
    <3>1. KeysDiffer(t)'
      BY <1>0, <2>1 DEF KeysDiffer
    <3>2. ASSUME ins'[s].pc = "insert"
          PROVE  ins'[s].record = taken[s] + 1 /\ MayFail(s, KeyOf(s, taken[s] + 1))
      BY <1>0, <1>3, <3>2 DEF InsertFind, TypeOK
    <3>3. NoneFound(t)'
      BY <2>1, <2>3, <3>2 DEF NoneFound, MayFail, Matching, KeyOf
    <3> QED
      BY <3>1, <3>3
  <2> QED
    BY <2>2, <2>3
<1>4. ASSUME NEW s \in Stores, InsertNew(s)
      PROVE  KeysDiffer(t)' /\ NoneFound(t)'
  <2> DEFINE new == Len(aggregates')
             k == KeyOf(s, ins[s].record)
  <2>1. /\ ins[s].pc = "insert" /\ UNCHANGED arrived
        /\ map' = [map EXCEPT ![s] = @ \cup {new}]
        /\ ins' = [ins EXCEPT ![s].pc = "update", ![s].aggregate = new]
    BY <1>4 DEF InsertNew, InMapWith
  <2>2. /\ aggregates'[new].key = k
        /\ \A b \in Aggregate : aggregates'[b] = aggregates[b]
    BY <1>4, AddedAggregate
  <2>3. \A a \in map[t] : aggregates'[a] = aggregates[a]
    BY <1>0, <2>2 DEF TypeOK
  <2> HIDE DEF new
  <2>4. CASE t # s
    <3>1. ins'[t] = ins[t] /\ map'[t] = map[t]
      BY <1>0, <2>1, <2>4 DEF TypeOK
    <3> QED
      BY <1>0, <2>1, <2>3, <3>1, NoKeyCame DEF KeyOf
  <2>5. CASE t = s
    <3>1. ins'[s].pc = "update" /\ map'[s] = map[s] \cup {new}
      BY <1>0, <2>1 DEF TypeOK
    <3>2. NoneFound(t)'
      BY <2>5, <3>1 DEF NoneFound
    <3>3. k \notin ShortKeys => \A a \in map[s] : ~SameKey(k, aggregates[a].key)
      BY <1>0, <2>1, <2>5 DEF NoneFound, Matching
    <3> HIDE DEF k
    <3>4. KeysDiffer(t)'
      <4> SUFFICES ASSUME NEW a \in map'[s], NEW b \in map'[s],
                          SameKey(aggregates'[a].key, aggregates'[b].key),
                          aggregates'[a].key \notin ShortKeys,
                          aggregates'[b].key \notin ShortKeys
                   PROVE  a = b
        BY <2>5 DEF KeysDiffer, SameKey
      <4>1. CASE a \in map[s] /\ b \in map[s]
        BY <1>0, <2>3, <2>5, <4>1 DEF KeysDiffer
      <4>2. CASE a = new /\ b \in map[s]
        BY <2>2, <2>3, <2>5, <3>3, <4>2
      <4>3. CASE a \in map[s] /\ b = new
        <5>1. SameKey(k, aggregates[a].key)
          BY <2>2, <2>3, <2>5, <4>3 DEF SameKey
        <5> QED
          BY <2>2, <3>3, <4>3, <5>1
      <4> QED
        BY <3>1, <4>1, <4>2, <4>3
    <3> QED
      BY <3>2, <3>4
  <2> QED
    BY <2>4, <2>5
<1>5. ASSUME NEW s \in Stores, InsertUpdate(s)
      PROVE  KeysDiffer(t)' /\ NoneFound(t)'
  <2>1. /\ UNCHANGED <<arrived, map>> /\ ins[s].pc = "update"
        /\ ins' = [ins EXCEPT ![s].step = @ + 1]
    BY <1>5 DEF InsertUpdate
  <2>2. \A a \in map[t] : aggregates'[a].key = aggregates[a].key
    BY <1>0, <1>5, UpdatedAggregates DEF TypeOK
  <2>3. ins'[t].pc = "insert" => ins'[t] = ins[t]
    BY <1>0, <2>1 DEF TypeOK
  <2> QED
    BY <1>0, <2>1, <2>2, <2>3, NoKeyCame DEF KeyOf
<1>6. ASSUME NEW s \in Stores, InsertDone(s)
      PROVE  KeysDiffer(t)' /\ NoneFound(t)'
  <2>1. UNCHANGED <<arrived, map, aggregates>> /\ ins' = [ins EXCEPT ![s] = Idle]
    BY <1>6 DEF InsertDone
  <2>2. ins'[t].pc = "insert" => ins'[t] = ins[t]
    BY <1>0, <2>1 DEF TypeOK, Idle
  <2> QED
    BY <1>0, <2>1, <2>2, NoKeyCame DEF KeyOf
<1>7. CASE \/ \E s \in Stores, k \in Keys : ReportKey(s, k)
           \/ ReportGeneratorFunction \/ SubReportGeneratorFunction
  <2>1. UNCHANGED <<arrived, ins, aggregates>>
    BY <1>7 DEF ReportKey, ReportGeneratorFunction, SubReportGeneratorFunction, OpenReport,
                PrintLine, CloseReport
  <2>2. map'[t] \subseteq map[t]
    <3>1. ASSUME NEW s \in Stores, NEW k \in Keys, ReportKey(s, k)
          PROVE  map'[t] \subseteq map[t]
      <4>1. CASE UNCHANGED map
        BY <4>1
      <4>2. CASE \E a \in map[s] : map' = [map EXCEPT ![s] = map[s] \ {a}]
        BY <1>0, <4>2 DEF TypeOK
      <4> QED
        BY <1>0, <3>1, <4>1, <4>2, TakenOut
    <3>2. CASE ReportGeneratorFunction \/ SubReportGeneratorFunction
      BY <3>2 DEF ReportGeneratorFunction, SubReportGeneratorFunction, OpenReport,
                  PrintLine, CloseReport
    <3> QED
      BY <1>7, <3>1, <3>2
  <2> QED
    BY <1>0, <2>1, <2>2, NoKeyCame DEF KeyOf
<1> QED
  BY <1>1, <1>2, <1>3, <1>4, <1>5, <1>6, <1>7 DEF Next, InsertThread

(* A key never has two aggregates in a map, whatever the hash function and  *)
(* however many bytes of a key are compared, unless it is a short one: the  *)
(* thread that inserts shares no lock with the one that removes, and needs  *)
(* none for this as long as the operations of the map are atomic.           *)
THEOREM OneAggregatePerKeyAlways == Spec => []OneAggregatePerKey
<1>1. Init => KeyInv
  BY DEF Init, KeyInv, KeysDiffer, NoneFound, Idle
<1>2. KeyInv => OneAggregatePerKey
  BY DEF KeyInv, KeysDiffer, OneAggregatePerKey
<1> QED
  BY <1>1, <1>2, KeyInvNext, TypedAlways, PTL DEF Spec
-----------------------------------------------------------------------------
(* An aggregate is in its map or in one place on the way to its report: in  *)
(* one of the two queues, with the writer, or in one report.                *)

In(a, q) == \E i \in DOMAIN q : q[i] = a
Once(q)  == \A i, j \in DOMAIN q : q[i] = q[j] => i = j

IsReported(a) == \E i \in DOMAIN reports : reports[i].aggregate = a
ReportedOnce  ==
    \A i, j \in DOMAIN reports : reports[i].aggregate = reports[j].aggregate => i = j

OnlyPlace(a) ==
    /\ a \in map[aggregates[a].store] =>
           /\ ~In(a, repGenQueue) /\ ~In(a, subRepQueue)
           /\ a # writer.aggregate /\ ~IsReported(a)
    /\ In(a, repGenQueue) =>
           ~In(a, subRepQueue) /\ a # writer.aggregate /\ ~IsReported(a)
    /\ In(a, subRepQueue) => a # writer.aggregate /\ ~IsReported(a)
    /\ a = writer.aggregate => ~IsReported(a)

OnePlace ==
    /\ Once(repGenQueue) /\ Once(subRepQueue) /\ ReportedOnce
    /\ \A a \in Aggregate : OnlyPlace(a)

LEMMA HeadLeaves ==
    ASSUME NEW S, NEW q \in Seq(S), q # << >>, Once(q)
    PROVE  /\ Head(q) \in S /\ In(Head(q), q)
           /\ Once(Tail(q)) /\ ~In(Head(q), Tail(q))
           /\ \A a : In(a, Tail(q)) => In(a, q)
<1>1. Len(q) \in Nat \ {0} /\ DOMAIN q = 1 .. Len(q) /\ Head(q) = q[1] /\ Head(q) \in S
  BY EmptySeq, LenProperties
<1>2. /\ DOMAIN Tail(q) = 1 .. Len(q) - 1
      /\ \A i \in DOMAIN Tail(q) : Tail(q)[i] = q[i + 1] /\ i + 1 \in DOMAIN q /\ i + 1 # 1
  BY <1>1
<1>3. 1 \in DOMAIN q
  BY <1>1
<1>4. In(Head(q), q) /\ \A a : In(a, Tail(q)) => In(a, q)
  BY <1>1, <1>2, <1>3 DEF In
<1>5. ~In(Head(q), Tail(q))
  BY <1>1, <1>2, <1>3 DEF In, Once
<1>6. Once(Tail(q))
  <2> SUFFICES ASSUME NEW i \in DOMAIN Tail(q), NEW j \in DOMAIN Tail(q),
                      Tail(q)[i] = Tail(q)[j]
               PROVE  i = j
    BY DEF Once
  <2>1. i + 1 = j + 1
    BY <1>2 DEF Once
  <2> QED
    BY <1>2, <2>1
<1> QED
  BY <1>1, <1>4, <1>5, <1>6

LEMMA LastComes ==
    ASSUME NEW S, NEW q \in Seq(S), NEW e \in S
    PROVE  /\ \A a : In(a, Append(q, e)) <=> In(a, q) \/ a = e
           /\ Once(q) /\ ~In(e, q) => Once(Append(q, e))
<1>1. /\ Len(q) \in Nat /\ DOMAIN q = 1 .. Len(q)
      /\ DOMAIN Append(q, e) = 1 .. Len(q) + 1
      /\ Append(q, e)[Len(q) + 1] = e
      /\ \A i \in 1 .. Len(q) : Append(q, e)[i] = q[i]
  BY AppendProperties, LenProperties
<1> QED
  BY <1>1 DEF In, Once

LEMMA ReportsAre ==
    ASSUME RestTypes, NEW i \in DOMAIN reports
    PROVE  /\ reports[i].aggregate \in Aggregate
           /\ DOMAIN reports[i].lines = DOMAIN PrintedFields
<1> DEFINE R == [aggregate : Aggregate, lines : [1 .. Len(PrintedFields) -> SUBSET Nat]]
<1>1. reports \in Seq(R) /\ i \in 1 .. Len(reports)
  BY LenProperties DEF RestTypes
<1>2. reports[i] \in R
  BY <1>1, ElementOfSeq
<1> QED
  BY <1>2 DEF PrintedFields

LEMMA OnePlaceNext == Typed /\ OnePlace /\ [Next]_vars => OnePlace'
<1> SUFFICES ASSUME Typed, OnePlace, [Next]_vars PROVE OnePlace'
  OBVIOUS
<1>0. /\ RestTypes /\ Len(aggregates) \in Nat
      /\ Once(repGenQueue) /\ Once(subRepQueue) /\ ReportedOnce
      /\ \A a \in Aggregate : OnlyPlace(a)
  BY LenProperties DEF OnePlace, Typed, TypeOK, RestTypes
<1>1. CASE /\ UNCHANGED <<map, repGenQueue, subRepQueue, writer, reports>>
           /\ Aggregate' = Aggregate
           /\ \A a \in Aggregate : aggregates'[a].store = aggregates[a].store
  BY <1>0, <1>1 DEF OnePlace, OnlyPlace, IsReported, ReportedOnce
<1>2. ASSUME NEW s \in Stores, InsertNew(s) PROVE OnePlace'
  <2>0. PICK new : new = Len(aggregates')
    OBVIOUS
  <2>1. /\ UNCHANGED <<repGenQueue, subRepQueue, writer, reports>>
        /\ map' = [map EXCEPT ![s] = @ \cup {new}]
    BY <1>2, <2>0 DEF InsertNew, InMapWith
  <2>2. new = Len(aggregates) + 1 /\ \A b \in Aggregate : aggregates'[b] = aggregates[b]
    BY <1>2, <2>0, AddedAggregate
  <2>3. Aggregate' = Aggregate \cup {new} /\ new \notin Aggregate
    BY <1>0, <2>0, <2>2 DEF Aggregate
  <2>4. ASSUME NEW a \in Aggregate PROVE OnlyPlace(a)'
    <3>1. a \in map'[aggregates'[a].store] => a \in map[aggregates[a].store]
      BY <1>0, <2>1, <2>2, <2>3 DEF RestTypes
    <3> QED
      BY <1>0, <2>1, <3>1 DEF OnlyPlace, IsReported
  <2>5. OnlyPlace(new)'
    <3>1. ~In(new, repGenQueue) /\ ~In(new, subRepQueue)
      BY <1>0, <2>3, LenProperties, ElementOfSeq DEF In, RestTypes
    <3>2. new # writer.aggregate
      BY <1>0, <2>2 DEF RestTypes
    <3>3. ~IsReported(new)
      <4>1. \A i \in DOMAIN reports : reports[i].aggregate \in Aggregate
        BY <1>0, ReportsAre
      <4> QED
        BY <2>3, <4>1 DEF IsReported
    <3> QED
      BY <2>1, <3>1, <3>2, <3>3 DEF OnlyPlace, IsReported
  <2> QED
    BY <1>0, <2>1, <2>3, <2>4, <2>5 DEF OnePlace, ReportedOnce
<1>3. ASSUME NEW s \in Stores, InsertUpdate(s) PROVE OnePlace'
  <2>1. UNCHANGED <<map, repGenQueue, subRepQueue, writer, reports>>
    BY <1>3 DEF InsertUpdate
  <2> QED
    BY <1>1, <1>3, <2>1, UpdatedAggregates
<1>4. ASSUME NEW s \in Stores, NEW k \in Keys, ReportKey(s, k) PROVE OnePlace'
  <2>1. UNCHANGED <<aggregates, subRepQueue, writer, reports>> /\ Aggregate' = Aggregate
    BY <1>4, TakenOut DEF Typed, Aggregate
  <2>2. CASE UNCHANGED <<map, repGenQueue>>
    BY <1>1, <2>1, <2>2
  <2>3. CASE \E a \in map[s] :
                 /\ a \in Aggregate /\ aggregates[a].store = s
                 /\ map' = [map EXCEPT ![s] = map[s] \ {a}]
                 /\ repGenQueue' = Append(repGenQueue, a)
    <3>1. PICK a \in map[s] : /\ a \in Aggregate /\ aggregates[a].store = s
                              /\ map' = [map EXCEPT ![s] = map[s] \ {a}]
                              /\ repGenQueue' = Append(repGenQueue, a)
      BY <2>3
    <3>2. /\ \A b : In(b, repGenQueue') <=> In(b, repGenQueue) \/ b = a
          /\ Once(repGenQueue) /\ ~In(a, repGenQueue) => Once(repGenQueue')
      BY <1>0, <3>1, LastComes DEF RestTypes
    <3>3. OnlyPlace(a)
      BY <1>0, <3>1
    <3>4. /\ ~In(a, repGenQueue) /\ ~In(a, subRepQueue)
          /\ a # writer.aggregate /\ ~IsReported(a)
      BY <3>1, <3>3 DEF OnlyPlace
    <3>5. ASSUME NEW b \in Aggregate PROVE OnlyPlace(b)'
      <4>1. b \in map'[aggregates[b].store] => b \in map[aggregates[b].store] /\ b # a
        BY <1>0, <3>1 DEF RestTypes
      <4>2. OnlyPlace(b)
        BY <1>0
      <4> QED
        BY <2>1, <3>2, <3>4, <4>1, <4>2 DEF OnlyPlace, IsReported
    <3> QED
      BY <1>0, <2>1, <3>2, <3>4, <3>5 DEF OnePlace, ReportedOnce
  <2> QED
    BY <1>4, <2>2, <2>3, TakenOut DEF Typed
<1>5. CASE ReportGeneratorFunction
  <2> DEFINE h == Head(repGenQueue)
  <2>1. /\ repGenQueue # << >> /\ repGenQueue' = Tail(repGenQueue)
        /\ subRepQueue' = Append(subRepQueue, h)
        /\ UNCHANGED <<map, aggregates, writer, reports>>
    BY <1>5 DEF ReportGeneratorFunction, Forwarded
  <2>2. /\ h \in Aggregate /\ In(h, repGenQueue) /\ Once(repGenQueue')
        /\ ~In(h, repGenQueue') /\ \A a : In(a, repGenQueue') => In(a, repGenQueue)
    BY <1>0, <2>1, HeadLeaves DEF RestTypes
  <2>3. /\ \A a : In(a, subRepQueue') <=> In(a, subRepQueue) \/ a = h
        /\ Once(subRepQueue) /\ ~In(h, subRepQueue) => Once(subRepQueue')
    BY <1>0, <2>1, <2>2, LastComes DEF RestTypes
  <2> HIDE DEF h
  <2>4. /\ ~In(h, subRepQueue) /\ h \notin map[aggregates[h].store]
        /\ h # writer.aggregate /\ ~IsReported(h)
    BY <1>0, <2>2 DEF OnlyPlace
  <2>5. ASSUME NEW a \in Aggregate PROVE OnlyPlace(a)'
    <3>1. OnlyPlace(a)
      BY <1>0
    <3> QED
      BY <2>1, <2>2, <2>3, <2>4, <3>1 DEF OnlyPlace, IsReported
  <2> QED
    BY <1>0, <2>1, <2>2, <2>3, <2>4, <2>5 DEF OnePlace, ReportedOnce, Aggregate
<1>6. CASE OpenReport
  <2> DEFINE h == Head(subRepQueue)
  <2>1. /\ subRepQueue # << >> /\ subRepQueue' = Tail(subRepQueue)
        /\ writer'.aggregate = h
        /\ UNCHANGED <<map, aggregates, repGenQueue, reports>>
    BY <1>6 DEF OpenReport
  <2>2. /\ h \in Aggregate /\ In(h, subRepQueue) /\ Once(subRepQueue')
        /\ ~In(h, subRepQueue') /\ \A a : In(a, subRepQueue') => In(a, subRepQueue)
    BY <1>0, <2>1, HeadLeaves DEF RestTypes
  <2> HIDE DEF h
  <2>3. /\ ~In(h, repGenQueue) /\ h \notin map[aggregates[h].store] /\ ~IsReported(h)
    BY <1>0, <2>2 DEF OnlyPlace
  <2>4. ASSUME NEW a \in Aggregate PROVE OnlyPlace(a)'
    <3>1. OnlyPlace(a)
      BY <1>0
    <3> QED
      BY <2>1, <2>2, <2>3, <3>1 DEF OnlyPlace, IsReported
  <2> QED
    BY <1>0, <2>1, <2>2, <2>3, <2>4 DEF OnePlace, ReportedOnce, Aggregate
<1>7. CASE PrintLine
  <2>1. UNCHANGED <<map, aggregates, repGenQueue, subRepQueue, reports>>
        /\ writer'.aggregate = writer.aggregate
    BY <1>0, <1>7 DEF PrintLine, RestTypes
  <2> QED
    BY <1>0, <2>1 DEF OnePlace, OnlyPlace, IsReported, ReportedOnce, Aggregate
<1>8. CASE CloseReport
  <2> DEFINE h == writer.aggregate
  <2>1. /\ h \in Aggregate /\ writer'.aggregate = 0 /\ reports' = Append(reports, writer)
        /\ UNCHANGED <<map, aggregates, repGenQueue, subRepQueue>>
    BY <1>0, <1>8 DEF CloseReport, NoReport, RestTypes, Aggregate
  <2>2. /\ Len(reports) \in Nat /\ DOMAIN reports = 1 .. Len(reports)
        /\ DOMAIN reports' = 1 .. Len(reports) + 1
        /\ reports'[Len(reports) + 1] = writer
        /\ \A i \in DOMAIN reports : reports'[i] = reports[i]
    BY <1>0, <2>1, LenProperties DEF RestTypes
  <2> HIDE DEF h
  <2>3. /\ ~In(h, repGenQueue) /\ ~In(h, subRepQueue)
        /\ h \notin map[aggregates[h].store] /\ ~IsReported(h)
    BY <1>0, <2>1 DEF OnlyPlace, h
  <2>4. \A a : IsReported(a)' <=> IsReported(a) \/ a = h
    BY <2>2 DEF IsReported, h
  <2>5. ReportedOnce'
    BY <1>0, <2>2, <2>3 DEF ReportedOnce, IsReported, h
  <2>6. ASSUME NEW a \in Aggregate PROVE OnlyPlace(a)'
    <3>1. OnlyPlace(a) /\ a # 0
      BY <1>0 DEF Aggregate
    <3> QED
      BY <2>1, <2>3, <2>4, <3>1 DEF OnlyPlace
  <2> QED
    BY <1>0, <2>1, <2>5, <2>6 DEF OnePlace, Aggregate
<1> QED
  <2>1. CASE \E line \in Lines : Arrive(line)
    BY <1>1, <2>1 DEF Arrive, Aggregate
  <2>2. CASE \E s \in Stores : InsertFind(s) \/ InsertDone(s)
    BY <1>1, <2>2 DEF InsertFind, InsertDone, Aggregate
  <2>3. CASE UNCHANGED vars
    BY <1>1, <2>3 DEF vars, Aggregate
  <2> QED
    BY <1>2, <1>3, <1>4, <1>5, <1>6, <1>7, <1>8, <2>1, <2>2, <2>3
       DEF Next, InsertThread, SubReportGeneratorFunction

LEMMA OnePlaceAlways == Spec => []OnePlace
<1>1. Init => OnePlace
  BY DEF Init, OnePlace, Once, ReportedOnce, Aggregate
<1> QED
  BY <1>1, OnePlaceNext, TypedAlways, PTL DEF Spec
-----------------------------------------------------------------------------
(* A record is in one aggregate of a store, with everything that was        *)
(* printed of it.                                                           *)

InSums(a, n) == \E f \in FieldSet(aggregates[a].store) : n \in aggregates[a].sum[f]
InLines(lines, n) == \E i \in DOMAIN lines : n \in lines[i]
IsShown(a, n) ==
    \/ writer.aggregate = a /\ InLines(writer.lines, n)
    \/ \E r \in DOMAIN reports : reports[r].aggregate = a /\ InLines(reports[r].lines, n)
Holds(a, n) == n \notin Behind /\ (InSums(a, n) \/ IsShown(a, n))

HeldOnce(a, n) ==
    LET s == aggregates[a].store
    IN /\ n \in 1 .. taken[s]
       /\ n = ins[s].record => a = ins[s].aggregate
       /\ \A b \in Aggregate : aggregates[b].store = s /\ Holds(b, n) => a = b

InOneAggregate == \A a \in Aggregate : \A n : Holds(a, n) => HeldOnce(a, n)

(* What a step that is not an update leaves of the aggregates and reports.  *)
LEMMA HeldBefore ==
    ASSUME Typed, [Next]_vars, \A s \in Stores : ~InsertUpdate(s)
    PROVE  /\ Aggregate \subseteq Aggregate'
           /\ \A a \in Aggregate : aggregates'[a].store = aggregates[a].store
           /\ \A a \in Aggregate' : \A n : Holds(a, n)' => a \in Aggregate /\ Holds(a, n)
<1>0. RestTypes /\ AggregateTypes /\ Len(aggregates) \in Nat
  BY LenProperties DEF Typed, TypeOK, RestTypes, AggregateTypes
<1>1. CASE UNCHANGED <<aggregates, writer, reports>>
  BY <1>1 DEF Holds, InSums, IsShown, FieldSet, Fields, Aggregate
<1>2. ASSUME NEW s \in Stores, InsertNew(s)
      PROVE  /\ Aggregate \subseteq Aggregate'
             /\ \A a \in Aggregate : aggregates'[a].store = aggregates[a].store
             /\ \A a \in Aggregate' : \A n : Holds(a, n)' => a \in Aggregate /\ Holds(a, n)
  <2>0. PICK new : new = Len(aggregates')
    OBVIOUS
  <2>1. UNCHANGED <<writer, reports>>
    BY <1>2 DEF InsertNew
  <2>2. /\ new = Len(aggregates) + 1 /\ aggregates'[new].store = s
        /\ \A f \in FieldSet(s) : aggregates'[new].sum[f] = {}
        /\ \A b \in Aggregate : aggregates'[b] = aggregates[b]
    BY <1>2, <2>0, AddedAggregate
  <2>3. Aggregate' = Aggregate \cup {new} /\ new \notin Aggregate
    BY <1>0, <2>0, <2>2 DEF Aggregate
  <2>4. \A n : ~InSums(new, n)'
    BY <2>2 DEF InSums, FieldSet, Fields
  <2>5. writer.aggregate # new /\ \A i \in DOMAIN reports : reports[i].aggregate # new
    BY <1>0, <2>2, <2>3, ReportsAre DEF RestTypes
  <2>6. \A n : ~Holds(new, n)'
    BY <2>1, <2>4, <2>5 DEF Holds, IsShown
  <2>7. \A a \in Aggregate : \A n : Holds(a, n)' => Holds(a, n)
    BY <2>1, <2>2 DEF Holds, InSums, IsShown, FieldSet, Fields
  <2> QED
    BY <2>2, <2>3, <2>6, <2>7
<1>3. CASE OpenReport
  <2>1. UNCHANGED <<aggregates, reports>> /\ writer'.lines = << >>
    BY <1>3 DEF OpenReport
  <2>2. \A a, n : Holds(a, n)' => Holds(a, n)
    BY <2>1 DEF Holds, InSums, IsShown, InLines, FieldSet, Fields
  <2> QED
    BY <2>1, <2>2 DEF Aggregate
<1>4. CASE PrintLine
  <2> DEFINE h == writer.aggregate
             value == PrintedAt(h, Len(writer.lines) + 1)
  <2>1. /\ UNCHANGED <<aggregates, reports>> /\ h \in Aggregate
        /\ writer'.aggregate = h /\ writer'.lines = Append(writer.lines, value)
        /\ Len(writer.lines) < Len(PrintedFields)
    BY <1>0, <1>4 DEF PrintLine, RestTypes, Aggregate
  <2>2. /\ Len(writer.lines) \in Nat /\ DOMAIN writer.lines = 1 .. Len(writer.lines)
        /\ DOMAIN writer'.lines = 1 .. Len(writer.lines) + 1
        /\ writer'.lines[Len(writer.lines) + 1] = value
        /\ \A i \in DOMAIN writer.lines : writer'.lines[i] = writer.lines[i]
    <3>1. writer.lines \in Seq(SUBSET Nat)
      BY <1>0 DEF RestTypes
    <3> HIDE DEF value
    <3> QED
      BY <2>1, <3>1, LenProperties
  <2>3. \A n : n \in value /\ n \notin Behind => InSums(h, n)
    <3>1. Len(writer.lines) + 1 \in DOMAIN PrintedFields
      BY <2>1, <2>2 DEF PrintedFields
    <3> QED
      BY <1>0, <2>1, <3>1, PrintedIsSum DEF InSums
  <2> HIDE DEF value, h
  <2>4. \A n : InLines(writer'.lines, n) => InLines(writer.lines, n) \/ n \in value
    BY <2>2 DEF InLines
  <2>5. \A a, n : Holds(a, n)' => Holds(a, n)
    <3> SUFFICES ASSUME NEW a, NEW n, Holds(a, n)' PROVE Holds(a, n)
      OBVIOUS
    <3>1. InSums(a, n)' => InSums(a, n)
      BY <2>1 DEF InSums, FieldSet, Fields
    <3>2. IsShown(a, n)' => IsShown(a, n) \/ (a = h /\ n \in value)
      BY <2>1, <2>4 DEF IsShown, h
    <3> QED
      BY <2>3, <3>1, <3>2 DEF Holds
  <2> QED
    BY <2>1, <2>5 DEF Aggregate
<1>5. CASE CloseReport
  <2>1. UNCHANGED aggregates /\ reports' = Append(reports, writer)
        /\ writer'.lines = << >>
    BY <1>5 DEF CloseReport, NoReport
  <2>2. /\ DOMAIN reports = 1 .. Len(reports) /\ Len(reports) \in Nat
        /\ DOMAIN reports' = 1 .. Len(reports) + 1
        /\ reports'[Len(reports) + 1] = writer
        /\ \A i \in DOMAIN reports : reports'[i] = reports[i]
    BY <1>0, <2>1, LenProperties DEF RestTypes
  <2>3. \A a, n : IsShown(a, n)' => IsShown(a, n)
    BY <2>1, <2>2 DEF IsShown, InLines
  <2>4. \A a, n : Holds(a, n)' => Holds(a, n)
    BY <2>1, <2>3 DEF Holds, InSums, FieldSet, Fields
  <2> QED
    BY <2>1, <2>4 DEF Aggregate
<1> QED
  <2>1. CASE \E line \in Lines : Arrive(line)
    BY <1>1, <2>1 DEF Arrive
  <2>2. CASE \E s \in Stores : InsertFind(s) \/ InsertDone(s) \/ \E k \in Keys : ReportKey(s, k)
    BY <1>1, <2>2, TakenOut DEF InsertFind, InsertDone, Typed
  <2>3. CASE UNCHANGED vars
    BY <1>1, <2>3 DEF vars
  <2>4. CASE ReportGeneratorFunction
    BY <1>1, <2>4 DEF ReportGeneratorFunction
  <2> QED
    BY <1>2, <1>3, <1>4, <1>5, <2>1, <2>2, <2>3, <2>4
       DEF Next, InsertThread, SubReportGeneratorFunction

(* What such a step does to the threads.                                    *)
LEMMA ThreadBefore ==
    ASSUME Typed, [Next]_vars, \A s \in Stores : ~InsertUpdate(s), NEW s \in Stores
    PROVE  /\ taken[s] \in Nat /\ taken'[s] \in Nat /\ taken[s] <= taken'[s]
           /\ \A n \in 1 .. taken[s] : n = ins'[s].record =>
                  /\ n = ins[s].record
                  /\ ins'[s].aggregate = ins[s].aggregate \/ ins[s].aggregate = 0
<1>0. TypeOK /\ taken[s] \in Nat /\ ThreadOf(s)
  BY DEF Typed, TypeOK, ThreadOK
<1>1. CASE UNCHANGED <<taken, ins>>
  BY <1>0, <1>1
<1>2. ASSUME NEW t \in Stores, InsertFind(t)
      PROVE  /\ taken'[s] \in Nat /\ taken[s] <= taken'[s]
             /\ \A n \in 1 .. taken[s] : n = ins'[s].record =>
                    n = ins[s].record /\ ins'[s].aggregate = ins[s].aggregate
  <2>1. taken' = [taken EXCEPT ![t] = taken[t] + 1]
    BY <1>2 DEF InsertFind
  <2>2. CASE s = t
    <3>1. ins'[s].record = taken[s] + 1
      BY <1>0, <1>2, <2>2 DEF InsertFind, TypeOK
    <3> QED
      BY <1>0, <2>1, <2>2, <3>1 DEF TypeOK
  <2>3. CASE s # t
    <3>1. ins'[s] = ins[s] /\ taken'[s] = taken[s]
      BY <1>0, <1>2, <2>3 DEF InsertFind, TypeOK
    <3> QED
      BY <1>0, <3>1
  <2> QED
    BY <2>2, <2>3
<1>3. ASSUME NEW t \in Stores, InsertNew(t)
      PROVE  /\ UNCHANGED taken
             /\ ins'[s].record = ins[s].record
             /\ ins'[s].aggregate = ins[s].aggregate \/ ins[s].aggregate = 0
  BY <1>0, <1>3 DEF InsertNew, TypeOK, ThreadOf
<1>4. ASSUME NEW t \in Stores, InsertDone(t)
      PROVE  UNCHANGED taken /\ (ins'[s] = ins[s] \/ ins'[s].record = 0)
  BY <1>0, <1>4 DEF InsertDone, TypeOK, Idle
<1>5. CASE \E line \in Lines : Arrive(line)
  BY <1>1, <1>5 DEF Arrive
<1>6. CASE \E t \in Stores, k \in Keys : ReportKey(t, k)
  BY <1>1, <1>6 DEF ReportKey
<1>7. CASE ReportGeneratorFunction \/ SubReportGeneratorFunction \/ UNCHANGED vars
  BY <1>1, <1>7 DEF ReportGeneratorFunction, SubReportGeneratorFunction, OpenReport, PrintLine,
                    CloseReport, vars
<1> QED
  BY <1>0, <1>2, <1>3, <1>4, <1>5, <1>6, <1>7 DEF Next, InsertThread

LEMMA InOneAggregateNext == Typed /\ InOneAggregate /\ [Next]_vars => InOneAggregate'
<1> SUFFICES ASSUME Typed, InOneAggregate, [Next]_vars PROVE InOneAggregate'
  OBVIOUS
<1>0. AggregateTypes
  BY DEF Typed, TypeOK, AggregateTypes
<1>1. CASE \A s \in Stores : ~InsertUpdate(s)
  <2> SUFFICES ASSUME NEW a \in Aggregate', NEW n, Holds(a, n)' PROVE HeldOnce(a, n)'
    BY DEF InOneAggregate
  <2>1. a \in Aggregate /\ Holds(a, n)
    BY <1>1, HeldBefore
  <2>2. HeldOnce(a, n) /\ aggregates[a].store \in Stores
        /\ aggregates'[a].store = aggregates[a].store
    BY <1>0, <1>1, <2>1, HeldBefore, AggregatesAre DEF InOneAggregate
  <2>3. /\ n \in 1 .. taken'[aggregates[a].store]
        /\ n = ins'[aggregates[a].store].record => a = ins'[aggregates[a].store].aggregate
    BY <1>1, <2>1, <2>2, ThreadBefore DEF HeldOnce, Aggregate
  <2>4. ASSUME NEW b \in Aggregate', aggregates'[b].store = aggregates[a].store, Holds(b, n)'
        PROVE  a = b
    <3>1. b \in Aggregate /\ Holds(b, n) /\ aggregates'[b].store = aggregates[b].store
      BY <1>1, <2>4, HeldBefore
    <3> QED
      BY <2>2, <2>4, <3>1 DEF HeldOnce
  <2> QED
    BY <2>2, <2>3, <2>4 DEF HeldOnce
<1>2. ASSUME NEW s \in Stores, InsertUpdate(s) PROVE InOneAggregate'
  <2> DEFINE h == ins[s].aggregate
             m == ins[s].record
  <2>1. /\ UNCHANGED <<taken, writer, reports>>
        /\ \A t \in Stores : /\ ins'[t].record = ins[t].record
                             /\ ins'[t].aggregate = ins[t].aggregate
    BY <1>2 DEF InsertUpdate, Typed, TypeOK
  <2>2. /\ m \in 1 .. taken[s] /\ h \in Aggregate /\ aggregates[h].store = s
    BY <1>2, InUpdate
  <2>3. /\ Aggregate' = Aggregate
        /\ \A b \in Aggregate : aggregates'[b].store = aggregates[b].store
    BY <1>2, UpdatedAggregates
  <2>4. ASSUME NEW a \in Aggregate, NEW n, Holds(a, n)'
        PROVE  Holds(a, n) \/ (a = h /\ n = m)
    <3>1. IsShown(a, n)' => IsShown(a, n)
      BY <2>1 DEF IsShown, InLines
    <3>2. ASSUME NEW f \in FieldSet(aggregates[a].store), n \in aggregates'[a].sum[f]
          PROVE  n \in aggregates[a].sum[f] \/ (a = h /\ n = m)
      <4>1. \/ aggregates'[a].sum[f] = aggregates[a].sum[f]
            \/ a = h /\ aggregates'[a].sum[f] = Added(f, aggregates[a].sum[f], m)
        BY <1>2, UpdatedAggregates
      <4>2. Added(f, aggregates[a].sum[f], m) \subseteq aggregates[a].sum[f] \cup {m}
        BY DEF Added
      <4> QED
        BY <3>2, <4>1, <4>2
    <3>3. InSums(a, n)' => InSums(a, n) \/ (a = h /\ n = m)
      BY <2>3, <3>2 DEF InSums, FieldSet, Fields
    <3> QED
      BY <2>4, <3>1, <3>3 DEF Holds
  <2>5. ASSUME NEW b \in Aggregate, aggregates[b].store = s, Holds(b, m)
        PROVE  b = h
    BY <2>5 DEF InOneAggregate, HeldOnce
  <2> HIDE DEF h, m
  <2> SUFFICES ASSUME NEW a \in Aggregate', NEW n, Holds(a, n)' PROVE HeldOnce(a, n)'
    BY DEF InOneAggregate
  <2>6. a \in Aggregate /\ aggregates'[a].store = aggregates[a].store
        /\ aggregates[a].store \in Stores
    BY <1>0, <2>3, AggregatesAre
  <2>7. CASE Holds(a, n)
    <3>1. HeldOnce(a, n)
      BY <2>6, <2>7 DEF InOneAggregate
    <3>2. ASSUME NEW b \in Aggregate, aggregates[b].store = aggregates[a].store, Holds(b, n)'
          PROVE  a = b
      <4>1. CASE Holds(b, n)
        BY <3>1, <3>2, <4>1 DEF HeldOnce
      <4>2. CASE b = h /\ n = m
        BY <2>2, <2>5, <2>6, <2>7, <3>2, <4>2
      <4> QED
        BY <2>4, <3>2, <4>1, <4>2
    <3> QED
      BY <2>1, <2>3, <2>6, <3>1, <3>2 DEF HeldOnce
  <2>8. CASE a = h /\ n = m
    <3>1. ASSUME NEW b \in Aggregate, aggregates[b].store = s, Holds(b, n)'
          PROVE  a = b
      BY <2>4, <2>5, <2>8, <3>1
    <3> QED
      BY <2>1, <2>2, <2>3, <2>6, <2>8, <3>1 DEF HeldOnce, h
  <2> QED
    BY <2>4, <2>6, <2>7, <2>8
<1> QED
  BY <1>1, <1>2

LEMMA InOneAggregateAlways == Spec => []InOneAggregate
<1>1. Init => InOneAggregate
  BY DEF Init, InOneAggregate, Aggregate
<1> QED
  BY <1>1, InOneAggregateNext, TypedAlways, PTL DEF Spec

(* No two reports of a store show the same record on the same line, however *)
(* the inserting thread, the thread that takes an aggregate out of the map  *)
(* and the two threads that pass it on interleave.                          *)
THEOREM NoRecordInTwoReportsAlways == Spec => []NoRecordInTwoReports
<1>1. Typed /\ OnePlace /\ InOneAggregate => NoRecordInTwoReports
  <2> SUFFICES ASSUME Typed, OnePlace, InOneAggregate,
                      NEW i \in DOMAIN reports, NEW j \in DOMAIN reports, i # j,
                      aggregates[reports[i].aggregate].store
                          = aggregates[reports[j].aggregate].store,
                      NEW line \in DOMAIN PrintedFields,
                      NEW n \in (reports[i].lines[line] \cap reports[j].lines[line]) \ Behind
               PROVE  FALSE
    BY DEF NoRecordInTwoReports
  <2>1. /\ reports[i].aggregate \in Aggregate /\ line \in DOMAIN reports[i].lines
        /\ reports[j].aggregate \in Aggregate /\ line \in DOMAIN reports[j].lines
    BY ReportsAre DEF Typed, TypeOK, RestTypes
  <2>2. Holds(reports[i].aggregate, n) /\ Holds(reports[j].aggregate, n)
    BY <2>1 DEF Holds, IsShown, InLines
  <2>3. reports[i].aggregate = reports[j].aggregate
    BY <2>1, <2>2 DEF InOneAggregate, HeldOnce
  <2> QED
    BY <2>3 DEF OnePlace, ReportedOnce
<1> QED
  BY <1>1, TypedAlways, OnePlaceAlways, InOneAggregateAlways, PTL
-----------------------------------------------------------------------------
(* What a report misses.  Its aggregate is in no map any more, so that the  *)
(* inserting thread of the store adds to it the one record it holds, if it  *)
(* holds one for it, and no other.                                          *)

Misses(a, lines, n) == \E i \in DOMAIN lines : n \in PrintedAt(a, i) \ lines[i]

MissesOne(a, lines) ==
    \A n : Misses(a, lines, n) =>
        /\ \A m : Misses(a, lines, m) => m = n
        /\ ins[aggregates[a].store].aggregate = a => n = ins[aggregates[a].store].record

MissInv ==
    /\ writer.aggregate # 0 => MissesOne(writer.aggregate, writer.lines)
    /\ \A i \in DOMAIN reports : MissesOne(reports[i].aggregate, reports[i].lines)

LEMMA SamePrinted ==
    ASSUME NEW a, NEW i, aggregates'[a] = aggregates[a]
    PROVE  PrintedAt(a, i)' = PrintedAt(a, i)
BY DEF PrintedAt, ReadAt, Place, Fields

LEMMA UpdatePrinted ==
    ASSUME Typed, NEW s \in Stores, InsertUpdate(s),
           NEW a \in Aggregate, NEW i \in DOMAIN PrintedFields
    PROVE  IF a = ins[s].aggregate
           THEN PrintedAt(a, i)' \subseteq PrintedAt(a, i) \cup {ins[s].record}
           ELSE PrintedAt(a, i)' = PrintedAt(a, i)
<1> DEFINE fields == Fields(aggregates[a].store)
<1>0. PICK p \in 1 .. 10 : p = Place(PrintedFields[i])
  BY PlacesOf
<1>1. aggregates'[a].store = aggregates[a].store
  BY UpdatedAggregates
<1>2. aggregates[a].store \in Stores
  BY AggregatesAre DEF Typed, TypeOK, AggregateTypes
<1>3. /\ PrintedAt(a, i) = IF p <= Len(fields) THEN aggregates[a].sum[fields[p]] ELSE Behind
      /\ PrintedAt(a, i)' = IF p <= Len(fields) THEN aggregates'[a].sum[fields[p]] ELSE Behind
  BY <1>0, <1>1 DEF PrintedAt, ReadAt, Place, Fields
<1>4. CASE p <= Len(fields)
  <2>1. fields[p] \in FieldSet(aggregates[a].store)
    <3>1. DOMAIN SubAggFields = 1 .. Len(SubAggFields) /\ DOMAIN OpAggFields = 1 .. Len(OpAggFields)
          /\ Len(SubAggFields) \in Nat /\ Len(OpAggFields) \in Nat
      BY DEF SubAggFields, OpAggFields
    <3>2. p \in DOMAIN fields
      BY <1>0, <1>2, <1>4, <3>1 DEF Fields, Stores
    <3> QED
      BY <3>2 DEF FieldSet
  <2>2. \/ aggregates'[a].sum[fields[p]] = aggregates[a].sum[fields[p]]
        \/ /\ a = ins[s].aggregate
           /\ aggregates'[a].sum[fields[p]] =
                  Added(fields[p], aggregates[a].sum[fields[p]], ins[s].record)
    BY <2>1, UpdatedAggregates
  <2>3. Added(fields[p], aggregates[a].sum[fields[p]], ins[s].record)
            \subseteq aggregates[a].sum[fields[p]] \cup {ins[s].record}
    BY DEF Added
  <2> QED
    BY <1>3, <1>4, <2>2, <2>3
<1>5. CASE ~(p <= Len(fields))
  BY <1>3, <1>5
<1> QED
  BY <1>4, <1>5

(* A thread does not come to hold an aggregate that is in no map.           *)
LEMMA HeldBeforeTakenOut ==
    ASSUME Typed, [Next]_vars, NEW s \in Stores, NEW a \in Aggregate, a \notin map[s],
           ins'[s].aggregate = a
    PROVE  ins[s].aggregate = a /\ ins'[s].record = ins[s].record
<1>0. TypeOK /\ a # 0
  BY DEF Typed, Aggregate
<1>1. CASE UNCHANGED ins
  BY <1>1
<1>2. ASSUME NEW t \in Stores, InsertFind(t)
      PROVE  ins[s].aggregate = a /\ ins'[s].record = ins[s].record
  <2>1. CASE s = t
    <3>1. ins'[s].aggregate = 0 \/ ins'[s].aggregate \in Matching(s, KeyOf(s, taken[s] + 1))
      BY <1>0, <1>2, <2>1 DEF InsertFind, TypeOK
    <3> QED
      BY <1>0, <3>1, MatchingAre
  <2>2. CASE s # t
    BY <1>0, <1>2, <2>2 DEF InsertFind, TypeOK
  <2> QED
    BY <2>1, <2>2
<1>3. ASSUME NEW t \in Stores, InsertNew(t)
      PROVE  ins[s].aggregate = a /\ ins'[s].record = ins[s].record
  <2>1. Len(aggregates') = Len(aggregates) + 1 /\ Len(aggregates) \in Nat
    BY <1>3, AddedAggregate
  <2>2. ins' = [ins EXCEPT ![t].pc = "update", ![t].aggregate = Len(aggregates')]
    BY <1>3 DEF InsertNew
  <2>3. CASE s = t
    <3>1. ins'[s].aggregate = Len(aggregates')
      BY <1>0, <2>2, <2>3 DEF TypeOK
    <3> QED
      BY <2>1, <3>1 DEF Aggregate
  <2>4. CASE s # t
    BY <1>0, <2>2, <2>4 DEF TypeOK
  <2> QED
    BY <2>3, <2>4
<1>4. ASSUME NEW t \in Stores, InsertUpdate(t)
      PROVE  ins[s].aggregate = a /\ ins'[s].record = ins[s].record
  BY <1>0, <1>4 DEF InsertUpdate, TypeOK
<1>5. ASSUME NEW t \in Stores, InsertDone(t)
      PROVE  ins[s].aggregate = a /\ ins'[s].record = ins[s].record
  BY <1>0, <1>5 DEF InsertDone, TypeOK, Idle
<1>6. CASE \E line \in Lines : Arrive(line)
  BY <1>1, <1>6 DEF Arrive
<1>7. CASE \E t \in Stores, k \in Keys : ReportKey(t, k)
  BY <1>1, <1>7 DEF ReportKey
<1>8. CASE ReportGeneratorFunction \/ SubReportGeneratorFunction \/ UNCHANGED vars
  BY <1>1, <1>8 DEF ReportGeneratorFunction, SubReportGeneratorFunction, OpenReport, PrintLine,
                    CloseReport, vars
<1> QED
  BY <1>2, <1>3, <1>4, <1>5, <1>6, <1>7, <1>8 DEF Next, InsertThread

LEMMA AggregateStays ==
    ASSUME Typed, [Next]_vars, \A s \in Stores : ~InsertUpdate(s), NEW a \in Aggregate
    PROVE  aggregates'[a] = aggregates[a]
<1>1. ASSUME NEW s \in Stores, InsertNew(s) PROVE aggregates'[a] = aggregates[a]
  BY <1>1, AddedAggregate
<1>2. CASE UNCHANGED aggregates
  BY <1>2
<1> QED
  BY <1>1, <1>2 DEF Next, InsertThread, Arrive, InsertFind, InsertDone, ReportKey,
                    ReportGeneratorFunction, SubReportGeneratorFunction, OpenReport,
                    PrintLine, CloseReport, vars

(* Lines already printed keep missing one record at most.                   *)
LEMMA MissesOneKept ==
    ASSUME Typed, [Next]_vars, NEW a \in Aggregate, a \notin map[aggregates[a].store],
           NEW lines, DOMAIN lines \subseteq DOMAIN PrintedFields, MissesOne(a, lines)
    PROVE  MissesOne(a, lines)'
<1> DEFINE s == aggregates[a].store
<1>1. s \in Stores
  BY AggregatesAre DEF Typed, TypeOK, AggregateTypes
<1>2. CASE \A t \in Stores : ~InsertUpdate(t)
  <2>1. aggregates'[a] = aggregates[a]
    BY <1>2, AggregateStays
  <2>2. \A n : Misses(a, lines, n)' <=> Misses(a, lines, n)
    BY <2>1, SamePrinted DEF Misses
  <2>3. ins'[s].aggregate = a => ins[s].aggregate = a /\ ins'[s].record = ins[s].record
    BY <1>1, HeldBeforeTakenOut
  <2> QED
    BY <2>1, <2>2, <2>3 DEF MissesOne
<1>3. ASSUME NEW t \in Stores, InsertUpdate(t) PROVE MissesOne(a, lines)'
  <2>1. aggregates'[a].store = s
    BY <1>3, UpdatedAggregates
  <2>2. ins'[s].aggregate = ins[s].aggregate /\ ins'[s].record = ins[s].record
    BY <1>1, <1>3 DEF InsertUpdate, Typed, TypeOK
  <2>3. CASE a # ins[t].aggregate
    <3>1. \A n : Misses(a, lines, n)' <=> Misses(a, lines, n)
      BY <1>3, <2>3, UpdatePrinted DEF Misses
    <3> QED
      BY <2>1, <2>2, <3>1 DEF MissesOne
  <2>4. CASE a = ins[t].aggregate
    <3>1. t = s
      BY <1>3, <2>4, InUpdate
    <3>2. \A n : Misses(a, lines, n)' => Misses(a, lines, n) \/ n = ins[s].record
      BY <1>3, <2>4, <3>1, UpdatePrinted DEF Misses
    <3>3. \A n : Misses(a, lines, n) => n = ins[s].record
      BY <2>4, <3>1 DEF MissesOne
    <3> QED
      BY <2>1, <2>2, <3>2, <3>3 DEF MissesOne
  <2> QED
    BY <2>3, <2>4
<1> QED
  BY <1>2, <1>3

LEMMA MissInvNext == Typed /\ OnePlace /\ MissInv /\ [Next]_vars => MissInv'
<1> SUFFICES ASSUME Typed, OnePlace, MissInv, [Next]_vars PROVE MissInv'
  OBVIOUS
<1>0. /\ RestTypes /\ Len(aggregates) \in Nat
      /\ DOMAIN writer.lines = 1 .. Len(writer.lines) /\ Len(writer.lines) \in Nat
      /\ DOMAIN reports = 1 .. Len(reports) /\ Len(reports) \in Nat
  BY LenProperties DEF Typed, TypeOK, RestTypes
(* The report that is being written ...                                     *)
<1>1. PICK a, lines : a = writer.aggregate /\ lines = writer.lines
  OBVIOUS
<1>2. a # 0 => /\ a \in Aggregate /\ MissesOne(a, lines)'
               /\ DOMAIN lines \subseteq DOMAIN PrintedFields
  <2> SUFFICES ASSUME a # 0 PROVE /\ a \in Aggregate /\ MissesOne(a, lines)'
                                  /\ DOMAIN lines \subseteq DOMAIN PrintedFields
    OBVIOUS
  <2>1. a \in Aggregate /\ DOMAIN lines \subseteq DOMAIN PrintedFields
    <3>1. DOMAIN PrintedFields = 1 .. Len(PrintedFields) /\ Len(PrintedFields) \in Nat
      BY DEF PrintedFields
    <3>2. Len(lines) <= Len(PrintedFields) /\ DOMAIN lines = 1 .. Len(lines) /\ Len(lines) \in Nat
      BY <1>0, <1>1 DEF RestTypes
    <3>3. a \in Aggregate
      BY <1>0, <1>1 DEF RestTypes, Aggregate
    <3> QED
      BY <3>1, <3>2, <3>3
  <2>2. a \notin map[aggregates[a].store]
    BY <1>1, <2>1 DEF OnePlace, OnlyPlace
  <2>3. MissesOne(a, lines)
    BY <1>1 DEF MissInv
  <2> QED
    BY <2>1, <2>2, <2>3, MissesOneKept
(* ... and those that were written.                                         *)
<1>3. ASSUME NEW i \in DOMAIN reports, NEW b, NEW printed,
             b = reports[i].aggregate, printed = reports[i].lines
      PROVE  MissesOne(b, printed)'
  <2>1. b \in Aggregate /\ DOMAIN printed = DOMAIN PrintedFields
    BY <1>0, <1>3, ReportsAre
  <2>2. b \notin map[aggregates[b].store]
    BY <1>3, <2>1 DEF OnePlace, OnlyPlace, IsReported
  <2>3. MissesOne(b, printed)
    BY <1>3 DEF MissInv
  <2> QED
    BY <2>1, <2>2, <2>3, MissesOneKept
<1>4. CASE UNCHANGED <<writer, reports>>
  <2>1. writer'.aggregate # 0 => MissesOne(writer.aggregate, writer.lines)'
    BY <1>1, <1>2, <1>4
  <2>2. ASSUME NEW i \in DOMAIN reports' PROVE MissesOne(reports[i].aggregate, reports[i].lines)'
    <3>1. PICK b, printed : b = reports[i].aggregate /\ printed = reports[i].lines
      OBVIOUS
    <3> QED
      BY <1>3, <1>4, <3>1
  <2> QED
    BY <2>1, <2>2 DEF MissInv
<1>5. CASE OpenReport
  <2>1. writer'.lines = << >> /\ reports' = reports
    BY <1>5 DEF OpenReport
  <2>2. MissesOne(writer.aggregate, writer.lines)'
    BY <2>1 DEF MissesOne, Misses
  <2>3. ASSUME NEW i \in DOMAIN reports' PROVE MissesOne(reports[i].aggregate, reports[i].lines)'
    <3>1. PICK b, printed : b = reports[i].aggregate /\ printed = reports[i].lines
      OBVIOUS
    <3> QED
      BY <1>3, <2>1, <3>1
  <2> QED
    BY <2>2, <2>3 DEF MissInv
<1>6. CASE PrintLine
  <2>1. /\ a # 0 /\ writer'.aggregate = a
        /\ writer'.lines = Append(lines, PrintedAt(a, Len(lines) + 1))
        /\ UNCHANGED <<aggregates, ins, reports>>
    BY <1>0, <1>1, <1>6 DEF PrintLine, RestTypes
  <2>2. PICK value : value = PrintedAt(a, Len(lines) + 1)
    OBVIOUS
  <2>3. /\ DOMAIN writer'.lines = 1 .. Len(lines) + 1
        /\ writer'.lines[Len(lines) + 1] = value
        /\ \A i \in DOMAIN lines : writer'.lines[i] = lines[i]
        /\ DOMAIN lines = 1 .. Len(lines) /\ Len(lines) \in Nat
    <3>1. lines \in Seq(SUBSET Nat)
      BY <1>0, <1>1 DEF RestTypes
    <3> QED
      BY <2>1, <2>2, <3>1, LenProperties
  <2>4. PICK printed : printed = writer'.lines
    OBVIOUS
  <2>5. \A i : PrintedAt(a, i)' = PrintedAt(a, i)
    BY <2>1, SamePrinted
  <2>6. \A n : Misses(a, printed, n)' => Misses(a, lines, n)'
    BY <2>2, <2>3, <2>4, <2>5 DEF Misses
  <2>7. MissesOne(a, printed)'
    BY <1>2, <2>1, <2>6 DEF MissesOne
  <2>8. MissesOne(writer.aggregate, writer.lines)'
    BY <2>1, <2>4, <2>7
  <2>9. ASSUME NEW i \in DOMAIN reports' PROVE MissesOne(reports[i].aggregate, reports[i].lines)'
    <3>1. PICK b, p : b = reports[i].aggregate /\ p = reports[i].lines
      OBVIOUS
    <3> QED
      BY <1>3, <2>1, <3>1
  <2> QED
    BY <2>8, <2>9 DEF MissInv
<1>7. CASE CloseReport
  <2>1. /\ a # 0 /\ writer'.aggregate = 0 /\ reports' = Append(reports, writer)
    BY <1>1, <1>7 DEF CloseReport, NoReport
  <2>2. /\ DOMAIN reports' = 1 .. Len(reports) + 1
        /\ reports'[Len(reports) + 1] = writer
        /\ \A i \in DOMAIN reports : reports'[i] = reports[i]
    BY <1>0, <2>1, LenProperties DEF RestTypes
  <2>3. ASSUME NEW i \in DOMAIN reports' PROVE MissesOne(reports[i].aggregate, reports[i].lines)'
    <3>1. PICK b, printed : b = reports'[i].aggregate /\ printed = reports'[i].lines
      OBVIOUS
    <3>2. CASE i \in DOMAIN reports
      BY <1>3, <2>2, <3>1, <3>2
    <3>3. CASE i = Len(reports) + 1
      <4>1. b = a /\ printed = lines
        BY <1>1, <2>2, <3>1, <3>3
      <4> QED
        BY <1>2, <2>1, <3>1, <4>1
    <3> QED
      BY <1>0, <2>2, <3>2, <3>3
  <2> QED
    BY <2>1, <2>3 DEF MissInv
<1> QED
  BY <1>4, <1>5, <1>6, <1>7
     DEF Next, InsertThread, Arrive, InsertFind, InsertNew, InsertUpdate, InsertDone, ReportKey,
         ReportGeneratorFunction, SubReportGeneratorFunction, vars

(* A report misses one record of its aggregate at most, whatever its        *)
(* inserting thread does while the report waits in two queues and is        *)
(* written, and at whatever line the record comes.                          *)
THEOREM ReportMissesAtMostOneRecordAlways == Spec => []ReportMissesAtMostOneRecord
<1>1. Init => MissInv
  BY DEF Init, MissInv, NoReport
<1>2. MissInv => ReportMissesAtMostOneRecord
  <2> SUFFICES ASSUME MissInv, NEW i \in DOMAIN reports
               PROVE  Cardinality(Missed(reports[i])) <= 1
    BY DEF ReportMissesAtMostOneRecord
  <2>1. \A n : n \in Missed(reports[i]) <=> Misses(reports[i].aggregate, reports[i].lines, n)
    BY DEF Missed, Misses
  <2>2. \A n, m \in Missed(reports[i]) : n = m
    BY <2>1 DEF MissInv, MissesOne
  <2>3. CASE Missed(reports[i]) = {}
    BY <2>3, FS_EmptySet
  <2>4. CASE \E n : Missed(reports[i]) = {n}
    BY <2>4, FS_Singleton
  <2> QED
    BY <2>2, <2>3, <2>4
<1> QED
  BY <1>1, <1>2, MissInvNext, TypedAlways, OnePlaceAlways, PTL DEF Spec
-----------------------------------------------------------------------------
(* Both stores count a record of cross traffic, in the same direction.      *)

Has(q, f) == \E i \in DOMAIN q : q[i] = f

LEMMA HasTuple ==
    /\ \A f : ~Has(<< >>, f)
    /\ \A a, f : Has(<<a>>, f) <=> f = a
    /\ \A a, b, f : Has(<<a, b>>, f) <=> f = a \/ f = b
<1>1. \A f : ~Has(<< >>, f)
  BY DEF Has
<1>2. \A a, f : Has(<<a>>, f) <=> f = a
  BY DEF Has
<1>3. ASSUME NEW a, NEW b, NEW f PROVE Has(<<a, b>>, f) <=> f = a \/ f = b
  <2>1. DOMAIN <<a, b>> = 1 .. 2 /\ <<a, b>>[1] = a /\ <<a, b>>[2] = b
    OBVIOUS
  <2>2. \A i : i \in 1 .. 2 <=> i = 1 \/ i = 2
    OBVIOUS
  <2> QED
    BY <2>1, <2>2 DEF Has
<1> QED
  BY <1>1, <1>2, <1>3

LEMMA TwoTuples ==
    /\ \A a, b : <<a>> \o <<b>> = <<a, b>>
    /\ \A b : << >> \o <<b>> = <<b>>
<1>1. ASSUME NEW a, NEW b PROVE <<a>> \o <<b>> = <<a, b>>
  <2>1. <<a>> \in Seq({a, b}) /\ <<b>> \in Seq({a, b}) /\ Len(<<a>>) = 1 /\ Len(<<b>>) = 1
    OBVIOUS
  <2>2. /\ <<a>> \o <<b>> \in Seq({a, b}) /\ Len(<<a>> \o <<b>>) = 2
        /\ (<<a>> \o <<b>>)[1] = a /\ (<<a>> \o <<b>>)[2] = b
    BY <2>1, ConcatProperties
  <2>3. <<a, b>> \in Seq({a, b}) /\ Len(<<a, b>>) = 2
    OBVIOUS
  <2> QED
    <3>1. \A i \in 1 .. 2 : (<<a>> \o <<b>>)[i] = <<a, b>>[i]
      BY <2>2
    <3> QED
      BY <2>2, <2>3, <3>1, SeqEqual
<1>2. ASSUME NEW b PROVE << >> \o <<b>> = <<b>>
  <2>1. <<b>> \in Seq({b})
    OBVIOUS
  <2> QED
    BY <2>1, ConcatEmptySeq
<1> QED
  BY <1>1, <1>2

CrossPairs ==
    {<<"m_InCallsOutOper", "m_InCallsDuration">>, <<"m_OutCallsOutOper", "m_OutCallsDuration">>,
     <<"m_SMS_receivedOutOper", "m_SMS_in">>, <<"m_SMS_sentOutOper", "m_SMS_out">>}

(* The flags that ProcessData sets for the two stores select sums of one    *)
(* direction, for calls and messages between operators and for no others.   *)
LEMMA FlagsAgree ==
    ASSUME NEW call \in CallClass, NEW pair \in CrossPairs
    PROVE  Has(SubUpdates(call), pair[1]) <=> Has(OpUpdates(call), pair[2])
<1>1. call.type \in CallTypes /\ call.cross \in BOOLEAN
  BY DEF CallClass
<1>2. CASE call.cross
  <2>1. CASE call.type = "MOC"
    <3>1. SubUpdates(call) = <<"m_OutCallsOutOper">>
      BY <1>2, <2>1 DEF SubUpdates, SubFlags, SubField
    <3>2. OpUpdates(call) = <<"m_OutCallsDuration", "m_IMSI">>
      <4>1. OpUpdates(call) = <<"m_OutCallsDuration">> \o <<"m_IMSI">>
        BY <1>2, <2>1 DEF OpUpdates, OperFlags
      <4> QED
        BY <4>1, TwoTuples
    <3> QED
      BY <3>1, <3>2, HasTuple DEF CrossPairs
  <2>2. CASE call.type = "MTC"
    <3>1. SubUpdates(call) = <<"m_InCallsOutOper">>
      BY <1>2, <2>2 DEF SubUpdates, SubFlags, SubField
    <3>2. OpUpdates(call) = <<"m_InCallsDuration", "m_IMSI">>
      <4>1. OpUpdates(call) = <<"m_InCallsDuration">> \o <<"m_IMSI">>
        BY <1>2, <2>2 DEF OpUpdates, OperFlags
      <4> QED
        BY <4>1, TwoTuples
    <3> QED
      BY <3>1, <3>2, HasTuple DEF CrossPairs
  <2>3. CASE call.type = "SMS_MO"
    <3>1. SubUpdates(call) = <<"m_SMS_sentOutOper">>
      BY <1>2, <2>3 DEF SubUpdates, SubFlags, SubField
    <3>2. OpUpdates(call) = <<"m_SMS_out", "m_IMSI">>
      <4>1. OpUpdates(call) = <<"m_SMS_out">> \o <<"m_IMSI">>
        BY <1>2, <2>3 DEF OpUpdates, OperFlags
      <4> QED
        BY <4>1, TwoTuples
    <3> QED
      BY <3>1, <3>2, HasTuple DEF CrossPairs
  <2>4. CASE call.type = "SMS_MT"
    <3>1. SubUpdates(call) = <<"m_SMS_receivedOutOper">>
      BY <1>2, <2>4 DEF SubUpdates, SubFlags, SubField
    <3>2. OpUpdates(call) = <<"m_SMS_in", "m_IMSI">>
      <4>1. OpUpdates(call) = <<"m_SMS_in">> \o <<"m_IMSI">>
        BY <1>2, <2>4 DEF OpUpdates, OperFlags
      <4> QED
        BY <4>1, TwoTuples
    <3> QED
      BY <3>1, <3>2, HasTuple DEF CrossPairs
  <2>5. CASE call.type \in {"GPRS", "other"}
    <3>1. SubUpdates(call) \in {<< >>, <<"m_MB_Download", "m_MB_Upload">>}
      BY <2>5 DEF SubUpdates, SubFlags
    <3>2. OpUpdates(call) = <<"m_IMSI">>
      <4>1. OpUpdates(call) = << >> \o <<"m_IMSI">>
        BY <2>5 DEF OpUpdates, OperFlags
      <4> QED
        BY <4>1, TwoTuples
    <3> QED
      BY <3>1, <3>2, HasTuple DEF CrossPairs
  <2> QED
    BY <1>1, <2>1, <2>2, <2>3, <2>4, <2>5 DEF CallTypes
<1>3. CASE ~call.cross
  <2>1. OpUpdates(call) = <<"m_IMSI">>
    <3>1. OpUpdates(call) = << >> \o <<"m_IMSI">>
      BY <1>3 DEF OpUpdates, OperFlags
    <3> QED
      BY <3>1, TwoTuples
  <2>2. CASE call.type \in {"MOC", "MTC", "SMS_MO", "SMS_MT"}
    <3>1. /\ SubUpdates(call) = <<SubField(SubFlags(call))>>
          /\ SubField(SubFlags(call)) \in {"m_OutCallsWithMobOper", "m_InCallsWithMobOper",
                                           "m_SMS_sentWithOper", "m_SMS_receivedWithOper"}
      BY <1>3, <2>2 DEF SubUpdates, SubFlags, SubField
    <3> QED
      BY <2>1, <3>1, HasTuple DEF CrossPairs
  <2>3. CASE call.type \in {"GPRS", "other"}
    <3>1. SubUpdates(call) \in {<< >>, <<"m_MB_Download", "m_MB_Upload">>}
      BY <2>3 DEF SubUpdates, SubFlags
    <3> QED
      BY <2>1, <3>1, HasTuple DEF CrossPairs
  <2> QED
    BY <1>1, <2>2, <2>3 DEF CallTypes
<1> QED
  BY <1>1, <1>2, <1>3

(* A record is in the sums that its call selects, up to the step at which   *)
(* its inserting thread is.                                                 *)
CountedIn(s, f, n) ==
    \E a \in Aggregate : aggregates[a].store = s /\ n \in aggregates[a].sum[f]

Selected(s, f, n) ==
    /\ n <= taken[s]
    /\ \E i \in DOMAIN Updates(s, n) :
           Updates(s, n)[i] = f /\ (n = ins[s].record => i < ins[s].step)

Counts ==
    \A s \in Stores : \A n \in Records : \A f \in FieldSet(s) \ {"m_IMSI"} :
        CountedIn(s, f, n) <=> Selected(s, f, n)

LEMMA SumsAreTaken ==
    ASSUME TypeOK, NEW s \in Stores, NEW f \in FieldSet(s), NEW n, CountedIn(s, f, n)
    PROVE  n \in 1 .. taken[s]
BY AggregatesAre DEF CountedIn, TypeOK, AggregateTypes

LEMMA SameCounts ==
    ASSUME Typed, [Next]_vars, \A s \in Stores : ~InsertUpdate(s),
           NEW s \in Stores, NEW f \in FieldSet(s), NEW n
    PROVE  CountedIn(s, f, n)' <=> CountedIn(s, f, n)
<1>1. \A a \in Aggregate : aggregates'[a] = aggregates[a]
  BY AggregateStays
<1>2. Aggregate \subseteq Aggregate'
  BY HeldBefore
<1>3. CASE Aggregate' = Aggregate
  BY <1>1, <1>3 DEF CountedIn
<1>4. ASSUME NEW t \in Stores, InsertNew(t)
      PROVE  CountedIn(s, f, n)' <=> CountedIn(s, f, n)
  <2>0. PICK new : new = Len(aggregates')
    OBVIOUS
  <2>1. /\ new = Len(aggregates) + 1 /\ Len(aggregates) \in Nat
        /\ aggregates'[new].store = t
        /\ \A g \in FieldSet(t) : aggregates'[new].sum[g] = {}
    BY <1>4, <2>0, AddedAggregate
  <2>2. Aggregate' = Aggregate \cup {new}
    BY <2>0, <2>1 DEF Aggregate
  <2> QED
    BY <1>1, <2>1, <2>2 DEF CountedIn
<1>5. CASE UNCHANGED aggregates
  BY <1>5 DEF CountedIn, Aggregate
<1> QED
  BY <1>4, <1>5 DEF Next, InsertThread, Arrive, InsertFind, InsertDone, ReportKey,
                    ReportGeneratorFunction, SubReportGeneratorFunction, OpenReport,
                    PrintLine, CloseReport, vars

LEMMA CountsNext == Typed /\ Counts /\ [Next]_vars => Counts'
<1> SUFFICES ASSUME Typed, Counts, [Next]_vars, NEW s \in Stores,
                    NEW n \in Records', NEW f \in FieldSet(s) \ {"m_IMSI"}
             PROVE  CountedIn(s, f, n)' <=> Selected(s, f, n)'
  BY DEF Counts, FieldSet, Fields
<1>0. /\ TypeOK /\ ThreadOf(s) /\ taken[s] \in Nat /\ Len(arrived) \in Nat
      /\ taken[s] <= Len(arrived) /\ ins[s].step \in Nat /\ n \in Nat
  <2>1. Len(arrived) \in Nat /\ Len(arrived') \in Nat
    BY TypedNext, LenProperties DEF Typed, TypeOK
  <2>2. n \in Nat
    BY <2>1 DEF Records
  <2>3. TypeOK /\ ThreadOf(s)
    BY DEF Typed, ThreadOK
  <2>4. taken[s] \in 0 .. Len(arrived) /\ ins[s].step \in 0 .. 3
    BY <2>3 DEF TypeOK
  <2> QED
    BY <2>1, <2>2, <2>3, <2>4
<1>1. n \in Records => (CountedIn(s, f, n) <=> Selected(s, f, n))
  BY DEF Counts
<1>2. ASSUME UNCHANGED <<arrived, taken>>, ins'[s].record = ins[s].record,
             ins'[s].step = ins[s].step, \A t \in Stores : ~InsertUpdate(t)
      PROVE  CountedIn(s, f, n)' <=> Selected(s, f, n)'
  <2>1. n \in Records
    BY <1>2 DEF Records
  <2>2. Selected(s, f, n)' <=> Selected(s, f, n)
    BY <1>2 DEF Selected, Updates
  <2> QED
    BY <1>1, <1>2, <2>1, <2>2, SameCounts
<1>3. ASSUME NEW line \in Lines, Arrive(line), \A t \in Stores : ~InsertUpdate(t)
      PROVE  CountedIn(s, f, n)' <=> Selected(s, f, n)'
  <2>1. UNCHANGED <<taken, ins>>
    BY <1>3 DEF Arrive
  <2>2. CASE n \in Records
    <3>1. Updates(s, n)' = Updates(s, n)
      BY <1>0, <1>3, <2>2, SameRecords, SameUpdates
    <3>2. Selected(s, f, n)' <=> Selected(s, f, n)
      BY <2>1, <3>1 DEF Selected
    <3> QED
      BY <1>1, <1>3, <2>2, <3>2, SameCounts
  <2>3. CASE n \notin Records
    <3>1. n > taken[s]
      BY <1>0, <2>3 DEF Records
    <3>2. ~Selected(s, f, n)'
      BY <1>0, <2>1, <3>1 DEF Selected
    <3>3. ~CountedIn(s, f, n)
      BY <1>0, <3>1, SumsAreTaken
    <3> QED
      BY <1>3, <3>2, <3>3, SameCounts
  <2> QED
    BY <2>2, <2>3
<1>4. ASSUME NEW t \in Stores, InsertFind(t), \A u \in Stores : ~InsertUpdate(u)
      PROVE  CountedIn(s, f, n)' <=> Selected(s, f, n)'
  <2>1. UNCHANGED arrived /\ taken' = [taken EXCEPT ![t] = taken[t] + 1]
    BY <1>4 DEF InsertFind
  <2>2. CASE s # t
    <3>1. ins'[s] = ins[s]
      BY <1>0, <1>4, <2>2 DEF InsertFind, TypeOK
    <3>2. n \in Records /\ Updates(s, n)' = Updates(s, n) /\ taken'[s] = taken[s]
      BY <1>0, <2>1, <2>2 DEF Records, Updates, TypeOK
    <3>3. Selected(s, f, n)' <=> Selected(s, f, n)
      BY <3>1, <3>2 DEF Selected
    <3> QED
      BY <1>1, <1>4, <3>2, <3>3, SameCounts
  <2>3. CASE s = t
    <3>1. /\ ins'[s].record = taken[s] + 1 /\ ins'[s].step = 1
          /\ taken'[s] = taken[s] + 1 /\ ins[s].record = 0
      BY <1>0, <1>4, <2>1, <2>3 DEF InsertFind, TypeOK, ThreadOf, Idle
    <3>2. n \in Records /\ Updates(s, n)' = Updates(s, n)
      BY <2>1 DEF Records, Updates
    <3>3. Updates(s, n) \in Seq(FieldSet(s))
      BY <1>0, <3>2, UpdatesOf
    <3>4. DOMAIN Updates(s, n) = 1 .. Len(Updates(s, n))
      BY <3>3, LenProperties
    <3>5. CASE n = taken[s] + 1
      <4>1. ~Selected(s, f, n)'
        BY <3>1, <3>2, <3>4, <3>5 DEF Selected
      <4>2. ~CountedIn(s, f, n)
        BY <1>0, <3>5, SumsAreTaken
      <4> QED
        BY <1>4, <4>1, <4>2, SameCounts
    <3>6. CASE n # taken[s] + 1
      <4>1. n # 0
        BY <3>2 DEF Records
      <4>2. Selected(s, f, n)' <=> Selected(s, f, n)
        BY <1>0, <3>1, <3>2, <3>6, <4>1 DEF Selected
      <4> QED
        BY <1>1, <1>4, <3>2, <4>2, SameCounts
    <3> QED
      BY <3>5, <3>6
  <2> QED
    BY <2>2, <2>3
<1>5. ASSUME NEW t \in Stores, InsertNew(t), \A u \in Stores : ~InsertUpdate(u)
      PROVE  CountedIn(s, f, n)' <=> Selected(s, f, n)'
  BY <1>0, <1>2, <1>5 DEF InsertNew, TypeOK
<1>6. ASSUME NEW t \in Stores, InsertDone(t), \A u \in Stores : ~InsertUpdate(u)
      PROVE  CountedIn(s, f, n)' <=> Selected(s, f, n)'
  <2>1. UNCHANGED <<arrived, taken>> /\ ins' = [ins EXCEPT ![t] = Idle]
    BY <1>6 DEF InsertDone
  <2>2. CASE s # t
    BY <1>0, <1>2, <1>6, <2>1, <2>2 DEF TypeOK
  <2>3. CASE s = t
    <3>1. ins'[s].record = 0 /\ ins[s].step > Len(Updates(s, ins[s].record))
      BY <1>0, <1>6, <2>1, <2>3 DEF TypeOK, Idle, InsertDone
    <3>2. n \in Records /\ Updates(s, n)' = Updates(s, n) /\ n # 0
      BY <2>1 DEF Records, Updates
    <3>3. Updates(s, n) \in Seq(FieldSet(s))
      BY <1>0, <3>2, UpdatesOf
    <3>4. DOMAIN Updates(s, n) = 1 .. Len(Updates(s, n)) /\ Len(Updates(s, n)) \in Nat
      BY <3>3, LenProperties
    <3>5. Selected(s, f, n)' <=> Selected(s, f, n)
      BY <1>0, <2>1, <3>1, <3>2, <3>4 DEF Selected
    <3> QED
      BY <1>1, <1>6, <3>2, <3>5, SameCounts
  <2> QED
    BY <2>2, <2>3
<1>7. ASSUME NEW t \in Stores, InsertUpdate(t)
      PROVE  CountedIn(s, f, n)' <=> Selected(s, f, n)'
  <2> DEFINE m == ins[t].record
             h == ins[t].aggregate
             field == Updates(t, m)[ins[t].step]
  <2>1. /\ UNCHANGED <<arrived, taken>> /\ n \in Records
        /\ \A u \in Stores : /\ ins'[u].record = ins[u].record
                             /\ u # t => ins'[u].step = ins[u].step
        /\ ins'[t].step = ins[t].step + 1
    BY <1>7 DEF InsertUpdate, Typed, TypeOK, Records
  <2>2. /\ m \in 1 .. taken[t] /\ h \in Aggregate /\ aggregates[h].store = t
        /\ ins[t].step \in DOMAIN Updates(t, m)
    BY <1>7, InUpdate
  <2>3. /\ Aggregate' = Aggregate
        /\ \A b \in Aggregate : aggregates'[b].store = aggregates[b].store
        /\ \A b \in Aggregate : aggregates[b].store = s =>
               aggregates'[b].sum[f] = IF b = h /\ f = field THEN aggregates[b].sum[f] \cup {m}
                                       ELSE aggregates[b].sum[f]
    <3>1. \A x : Added(f, x, m) = x \cup {m}
      BY DEF Added
    <3>2. \A b \in Aggregate : aggregates[b].store = s =>
              aggregates'[b].sum[f] = IF b = h /\ f = field THEN Added(f, aggregates[b].sum[f], m)
                                      ELSE aggregates[b].sum[f]
      BY <1>7, UpdatedAggregates
    <3> QED
      BY <1>7, <3>1, <3>2, UpdatedAggregates
  <2>4. Updates(s, n)' = Updates(s, n)
    BY <2>1 DEF Updates
  <2>5. CASE s = t /\ n = m /\ f = field
    <3>1. CountedIn(s, f, n)'
      BY <2>2, <2>3, <2>5 DEF CountedIn
    <3>2. Selected(s, f, n)'
      <4>1. ins[s].step < ins'[s].step
        BY <1>0, <2>1, <2>5
      <4>2. n <= taken'[s]
        BY <1>0, <2>1, <2>2, <2>5
      <4>3. ins[s].step \in DOMAIN Updates(s, n)' /\ Updates(s, n)'[ins[s].step] = f
        BY <2>2, <2>4, <2>5
      <4> QED
        BY <4>1, <4>2, <4>3 DEF Selected
    <3> QED
      BY <3>1, <3>2
  <2>6. CASE ~(s = t /\ n = m /\ f = field)
    <3> HIDE DEF m, h, field
    <3>1. CountedIn(s, f, n)' <=> CountedIn(s, f, n)
      BY <2>2, <2>3, <2>6 DEF CountedIn
    <3>2. Selected(s, f, n)' <=> Selected(s, f, n)
      <4>1. CASE s = t /\ n = m
        <5>1. f # field /\ n = ins[s].record /\ n = ins'[s].record
          BY <2>1, <2>6, <4>1 DEF m
        <5>2. \A i \in DOMAIN Updates(s, n) : Updates(s, n)[i] = f =>
                  i # ins[s].step /\ i \in Nat
          <6>1. Updates(s, n) \in Seq(FieldSet(s))
            BY <1>0, <2>1, UpdatesOf
          <6>2. DOMAIN Updates(s, n) = 1 .. Len(Updates(s, n))
            BY <6>1, LenProperties
          <6> QED
            BY <4>1, <5>1, <6>2 DEF field, m
        <5>3. ins'[s].step = ins[s].step + 1
          BY <2>1, <4>1
        <5> QED
          BY <1>0, <2>1, <2>4, <5>1, <5>2, <5>3 DEF Selected
      <4>2. CASE s = t /\ n # m
        BY <2>1, <2>4, <4>2 DEF Selected, m
      <4>3. CASE s # t
        BY <2>1, <2>4, <4>3 DEF Selected
      <4> QED
        BY <4>1, <4>2, <4>3
    <3> QED
      BY <1>1, <2>1, <3>1, <3>2
  <2> QED
    BY <2>5, <2>6
<1>8. CASE /\ \A t \in Stores : ~InsertUpdate(t)
           /\ \/ \E t \in Stores, k \in Keys : ReportKey(t, k)
              \/ ReportGeneratorFunction \/ SubReportGeneratorFunction \/ UNCHANGED vars
  <2>1. UNCHANGED <<arrived, taken, ins>>
    BY <1>8 DEF ReportKey, ReportGeneratorFunction, SubReportGeneratorFunction, OpenReport,
                PrintLine, CloseReport, vars
  <2> QED
    BY <1>2, <1>8, <2>1
<1> QED
  BY <1>3, <1>4, <1>5, <1>6, <1>7, <1>8 DEF Next, InsertThread

(* The two stores agree on the traffic between operators, however far apart *)
(* their threads are, once both are through with a record: no race between  *)
(* inserting and reporting makes one of them lose or repeat an addition.    *)
THEOREM StoresAgreeOnCrossTrafficAlways == Spec => []StoresAgreeOnCrossTraffic
<1>1. Init => Counts
  BY DEF Init, Counts, Records
<1>2. Typed /\ Counts => StoresAgreeOnCrossTraffic
  <2> SUFFICES ASSUME Typed, Counts, NEW pair \in CrossPairs
               PROVE  Counted("sub", pair[1]) \cap InBothStores
                          = Counted("op", pair[2]) \cap InBothStores
    BY DEF StoresAgreeOnCrossTraffic, CrossPairs
  <2>1. \A s, f, n : n \in Counted(s, f) <=> CountedIn(s, f, n)
    BY DEF Counted, CountedIn
  <2>2. /\ pair[1] \in FieldSet("sub") \ {"m_IMSI"}
        /\ pair[2] \in FieldSet("op") \ {"m_IMSI"}
    BY FieldsOf DEF CrossPairs
  <2>3. ASSUME NEW n \in InBothStores, NEW s \in Stores, NEW f \in FieldSet(s) \ {"m_IMSI"}
        PROVE  CountedIn(s, f, n) <=> Has(Updates(s, n), f)
    <3>1. n \in Records /\ n <= taken[s] /\ n # ins[s].record
      BY DEF InBothStores
    <3> QED
      BY <3>1 DEF Counts, Selected, Has
  <2>4. ASSUME NEW n \in InBothStores
        PROVE  CountedIn("sub", pair[1], n) <=> CountedIn("op", pair[2], n)
    <3>1. n \in Records /\ "sub" \in Stores /\ "op" \in Stores
      BY DEF InBothStores, Stores
    <3>2. arrived[n].call \in CallClass
      <4>1. arrived[n] \in [line : Lines, key : [Stores -> Keys], call : CallClass]
        BY <3>1, ElementOfSeq DEF Typed, TypeOK, Records
      <4> QED
        BY <4>1
    <3>3. Updates("sub", n) = SubUpdates(arrived[n].call)
          /\ Updates("op", n) = OpUpdates(arrived[n].call)
      BY DEF Updates
    <3> QED
      BY <2>2, <2>3, <3>1, <3>2, <3>3, FlagsAgree
  <2> QED
    BY <2>1, <2>4
<1> QED
  BY <1>1, <1>2, CountsNext, TypedAlways, PTL DEF Spec
-----------------------------------------------------------------------------
(* What strtok returns of a line, and what the record of it is made of.     *)

(* The texts before the first empty one keep their places.                  *)
LEMMA TokensBeforeGap ==
    ASSUME NEW line, NEW k \in Places, NoGapUpTo(line, k)
    PROVE  k <= Len(Tokens(line)) /\ Tokens(line)[k] = line[k]
<1> DEFINE full == {i \in Places : line[i] # NoText}
           upTo(i) == {j \in full : j <= i}
<1>1. k \in Nat /\ 1 <= k /\ 1 .. k \subseteq full
  BY DEF Places, NoGapUpTo
<1>2. IsFiniteSet(full) /\ Cardinality(full) \in Nat
  <2>1. PICK last \in Nat : last = 13
    OBVIOUS
  <2>2. IsFiniteSet(1 .. last)
    BY FS_Interval
  <2> QED
    BY <2>1, <2>2, FS_Subset, FS_CardinalityType DEF Places
<1>3. Cardinality(1 .. k) = k /\ IsFiniteSet(1 .. k)
  BY <1>1, FS_Interval
<1>4. k <= Cardinality(full)
  BY <1>1, <1>2, <1>3, FS_Subset
<1>5. upTo(k) = 1 .. k
  BY <1>1 DEF Places
<1>6. ASSUME NEW i \in full, Cardinality(upTo(i)) = k
      PROVE  i = k
  <2>1. i \in Int
    BY DEF Places
  <2>2. CASE i > k
    <3>1. 1 .. k \subseteq upTo(i) /\ i \in upTo(i) /\ i \notin 1 .. k
      BY <1>1, <2>1, <2>2
    <3>2. IsFiniteSet(upTo(i))
      BY <1>2, FS_Subset
    <3>3. 1 .. k # upTo(i)
      BY <3>1
    <3> HIDE DEF upTo
    <3> QED
      BY <1>3, <1>6, <3>1, <3>2, <3>3, FS_Subset
  <2>3. CASE i < k
    <3>1. upTo(i) \subseteq 1 .. k /\ k \notin upTo(i)
      BY <1>1, <1>5, <2>1, <2>3 DEF Places
    <3>2. upTo(i) # 1 .. k
      BY <1>1, <3>1
    <3> HIDE DEF upTo
    <3> QED
      BY <1>3, <1>6, <3>1, <3>2, FS_Subset
  <2> QED
    BY <1>1, <2>1, <2>2, <2>3
<1>7. k \in full /\ Cardinality(upTo(k)) = k
  <2>1. k \in full
    BY <1>1
  <2> HIDE DEF upTo
  <2> QED
    BY <1>3, <1>5, <2>1
<1> DEFINE nth(n) == CHOOSE i \in full : Cardinality(upTo(i)) = n
<1>8. nth(k) = k
  <2> HIDE DEF upTo, full
  <2> QED
    BY <1>6, <1>7
<1>9. Tokens(line) = [n \in 1 .. Cardinality(full) |-> line[nth(n)]]
  BY DEF Tokens
<1> HIDE DEF full, nth
<1>10. Len(Tokens(line)) = Cardinality(full)
  BY <1>2, <1>9
<1> QED
  BY <1>1, <1>2, <1>4, <1>8, <1>9, <1>10

LEMMA FieldPlaces ==
    /\ PlaceOf("m_MSISDN") = 2 /\ PlaceOf("m_OperatorBrandName") = 4
    /\ PlaceOf("m_CallType") = 6 /\ PlaceOf("m_PartyOperator") = 13
BY DEF PlaceOf, ParsedData, Places

LEMMA SegmentPlaces ==
    /\ Segment("MSISDN") = 2 /\ Segment("OP_BRAND_NAME") = 4
    /\ Segment("CALL_TYPE") = 6 /\ Segment("PARTY_OPERATOR") = 13
BY DEF Segment, ParserSegments

LEMMA FieldBeforeGap ==
    ASSUME NEW line, NEW garbage, NEW fields \in Filled(line, garbage),
           NEW k \in Places, NoGapUpTo(line, k)
    PROVE  fields[k] = line[k]
<1>1. k <= Len(Tokens(line)) /\ Tokens(line)[k] = line[k]
  BY TokensBeforeGap
<1> QED
  BY <1>1 DEF Filled

(* What the record of a line takes from it.                                 *)
Named(s) == IF s = "sub" THEN 2 ELSE 4
CallIn(line) == [type  |-> IF line[6] \in CallTypes THEN line[6] ELSE "other",
                 cross |-> line[4] # line[13]]

LEMMA RecordOfLine ==
    ASSUME NEW line, NEW garbage, NEW record \in RecordsOf(line, garbage)
    PROVE  /\ \A s \in Stores : NoGapUpTo(line, Named(s)) => record.key[s] = line[Named(s)]
           /\ NoGapUpTo(line, 13) => record.call = CallIn(line)
<1>1. PICK fields \in Filled(line, garbage) : record = ProcessData(fields)
  BY DEF RecordsOf
<1>2. /\ record.key = [sub |-> fields[2], op |-> fields[4]]
      /\ record.call = [type  |-> IF fields[6] \in CallTypes THEN fields[6] ELSE "other",
                        cross |-> fields[4] # fields[13]]
  BY <1>1, FieldPlaces DEF ProcessData
<1>3. \A k \in Places : NoGapUpTo(line, k) => fields[k] = line[k]
  BY FieldBeforeGap
<1>4. 2 \in Places /\ 4 \in Places /\ 6 \in Places /\ 13 \in Places
  BY DEF Places
<1>5. record.key["sub"] = fields[2] /\ record.key["op"] = fields[4]
  BY <1>2
<1>6. NoGapUpTo(line, 13) => NoGapUpTo(line, 4) /\ NoGapUpTo(line, 6)
  BY DEF NoGapUpTo
<1> QED
  BY <1>2, <1>3, <1>4, <1>5, <1>6 DEF Named, CallIn, Stores
-----------------------------------------------------------------------------
(* Where a record is added.  Every record is one of its line; a thread adds *)
(* to an aggregate of its record's key, and every sum holds records of the  *)
(* aggregate's key, in a field that they update.                            *)

FromLine ==
    \A n \in Records : \E record \in RecordsOf(arrived[n].line, Garbage) :
        arrived[n].key = record.key /\ arrived[n].call = record.call

AddsToItsKey(s) ==
    ins[s].pc = "update" =>
        SameKey(KeyOf(s, ins[s].record), aggregates[ins[s].aggregate].key)

Belongs(a, f, n) ==
    /\ SameKey(KeyOf(aggregates[a].store, n), aggregates[a].key)
    /\ Has(Updates(aggregates[a].store, n), f)

SumsBelong ==
    \A a \in Aggregate : \A f \in FieldSet(aggregates[a].store) :
        \A n \in aggregates[a].sum[f] : Belongs(a, f, n)

PlaceInv == FromLine /\ (\A s \in Stores : AddsToItsKey(s)) /\ SumsBelong

LEMMA SumsAreRecords ==
    ASSUME TypeOK, NEW a \in Aggregate, NEW f \in FieldSet(aggregates[a].store),
           NEW n \in aggregates[a].sum[f]
    PROVE  n \in Records /\ aggregates[a].store \in Stores
<1>1. /\ aggregates[a].store \in Stores
      /\ aggregates[a].sum
             \in [FieldSet(aggregates[a].store) -> SUBSET (1 .. taken[aggregates[a].store])]
  BY AggregatesAre DEF TypeOK, AggregateTypes
<1>2. n \in 1 .. taken[aggregates[a].store]
  BY <1>1
<1>3. taken[aggregates[a].store] \in 0 .. Len(arrived)
  BY <1>1 DEF TypeOK
<1> QED
  BY <1>1, <1>2, <1>3 DEF Records

LEMMA FromLineNext == Typed /\ FromLine /\ [Next]_vars => FromLine'
<1> SUFFICES ASSUME Typed, FromLine, [Next]_vars PROVE FromLine'
  OBVIOUS
<1>1. CASE UNCHANGED arrived
  BY <1>1 DEF FromLine, Records
<1>2. ASSUME NEW line \in Lines, Arrive(line) PROVE FromLine'
  <2>1. PICK record \in RecordsOf(line, Garbage) :
            arrived' = Append(arrived, [line |-> line, key |-> record.key, call |-> record.call])
    BY <1>2 DEF Arrive
  <2>2. PICK new : new = [line |-> line, key |-> record.key, call |-> record.call]
    OBVIOUS
  <2>3. new.line = line /\ new.key = record.key /\ new.call = record.call
    BY <2>2
  <2>4. /\ Records' = Records \cup {Len(arrived) + 1}
        /\ arrived'[Len(arrived) + 1] = new
        /\ \A n \in Records : arrived'[n] = arrived[n]
    <3>1. arrived' = Append(arrived, new) /\ Len(arrived') = Len(arrived) + 1
          /\ Len(arrived) \in Nat
      BY <1>2, <2>1, <2>2, SameRecords DEF Typed
    <3>2. Records' = Records \cup {Len(arrived) + 1}
      BY <3>1 DEF Records
    <3>3. \A n \in Records : arrived'[n] = arrived[n]
      BY <1>2, SameRecords DEF Typed
    <3>4. arrived'[Len(arrived) + 1] = new
      BY <3>1, LenProperties DEF Typed, TypeOK
    <3> QED
      BY <3>2, <3>3, <3>4
  <2> QED
    BY <2>3, <2>4 DEF FromLine
<1> QED
  BY <1>1, <1>2 DEF Next, InsertThread, InsertFind, InsertNew, InsertUpdate, InsertDone,
                    ReportKey, ReportGeneratorFunction, SubReportGeneratorFunction,
                    OpenReport, PrintLine, CloseReport, vars

LEMMA SameBelongs ==
    ASSUME Typed, [Next]_vars, NEW s \in Stores, NEW n \in Records
    PROVE  Updates(s, n)' = Updates(s, n) /\ KeyOf(s, n)' = KeyOf(s, n)
<1>1. arrived'[n] = arrived[n]
  <2>1. CASE UNCHANGED arrived
    BY <2>1
  <2>2. CASE \E line \in Lines : Arrive(line)
    BY <2>2, SameRecords DEF Typed
  <2> QED
    BY <2>1, <2>2
       DEF Next, InsertThread, InsertFind, InsertNew, InsertUpdate, InsertDone,
           ReportKey, ReportGeneratorFunction, SubReportGeneratorFunction,
           OpenReport, PrintLine, CloseReport, vars
<1> QED
  BY <1>1, SameUpdates

LEMMA AddsToItsKeyNext ==
    ASSUME Typed, [Next]_vars, \A s \in Stores : AddsToItsKey(s), NEW s \in Stores
    PROVE  AddsToItsKey(s)'
<1>0. TypeOK /\ ThreadOf(s) /\ AddsToItsKey(s)
  BY DEF Typed, ThreadOK
<1>1. ASSUME ins'[s].pc = "update", ins[s].pc = "update",
             ins'[s].record = ins[s].record, ins'[s].aggregate = ins[s].aggregate
      PROVE  AddsToItsKey(s)'
  <2>1. ins[s].record \in Records /\ ins[s].aggregate \in Aggregate
    BY <1>0, <1>1, InThread DEF ThreadOf
  <2>2. KeyOf(s, ins[s].record)' = KeyOf(s, ins[s].record)
    <3>1. PICK n \in Records : n = ins[s].record
      BY <2>1
    <3>2. KeyOf(s, n)' = KeyOf(s, n)
      BY SameBelongs
    <3> QED
      BY <1>1, <3>1, <3>2 DEF KeyOf
  <2>3. aggregates'[ins[s].aggregate].key = aggregates[ins[s].aggregate].key
    <3>1. CASE \E t \in Stores : InsertUpdate(t)
      BY <2>1, <3>1, UpdatedAggregates
    <3>2. CASE \A t \in Stores : ~InsertUpdate(t)
      BY <2>1, <3>2, AggregateStays
    <3> QED
      BY <3>1, <3>2
  <2> QED
    BY <1>0, <1>1, <2>2, <2>3 DEF AddsToItsKey, SameKey
<1>2. CASE InsertFind(s)
  <2> DEFINE n == taken[s] + 1
  <2>1. ASSUME NEW a \in Matching(s, KeyOf(s, n)),
               ins' = [ins EXCEPT ![s] = [pc |-> "update", record |-> n, aggregate |-> a,
                                          step |-> 1]]
        PROVE  AddsToItsKey(s)'
    <3>1. ins'[s].record = n /\ ins'[s].aggregate = a
      BY <1>0, <2>1 DEF TypeOK
    <3>2. UNCHANGED <<arrived, aggregates>>
      BY <1>2 DEF InsertFind
    <3>3. SameKey(KeyOf(s, n), aggregates[a].key)
      BY DEF Matching
    <3> QED
      BY <3>1, <3>2, <3>3 DEF AddsToItsKey, SameKey, KeyOf
  <2>2. CASE ins'[s].pc = "insert"
    BY <2>2 DEF AddsToItsKey
  <2> QED
    BY <1>0, <1>2, <2>1, <2>2 DEF InsertFind, TypeOK
<1>3. CASE InsertNew(s)
  <2>1. /\ ins'[s].record = ins[s].record /\ ins'[s].aggregate = Len(aggregates')
        /\ UNCHANGED arrived
    BY <1>0, <1>3 DEF InsertNew, TypeOK
  <2>2. aggregates'[Len(aggregates')].key = KeyOf(s, ins[s].record)
    BY <1>3, AddedAggregate
  <2> QED
    BY <2>1, <2>2 DEF AddsToItsKey, SameKey, KeyOf
<1>4. CASE InsertUpdate(s)
  BY <1>0, <1>1, <1>4 DEF InsertUpdate, TypeOK
<1>5. CASE InsertDone(s)
  BY <1>0, <1>5 DEF InsertDone, TypeOK, Idle, AddsToItsKey
<1>6. CASE ins'[s] = ins[s]
  BY <1>1, <1>6 DEF AddsToItsKey
<1>7. ASSUME NEW t \in Stores, InsertThread(t), t # s
      PROVE  ins'[s] = ins[s]
  BY <1>0, <1>7 DEF InsertThread, InsertFind, InsertNew, InsertUpdate, InsertDone, TypeOK
<1>8. \/ \E t \in Stores : InsertThread(t)
      \/ UNCHANGED ins
  BY DEF Next, Arrive, ReportKey, ReportGeneratorFunction, SubReportGeneratorFunction,
         OpenReport, PrintLine, CloseReport, vars
<1> QED
  BY <1>2, <1>3, <1>4, <1>5, <1>6, <1>7, <1>8 DEF InsertThread

LEMMA SumsBelongNext ==
    ASSUME Typed, [Next]_vars, \A s \in Stores : AddsToItsKey(s), SumsBelong
    PROVE  SumsBelong'
<1> SUFFICES ASSUME NEW a \in Aggregate', NEW f \in FieldSet(aggregates'[a].store),
                    NEW n \in aggregates'[a].sum[f]
             PROVE  Belongs(a, f, n)'
  BY DEF SumsBelong, FieldSet, Fields
<1>0. TypeOK
  BY DEF Typed
<1>1. ASSUME a \in Aggregate, aggregates'[a].store = aggregates[a].store,
             aggregates'[a].key = aggregates[a].key, n \in Records, Belongs(a, f, n)
      PROVE  Belongs(a, f, n)'
  <2>1. PICK s \in Stores : s = aggregates[a].store
    BY <1>0, <1>1, AggregatesAre DEF TypeOK, AggregateTypes
  <2>2. Updates(s, n)' = Updates(s, n) /\ KeyOf(s, n)' = KeyOf(s, n)
    BY <1>1, SameBelongs
  <2>3. SameKey(KeyOf(s, n), aggregates[a].key) /\ Has(Updates(s, n), f)
    BY <1>1, <2>1 DEF Belongs
  <2>4. SameKey(KeyOf(s, n)', aggregates'[a].key) /\ Has(Updates(s, n)', f)
    BY <1>1, <2>2, <2>3
  <2>5. aggregates'[a].store = s
    BY <1>1, <2>1
  <2> QED
    BY <2>4, <2>5 DEF Belongs, SameKey, Has, Updates, KeyOf
<1>2. CASE /\ a \in Aggregate /\ aggregates'[a].store = aggregates[a].store
           /\ aggregates'[a].key = aggregates[a].key /\ n \in aggregates[a].sum[f]
  BY <1>0, <1>1, <1>2, SumsAreRecords DEF SumsBelong
<1>3. CASE a \in Aggregate /\ aggregates'[a] = aggregates[a]
  BY <1>2, <1>3
<1>4. ASSUME NEW t \in Stores, InsertUpdate(t)
      PROVE  Belongs(a, f, n)'
  <2> DEFINE m == ins[t].record
             h == ins[t].aggregate
             field == Updates(t, m)[ins[t].step]
  <2>1. /\ a \in Aggregate
        /\ aggregates'[a].store = aggregates[a].store
        /\ aggregates'[a].key = aggregates[a].key
        /\ aggregates'[a].sum[f] = IF a = h /\ f = field
                                   THEN Added(f, aggregates[a].sum[f], m)
                                   ELSE aggregates[a].sum[f]
    BY <1>4, UpdatedAggregates
  <2>2. CASE n \in aggregates[a].sum[f]
    BY <1>2, <2>1, <2>2
  <2>3. CASE n \notin aggregates[a].sum[f]
    <3>1. a = h /\ f = field /\ n = m
      BY <2>1, <2>3 DEF Added
    <3>2. m \in Records /\ aggregates[h].store = t /\ ins[t].step \in DOMAIN Updates(t, m)
      BY <1>4, InUpdate
    <3>3. SameKey(KeyOf(t, m), aggregates[h].key)
      BY <1>4 DEF AddsToItsKey, InsertUpdate
    <3>4. Belongs(a, f, n)
      BY <3>1, <3>2, <3>3 DEF Belongs, Has
    <3> QED
      BY <1>1, <2>1, <3>1, <3>2, <3>4
  <2> QED
    BY <2>2, <2>3
<1>5. ASSUME NEW t \in Stores, InsertNew(t), \A s \in Stores : ~InsertUpdate(s)
      PROVE  Belongs(a, f, n)'
  <2>0. PICK new : new = Len(aggregates')
    OBVIOUS
  <2>1. /\ new = Len(aggregates) + 1 /\ Len(aggregates) \in Nat
        /\ aggregates'[new].store = t
        /\ \A g \in FieldSet(t) : aggregates'[new].sum[g] = {}
    BY <1>5, <2>0, AddedAggregate
  <2>2. a # new
    BY <2>1
  <2>3. a \in Aggregate
    BY <2>0, <2>1, <2>2 DEF Aggregate
  <2> QED
    BY <1>3, <1>5, <2>3, AggregateStays
<1>6. CASE UNCHANGED aggregates
  BY <1>3, <1>6 DEF Aggregate
<1> QED
  BY <1>4, <1>5, <1>6
     DEF Next, InsertThread, Arrive, InsertFind, InsertDone, ReportKey,
         ReportGeneratorFunction, SubReportGeneratorFunction, OpenReport, PrintLine,
         CloseReport, vars

(* A call type that the parser does not know updates what "other" does.     *)
LEMMA UnknownTypes ==
    ASSUME NEW type, NEW cross \in BOOLEAN
    PROVE  LET known == [type |-> IF type \in CallTypes THEN type ELSE "other", cross |-> cross]
               call  == [type |-> type, cross |-> cross]
           IN SubUpdates(known) = SubUpdates(call) /\ OpUpdates(known) = OpUpdates(call)
<1>1. CASE type \in CallTypes
  BY <1>1
<1>2. CASE type \notin CallTypes
  BY <1>2 DEF CallTypes, SubUpdates, OpUpdates, SubFlags, OperFlags
<1> QED
  BY <1>1, <1>2

(* An empty text spoils only what follows it, for any lines and any keys,   *)
(* whatever the memory behind a pointer that was never set held: the sums   *)
(* of the subscriber and of the operator that a line names are the ones     *)
(* that its record goes into, as long as nothing is empty before the name.  *)
THEOREM GapsSpoilWhatFollowsAlways == Spec => []GapsSpoilWhatFollows
<1>1. Init => PlaceInv
  BY EmptySeq DEF Init, PlaceInv, FromLine, Records, AddsToItsKey, Idle, SumsBelong, Aggregate
<1>2. Typed /\ PlaceInv /\ [Next]_vars => PlaceInv'
  BY FromLineNext, AddsToItsKeyNext, SumsBelongNext DEF PlaceInv
<1>3. Typed /\ PlaceInv => GapsSpoilWhatFollows
  <2> SUFFICES ASSUME Typed, PlaceInv, NEW a \in Aggregate,
                      NEW f \in FieldSet(aggregates[a].store), NEW n \in aggregates[a].sum[f],
                      NEW s \in Stores, s = aggregates[a].store,
                      NEW line, line = arrived[n].line
               PROVE  /\ NoGapUpTo(line, Named(s)) =>
                             SameKey(aggregates[a].key, line[Named(s)])
                      /\ NoGapUpTo(line, 13) =>
                             LET call == [type |-> line[6], cross |-> line[4] # line[13]]
                             IN Has(IF s = "sub" THEN SubUpdates(call) ELSE OpUpdates(call), f)
    BY SegmentPlaces, SumsAreRecords DEF GapsSpoilWhatFollows, Named, Has, Typed
  <2>1. n \in Records
    BY SumsAreRecords DEF Typed
  <2>2. PICK record \in RecordsOf(line, Garbage) :
            arrived[n].key = record.key /\ arrived[n].call = record.call
    BY <2>1 DEF PlaceInv, FromLine
  <2>3. SameKey(KeyOf(s, n), aggregates[a].key) /\ Has(Updates(s, n), f)
    BY DEF PlaceInv, SumsBelong, Belongs
  <2>4. NoGapUpTo(line, Named(s)) => KeyOf(s, n) = line[Named(s)]
    BY <2>2, RecordOfLine DEF KeyOf
  <2>5. NoGapUpTo(line, 13) => arrived[n].call = CallIn(line)
    BY <2>2, RecordOfLine
  <2>6. PICK cross \in BOOLEAN : cross = (line[4] # line[13])
    OBVIOUS
  <2>7. /\ SubUpdates(CallIn(line)) = SubUpdates([type |-> line[6], cross |-> cross])
        /\ OpUpdates(CallIn(line)) = OpUpdates([type |-> line[6], cross |-> cross])
    BY <2>6, UnknownTypes DEF CallIn
  <2> QED
    BY <2>3, <2>4, <2>5, <2>6, <2>7 DEF SameKey, Updates, Has
<1> QED
  BY <1>1, <1>2, <1>3, TypedAlways, PTL DEF Spec
=============================================================================
