----------------------------- MODULE UsageStore -----------------------------
(***************************************************************************)
(* The two aggregates and their reports: subscriberAggregator.c,           *)
(* operatorAggregator.c, reportGenerator.c, subscriberReport.c.            *)
(*                                                                         *)
(* Each aggregator has a hash map and two threads that use it without a    *)
(* lock: one finds or creates the aggregate of a record's key and then     *)
(* adds the record to it, the other takes an aggregate out of the map and  *)
(* sends it to be reported.  The operations of the hash map itself         *)
(* (a library) are taken as single steps.                                  *)
(*                                                                         *)
(* The records are the log that both aggregators read (LineLog).  A sum is *)
(* represented by the set of records added to it, m_IMSI by the record it  *)
(* was last stored from.                                                   *)
(***************************************************************************)
EXTENDS LineFields

CONSTANTS
    Keys,         \* MSISDNs and operator names
    Bucket,       \* [Keys -> hash bucket]
    FirstFour,    \* [Keys -> first four bytes, all that KeyEqualFunc compares]
    ShortKeys,    \* keys whose string ends within those four bytes
    Lines,        \* lines that may come
    Garbage,      \* texts that memory nobody wrote to may hold
    MaxRecords,   \* bound: records
    MaxRequests   \* bound: report requests

Stores == {"sub", "op"}

ASSUME UsageStoreAssumption ==
    /\ ShortKeys \subseteq Keys
    /\ \A line \in Lines : RecordsOf(line, Garbage)
                            \subseteq [key : [Stores -> Keys], call : CallClass]
    /\ MaxRecords \in Nat /\ MaxRequests \in Nat

VARIABLES
    arrived,      \* lines and their records, in the order of the log
    taken,        \* [Stores -> number of records removed from the queue]
    ins,          \* [Stores -> inserting thread]
    aggregates,   \* every aggregate ever allocated
    map,          \* [Stores -> aggregates in the hash map]
    requests,     \* report requests handled
    repGenQueue, subRepQueue,
    writer,       \* report writer: aggregate, lines printed
    reports,      \* reports written
    crashed
vars == <<arrived, taken, ins, aggregates, map, requests, repGenQueue, subRepQueue,
          writer, reports, crashed>>

Fields(s) == IF s = "sub" THEN SubAggFields ELSE OpAggFields
FieldSet(s) == {Fields(s)[i] : i \in DOMAIN Fields(s)}
Updates(s, n) == IF s = "sub" THEN SubUpdates(arrived[n].call) ELSE OpUpdates(arrived[n].call)
KeyOf(s, n) == arrived[n].key[s]

Idle == [pc |-> "remove", record |-> 0, aggregate |-> 0, step |-> 0]
NoReport == [aggregate |-> 0, lines |-> << >>]
-----------------------------------------------------------------------------
Init ==
    /\ arrived = << >>
    /\ taken = [s \in Stores |-> 0] /\ ins = [s \in Stores |-> Idle]
    /\ aggregates = << >> /\ map = [s \in Stores |-> {}]
    /\ requests = 0
    /\ repGenQueue = << >> /\ subRepQueue = << >>
    /\ writer = NoReport /\ reports = << >>
    /\ crashed = FALSE

Arrive(line) ==
    /\ ~crashed /\ Len(arrived) < MaxRecords
    /\ \E record \in RecordsOf(line, Garbage) :
           arrived' = Append(arrived,
                             [line |-> line, key |-> record.key, call |-> record.call])
    /\ UNCHANGED <<taken, ins, aggregates, map, requests, repGenQueue, subRepQueue,
                   writer, reports, crashed>>
-----------------------------------------------------------------------------
(* The hash map compares keys of one bucket with KeyEqualFunc.              *)
SameKey(k, l) == Bucket[k] = Bucket[l] /\ FirstFour[k] = FirstFour[l]

Matching(s, k) == {a \in map[s] : SameKey(k, aggregates[a].key)}

(* For a short key the comparison goes on into bytes behind the string,     *)
(* which nobody wrote: it may fail for equal keys.                          *)
MayFail_ByAddress(s, k) == TRUE
MayFail(s, k) == Matching(s, k) = {} \/ k \in ShortKeys

(* SafeQueueRemove and HashMap_Find.                                        *)
InsertFind(s) ==
    /\ ins[s].pc = "remove" /\ taken[s] < Len(arrived)
    /\ LET n == taken[s] + 1
           thread(pc, a) == [pc |-> pc, record |-> n, aggregate |-> a, step |-> 1]
       IN /\ taken' = [taken EXCEPT ![s] = n]
          /\ \/ \E a \in Matching(s, KeyOf(s, n)) :
                    ins' = [ins EXCEPT ![s] = thread("update", a)]
             \/ /\ MayFail(s, KeyOf(s, n))
                /\ ins' = [ins EXCEPT ![s] = thread("insert", 0)]
    /\ UNCHANGED <<arrived, aggregates, map, requests, repGenQueue, subRepQueue, writer,
                   reports, crashed>>

InMapWith_Shared(s, a) == [map EXCEPT !["sub"] = @ \cup {a}]
InMapWith(s, a) == [map EXCEPT ![s] = @ \cup {a}]

(* calloc and HashMap_Insert.                                               *)
InsertNew(s) ==
    /\ ins[s].pc = "insert"
    /\ aggregates' = Append(aggregates,
           [store |-> s, key |-> KeyOf(s, ins[s].record),
            sum |-> [field \in FieldSet(s) |-> {}]])
    /\ map' = InMapWith(s, Len(aggregates'))
    /\ ins' = [ins EXCEPT ![s].pc = "update", ![s].aggregate = Len(aggregates')]
    /\ UNCHANGED <<arrived, taken, requests, repGenQueue, subRepQueue, writer, reports,
                   crashed>>

Added(field, sum, n) == IF field = "m_IMSI" THEN {n} ELSE sum \cup {n}

(* One assignment to a field of the aggregate, wherever it is by now.       *)
InsertUpdate(s) ==
    /\ ins[s].pc = "update" /\ ins[s].step <= Len(Updates(s, ins[s].record))
    /\ LET field == Updates(s, ins[s].record)[ins[s].step]
       IN aggregates' = [aggregates EXCEPT
              ![ins[s].aggregate].sum[field] = Added(field, @, ins[s].record)]
    /\ ins' = [ins EXCEPT ![s].step = @ + 1]
    /\ UNCHANGED <<arrived, taken, map, requests, repGenQueue, subRepQueue, writer,
                   reports, crashed>>

InsertDone(s) ==
    /\ ins[s].pc = "update" /\ ins[s].step > Len(Updates(s, ins[s].record))
    /\ ins' = [ins EXCEPT ![s] = Idle]
    /\ UNCHANGED <<arrived, taken, aggregates, map, requests, repGenQueue, subRepQueue,
                   writer, reports, crashed>>
-----------------------------------------------------------------------------
InMapAfter_Kept(s, a) == map[s]
InMapAfter(s, a) == map[s] \ {a}

(* Report thread of an aggregator: HashMap_Remove and, when it succeeds,    *)
(* SafeQueueInsert into m_repGenQueue.                                      *)
ReportKey(s, k) ==
    /\ ~crashed /\ requests < MaxRequests
    /\ requests' = requests + 1
    /\ \/ \E a \in Matching(s, k) :
              /\ map' = [map EXCEPT ![s] = InMapAfter(s, a)]
              /\ repGenQueue' = Append(repGenQueue, a)
       \/ /\ MayFail(s, k)
          /\ UNCHANGED <<map, repGenQueue>>
    /\ UNCHANGED <<arrived, taken, ins, aggregates, subRepQueue, writer, reports,
                   crashed>>

Forwarded_SubscribersOnly(queue, a) ==
    IF aggregates[a].store = "sub" THEN Append(queue, a) ELSE queue
Forwarded(queue, a) == Append(queue, a)

(* Report generator: every aggregate goes to the subscriber's report thread. *)
ReportGeneratorFunction ==
    /\ ~crashed /\ repGenQueue # << >>
    /\ subRepQueue' = Forwarded(subRepQueue, Head(repGenQueue))
    /\ repGenQueue' = Tail(repGenQueue)
    /\ UNCHANGED <<arrived, taken, ins, aggregates, map, requests, writer, reports,
                   crashed>>

(* fopen, whose NULL the first fprintf follows: the aggregate has left its   *)
(* map and its queues by then.                                              *)
OpenReport ==
    /\ writer.aggregate = 0 /\ subRepQueue # << >>
    /\ writer' = [aggregate |-> Head(subRepQueue), lines |-> << >>]
    /\ subRepQueue' = Tail(subRepQueue)
    /\ crashed' \in BOOLEAN
    /\ UNCHANGED <<arrived, taken, ins, aggregates, map, requests, repGenQueue, reports>>

(* The place of a field behind the name of an aggregate.                    *)
Place(field) == CHOOSE i \in DOMAIN SubAggFields : SubAggFields[i] = field

(* Stands for whatever bytes lie behind an aggregate: no sum of records.    *)
Behind == {0}

(* What is found there when aggregate a is read as a SubAggData; an         *)
(* OpAggData is shorter.                                                    *)
ReadAt(a, place) ==
    LET fields == Fields(aggregates[a].store)
    IN IF place <= Len(fields) THEN aggregates[a].sum[fields[place]] ELSE Behind

(* The value printed on line i of a report of aggregate a.                  *)
PrintedAt(a, i) == ReadAt(a, Place(PrintedFields[i]))

PrintLine ==
    /\ writer.aggregate # 0 /\ Len(writer.lines) < Len(PrintedFields)
    /\ writer' = [writer EXCEPT
           !.lines = Append(@, PrintedAt(writer.aggregate, Len(@) + 1))]
    /\ UNCHANGED <<arrived, taken, ins, aggregates, map, requests, repGenQueue,
                   subRepQueue, reports, crashed>>

CloseReport ==
    /\ writer.aggregate # 0 /\ Len(writer.lines) = Len(PrintedFields)
    /\ reports' = Append(reports, writer)
    /\ writer' = NoReport
    /\ UNCHANGED <<arrived, taken, ins, aggregates, map, requests, repGenQueue,
                   subRepQueue, crashed>>

SubReportGeneratorFunction == ~crashed /\ (OpenReport \/ PrintLine \/ CloseReport)
-----------------------------------------------------------------------------
InsertThread(s) ==
    ~crashed /\ (InsertFind(s) \/ InsertNew(s) \/ InsertUpdate(s) \/ InsertDone(s))

Next ==
    \/ \E line \in Lines : Arrive(line)
    \/ \E s \in Stores : InsertThread(s) \/ \E k \in Keys : ReportKey(s, k)
    \/ ReportGeneratorFunction
    \/ SubReportGeneratorFunction

Spec == Init /\ [][Next]_vars

Fairness ==
    /\ \A s \in Stores : WF_vars(InsertThread(s))
    /\ WF_vars(ReportGeneratorFunction)
    /\ WF_vars(SubReportGeneratorFunction)

FairSpec == Spec /\ Fairness
-----------------------------------------------------------------------------
Aggregate == 1 .. Len(aggregates)
Records   == 1 .. Len(arrived)

(* The aggregates of a store hold only records that its thread has taken.   *)
AggregateOf(s) ==
    [store : {s}, key : Keys, sum : [FieldSet(s) -> SUBSET (1 .. taken[s])]]

(* The type invariant; an aggregate in a map belongs to that store.         *)
TypeOK ==
    /\ arrived \in Seq([line : Lines, key : [Stores -> Keys], call : CallClass])
    /\ Len(arrived) <= MaxRecords
    /\ taken \in [Stores -> 0 .. Len(arrived)]
    /\ ins \in [Stores -> [pc : {"remove", "insert", "update"}, record : 0 .. MaxRecords,
                           aggregate : 0 .. Len(aggregates), step : 0 .. 3]]
    /\ aggregates \in Seq(AggregateOf("sub") \cup AggregateOf("op"))
    /\ map \in [Stores -> SUBSET Aggregate]
    /\ \A s \in Stores : \A a \in map[s] : aggregates[a].store = s
    /\ requests \in 0 .. MaxRequests
    /\ repGenQueue \in Seq(Aggregate) /\ subRepQueue \in Seq(Aggregate)
    /\ writer \in [aggregate : 0 .. Len(aggregates), lines : Seq(SUBSET Nat)]
    /\ Len(writer.lines) <= Len(PrintedFields)
    /\ crashed \in BOOLEAN
    /\ reports \in Seq([aggregate : Aggregate, lines : [1 .. Len(PrintedFields) -> SUBSET Nat]])

NoGapUpTo(line, place) == \A i \in 1 .. place : line[i] # NoText

(* An empty text spoils only what follows it: a record is in the sums of    *)
(* the subscriber and of the operator that its line names, unless this text *)
(* or one before it is empty, and it is in the sums that its call type and  *)
(* its two operators select, unless any text is.  (Subscribers who are the  *)
(* same to KeyEqualFunc count as one.)                                      *)
GapsSpoilWhatFollows ==
    \A a \in Aggregate :
        \A field \in FieldSet(aggregates[a].store) :
            \A n \in aggregates[a].sum[field] :
                LET line  == arrived[n].line
                    store == aggregates[a].store
                    named == Segment(IF store = "sub" THEN "MSISDN" ELSE "OP_BRAND_NAME")
                    call  == [type  |-> line[Segment("CALL_TYPE")],
                              cross |-> line[Segment("OP_BRAND_NAME")]
                                            # line[Segment("PARTY_OPERATOR")]]
                    counts == IF store = "sub" THEN SubUpdates(call) ELSE OpUpdates(call)
                IN /\ NoGapUpTo(line, named) => SameKey(aggregates[a].key, line[named])
                   /\ NoGapUpTo(line, Segment("PARTY_OPERATOR")) =>
                         \E i \in DOMAIN counts : counts[i] = field

(* Records that ended up in the aggregate of a report and are not in the    *)
(* number that the report shows for their field.                            *)
Missed(report) ==
    UNION {PrintedAt(report.aggregate, i) \ report.lines[i] : i \in DOMAIN report.lines}

(* The update that races a report is the only one it can lose: an aggregate *)
(* is taken out of the map before it is read, and its inserting thread      *)
(* holds at most one record for it (HashMap_Find before HashMap_Remove,     *)
(* subscriberAggregator.c and operatorAggregator.c).                        *)
ReportMissesAtMostOneRecord ==
    \A i \in DOMAIN reports : Cardinality(Missed(reports[i])) <= 1

(* Nothing is reported twice: HashMap_Remove hands an aggregate out once,   *)
(* and a record is added to one aggregate only, so no two reports show the  *)
(* same record on the same line.                                            *)
NoRecordInTwoReports ==
    \A i, j \in DOMAIN reports :
        /\ i # j
        /\ aggregates[reports[i].aggregate].store = aggregates[reports[j].aggregate].store
        => \A line \in DOMAIN PrintedFields :
               (reports[i].lines[line] \cap reports[j].lines[line]) \ Behind = {}

(* A key never has two aggregates in its map, although the thread that      *)
(* creates one and the thread that takes one out share no lock around their *)
(* (atomic) operations on it; a short key is the exception.                 *)
OneAggregatePerKey ==
    \A s \in Stores : \A a, b \in map[s] :
        /\ SameKey(aggregates[a].key, aggregates[b].key)
        /\ {aggregates[a].key, aggregates[b].key} \cap ShortKeys = {}
        => a = b

Counted(s, field) ==
    UNION {aggregates[a].sum[field] : a \in {b \in Aggregate : aggregates[b].store = s}}

(* Records that both inserting threads are through with.                    *)
InBothStores ==
    {n \in Records : \A s \in Stores : n <= taken[s] /\ n # ins[s].record}

(* The two stores agree on the traffic between operators: a call or message *)
(* is in an operator's sum of a direction exactly when it is in some        *)
(* subscriber's sum outside the operator, in the same direction             *)
(* (ProcessData sets the flags of both), even when memory nobody wrote to    *)
(* decided whether it is one.                                               *)
StoresAgreeOnCrossTraffic ==
    \A pair \in {<<"m_InCallsOutOper", "m_InCallsDuration">>,
                  <<"m_OutCallsOutOper", "m_OutCallsDuration">>,
                  <<"m_SMS_receivedOutOper", "m_SMS_in">>,
                  <<"m_SMS_sentOutOper", "m_SMS_out">>} :
        Counted("sub", pair[1]) \cap InBothStores = Counted("op", pair[2]) \cap InBothStores

(* An aggregate taken out of a map is lost to later counting, so its report *)
(* has to be written, whichever store it is from: only a report that cannot *)
(* be opened, its own or one before it, keeps it from that, and ends the    *)
(* process (checked for the first MaxRecords aggregates).                   *)
TakenOutIsReported ==
    \A a \in 1 .. MaxRecords :
        (\E i \in DOMAIN repGenQueue : repGenQueue[i] = a)
            ~> \/ \E i \in DOMAIN reports : reports[i].aggregate = a
               \/ crashed
=============================================================================
