----------------------------- MODULE CallRecord -----------------------------
(***************************************************************************)
(* One call data record, from the fields of a line to the fields of the    *)
(* aggregates it is counted in: ProcessData (parser.c), the two functions  *)
(* that insert into the hash maps, and the layout of their aggregates.     *)
(***************************************************************************)
EXTENDS Integers, Sequences

CallTypes == {"MOC", "MTC", "SMS_MO", "SMS_MT", "GPRS", "other"}

(* What ProcessData looks at: the call type, and whether the subscriber's   *)
(* operator and the other party's differ.                                   *)
CallClass == [type : CallTypes, cross : BOOLEAN]

(* The flags of SubData and OperData.                                       *)
SubFlags(call) ==
    [m_isCall      |-> call.type \in {"MOC", "MTC"},
     m_isSMS       |-> call.type \in {"SMS_MO", "SMS_MT"},
     m_isGPRS      |-> call.type = "GPRS",
     m_isIncomming |-> call.type \in {"MTC", "SMS_MT"},
     m_isCrossOp   |-> call.cross]

OperFlags_EverySMS(call) ==
    [m_isCall      |-> call.cross /\ call.type \in {"MOC", "MTC"},
     m_isSMS       |-> call.type \in {"SMS_MO", "SMS_MT"},
     m_isIncomming |-> call.cross /\ call.type \in {"MTC", "SMS_MT"}]

OperFlags(call) ==
    [m_isCall      |-> call.cross /\ call.type \in {"MOC", "MTC"},
     m_isSMS       |-> call.cross /\ call.type \in {"SMS_MO", "SMS_MT"},
     m_isIncomming |-> call.cross /\ call.type \in {"MTC", "SMS_MT"}]

(* The number fields of SubAggData and OpAggData, in the order in which     *)
(* they lie behind the name that both begin with.                           *)
SubAggFields ==
    <<"m_OutCallsWithMobOper", "m_InCallsWithMobOper", "m_OutCallsOutOper",
      "m_InCallsOutOper", "m_SMS_sentWithOper", "m_SMS_receivedWithOper",
      "m_SMS_sentOutOper", "m_SMS_receivedOutOper", "m_MB_Download", "m_MB_Upload">>

OpAggFields ==
    <<"m_IMSI", "m_InCallsDuration", "m_OutCallsDuration", "m_SMS_in", "m_SMS_out">>

SubField(flags) ==
    CASE flags.m_isCall /\ flags.m_isIncomming /\ flags.m_isCrossOp   -> "m_InCallsOutOper"
      [] flags.m_isCall /\ flags.m_isIncomming /\ ~flags.m_isCrossOp  -> "m_InCallsWithMobOper"
      [] flags.m_isCall /\ ~flags.m_isIncomming /\ flags.m_isCrossOp  -> "m_OutCallsOutOper"
      [] flags.m_isCall /\ ~flags.m_isIncomming /\ ~flags.m_isCrossOp -> "m_OutCallsWithMobOper"
      [] flags.m_isSMS /\ flags.m_isIncomming /\ flags.m_isCrossOp    -> "m_SMS_receivedOutOper"
      [] flags.m_isSMS /\ flags.m_isIncomming /\ ~flags.m_isCrossOp   -> "m_SMS_receivedWithOper"
      [] flags.m_isSMS /\ ~flags.m_isIncomming /\ flags.m_isCrossOp   -> "m_SMS_sentOutOper"
      [] flags.m_isSMS /\ ~flags.m_isIncomming /\ ~flags.m_isCrossOp  -> "m_SMS_sentWithOper"

(* The fields InsertSubDataToHashMap adds the record to, in its order.      *)
SubUpdates(call) ==
    LET flags == SubFlags(call)
    IN IF flags.m_isCall \/ flags.m_isSMS THEN <<SubField(flags)>>
       ELSE IF flags.m_isGPRS THEN <<"m_MB_Download", "m_MB_Upload">>
       ELSE << >>

(* The fields InsertOpDataToHashMap adds the record to; the last statement  *)
(* stores m_IMSI, whatever the record is.                                   *)
OpUpdates(call) ==
    LET flags == OperFlags(call)
        counted == IF flags.m_isCall
                     THEN <<IF flags.m_isIncomming THEN "m_InCallsDuration"
                                                   ELSE "m_OutCallsDuration">>
                   ELSE IF flags.m_isSMS
                     THEN <<IF flags.m_isIncomming THEN "m_SMS_in" ELSE "m_SMS_out">>
                   ELSE << >>
    IN counted \o <<"m_IMSI">>

(* The lines of a report (CreateReport in subscriberReport.c): the field    *)
(* each label stands for, and the field each line prints.                   *)
LabelFields ==
    <<"m_OutCallsWithMobOper", "m_InCallsWithMobOper", "m_OutCallsOutOper",
      "m_InCallsOutOper", "m_SMS_sentWithOper", "m_SMS_receivedWithOper",
      "m_SMS_sentOutOper", "m_SMS_receivedOutOper", "m_MB_Download", "m_MB_Upload">>

PrintedFields ==
    <<"m_OutCallsWithMobOper", "m_InCallsWithMobOper", "m_OutCallsOutOper",
      "m_OutCallsWithMobOper", "m_SMS_sentWithOper", "m_SMS_receivedWithOper",
      "m_SMS_sentOutOper", "m_SMS_receivedOutOper", "m_MB_Download", "m_MB_Download">>
=============================================================================
