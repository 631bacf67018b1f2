----------------------------- MODULE LineFields -----------------------------
(***************************************************************************)
(* A line of an input file, as it is written and as the parser takes it    *)
(* apart (FillProcessedDataStructs, parser.c).                             *)
(*                                                                         *)
(* A line is the sequence of its thirteen texts.  A text is empty when     *)
(* nothing stands between two bars; a line that was cut off ends in empty  *)
(* texts.  strtok steps over empty texts, so that every later text moves   *)
(* to an earlier place, and the last pointers of ParsedData are never set. *)
(***************************************************************************)
EXTENDS CallRecord, FiniteSets

(* The texts of a line (enum ParserSegments).                               *)
ParserSegments ==
    <<"IMSI", "MSISDN", "SUB_IMEI", "OP_BRAND_NAME", "OP_MCC_MNC_TUP", "CALL_TYPE",
      "CALL_DATE", "CALL_TIME", "DURATION", "DOWNLOAD", "UPLOAD", "PARTY_MSISDN",
      "PARTY_OPERATOR">>

Segment(name) == CHOOSE i \in DOMAIN ParserSegments : ParserSegments[i] = name

ParsedData_IMEIFirst ==
    <<"m_IMSI", "m_SubscriberIMEI", "m_MSISDN", "m_OperatorBrandName",
      "m_OperatorMCC_MNCtuple", "m_CallType", "m_CallDate", "m_CallTime",
      "m_Duration", "m_Download", "m_Upload", "m_PartyMSISDN", "m_PartyOperator">>
(* The pointers of ParsedData, in their order.                              *)
ParsedData ==
    <<"m_IMSI", "m_MSISDN", "m_SubscriberIMEI", "m_OperatorBrandName",
      "m_OperatorMCC_MNCtuple", "m_CallType", "m_CallDate", "m_CallTime",
      "m_Duration", "m_Download", "m_Upload", "m_PartyMSISDN", "m_PartyOperator">>

Places == 1 .. 13
NoText == ""
PlaceOf(name) == CHOOSE i \in Places : ParsedData[i] = name

(* What the calls of strtok return, one after the other: the n-th is the    *)
(* text that has n - 1 texts with anything in them before it.               *)
Tokens(line) ==
    LET full == {i \in Places : line[i] # NoText}
        nth(n) == CHOOSE i \in full : Cardinality({j \in full : j <= i}) = n
    IN [n \in 1 .. Cardinality(full) |-> line[nth(n)]]

(* What the pointers may point to: a text of the line, or, where none was   *)
(* stored, anything that the memory held.                                   *)
Filled(line, garbage) ==
    LET tokens == Tokens(line)
    IN {[i \in Places |-> IF i <= Len(tokens) THEN tokens[i] ELSE unset[i]] :
            unset \in [(Len(tokens) + 1) .. 13 -> garbage]}

(* The keys that ProcessData passes on, and the class of the call: m_isCross *)
(* is one comparison, made for both.                                         *)
ProcessData(fields) ==
    LET at(name) == fields[PlaceOf(name)]
    IN [key  |-> [sub |-> at("m_MSISDN"), op |-> at("m_OperatorBrandName")],
        call |-> [type  |-> IF at("m_CallType") \in CallTypes THEN at("m_CallType")
                            ELSE "other",
                  cross |-> at("m_OperatorBrandName") # at("m_PartyOperator")]]

(* The records that may come of a line.  The process may also end, when an  *)
(* unset pointer leads nowhere (MemoryFault of Ingest).                     *)
RecordsOf(line, garbage) == {ProcessData(fields) : fields \in Filled(line, garbage)}
-----------------------------------------------------------------------------
(* The generator (CreateLine, cdrCreator.c): thirteen texts, none of them   *)
(* empty.  Its operators are the first five of six, its calls come in.      *)
GeneratedOperators == {"Cellcom", "Orange", "Pelephone", "Golan", "Vodafone"}
GeneratedTypes == {"SMS_MO", "GPRS", "MTC"}

Written(subscriber, operator, type, partyOperator) ==
    <<"imsi", subscriber, "imei", operator, "mcc", type, "01:01:1970", "02:00:00",
      "duration", "download", "upload", "party", partyOperator>>

CreateLine(subscribers) ==
    {Written(s, o, t, p) : s \in subscribers, o \in GeneratedOperators,
                           t \in GeneratedTypes, p \in GeneratedOperators}
=============================================================================
