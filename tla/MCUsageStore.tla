---------------------------- MODULE MCUsageStore ----------------------------
(* Instances of UsageStore for TLC. *)
EXTENDS UsageStore

(* A long and a short subscriber number, the texts behind an empty number,   *)
(* and two operators; all in one bucket.                                     *)
Long  == "1000222"
Short == "7"
AllKeys   == {Long, Short, "imei", "mcc", "Cellcom", "Orange"}
OneBucket == [k \in AllKeys |-> 1]
KeyBytes  == [k \in AllKeys |-> CASE k = Long -> "1000" [] k = "Cellcom" -> "Cell"
                                  [] k = "Orange" -> "Oran" [] OTHER -> k]
OnlyShort == {Short}

Home(type)   == Written(Long, "Cellcom", type, "Cellcom")
Abroad(type) == Written(Long, "Cellcom", type, "Orange")

(* A record of two fields, and one that both stores count, as generated. *)
DataAndCalls == CreateLine({Long}) \cap {Home("GPRS"), Abroad("MTC")}

WithGap(line, place) == [line EXCEPT ![place] = ""]

(* A call between operators; a message without a duration, so that it is not  *)
(* known whether it is one; a call without a subscriber; a short number.      *)
AllTraffic ==
    {Abroad("MOC"), WithGap(Home("SMS_MT"), 9), WithGap(Abroad("MTC"), 2),
     Written(Short, "Orange", "MTC", "Cellcom")}

BothOperators == {"Cellcom", "Orange"}
=============================================================================
