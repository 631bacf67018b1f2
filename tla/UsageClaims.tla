---------------------------- MODULE UsageClaims -----------------------------
(***************************************************************************)
(* What the text of a report says about its numbers, as a property of      *)
(* UsageStore.  The code does not keep it.                                 *)
(***************************************************************************)
EXTENDS MCUsageStore

(* A number shows only records of the sum its label names ("Incoming calls  *)
(* outside operator" and the others, subscriberReport.c); sums only grow,   *)
(* so it does not matter when they are compared.                            *)
NumbersBelongToLabels ==
    \A i \in DOMAIN reports :
        aggregates[reports[i].aggregate].store = "sub" =>
            \A line \in DOMAIN LabelFields :
                reports[i].lines[line]
                    \subseteq aggregates[reports[i].aggregate].sum[LabelFields[line]]

OwnCalls == {Home("GPRS"), Home("MOC")}
=============================================================================
