----------------------------- MODULE MCCallScript -----------------------------
(* The two test calls one SIPp pair makes: an answered and a cancelled one. *)
EXTENDS CallScript

CONSTANTS c1, c2

MCStatusLine == {{code} : code \in Code}

BothCalls     == [c \in CallID |-> IF c = c1 THEN "basic" ELSE "cancel_patient"]
TheCancelTest == [c \in CallID |-> "cancel"]
CancelWith100 == [c \in CallID |-> "cancel_100"]
===============================================================================
