------------------------------- MODULE MCLoadTest -------------------------------
(* Two calls of one SIPp pair and a socket that holds fewer datagrams than they make. *)
EXTENDS LoadTest

MCStatusLine == {{code} : code \in Code}
MCScenario   == [c \in CallID |-> "basic"]
===============================================================================
