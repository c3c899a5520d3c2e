----------------------------- MODULE MCTwoCallers -----------------------------
(* Two callers and two Call-IDs, so that callers can share a Call-ID, explored *)
(* up to the states with more than MaxDatagrams datagrams sent to the proxy.   *)
EXTENDS SIPCall, FiniteSets

CONSTANT MaxDatagrams

MCStatusLine == {{code} : code \in Code}

FewDatagrams == Cardinality(toProxy) <= MaxDatagrams
===============================================================================
