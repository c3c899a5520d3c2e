------------------------------- MODULE MCSIPCall -------------------------------
(* One call between one caller and the callee, explored in full. *)
EXTENDS SIPCall

MCStatusLine == {{code} : code \in Code}
===============================================================================
