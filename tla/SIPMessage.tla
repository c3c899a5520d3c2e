------------------------------ MODULE SIPMessage ------------------------------
(***************************************************************************)
(* A SIP datagram as the handlers of SIPServer see it through SIPParser.    *)
(*                                                                         *)
(* A message is a response when its first line starts with "SIP/2.0" and a *)
(* request otherwise.  Nothing but the Call-ID, the method token, the      *)
(* method named by CSeq and three status codes is ever looked at.  The     *)
(* status line is the set of codes whose text occurs in it: the code calls *)
(* statusLine.find("180"), which looks at the whole line, reason phrase    *)
(* included.  A Call-ID is whatever getHeader("Call-ID") returned, so a    *)
(* message without that header has the (legal) key "".                     *)
(***************************************************************************)
CONSTANTS
  Addr,     \* ip:port pairs a datagram can come from
  Target,   \* the one callee, 127.0.0.1:5061, wired into processInviteMessage
  CallID,   \* what getCallID can return
  StatusLine \* the status lines that can arrive

Method == {"INVITE", "ACK", "BYE", "CANCEL", "OTHER"}
Code   == {"100", "180", "200", "486", "487"}

ASSUME TargetAssumption == Target \in Addr
ASSUME StatusLineAssumption ==
  /\ StatusLine \subseteq SUBSET Code
  /\ \A code \in Code : {code} \in StatusLine

Request  == [kind : {"request"}, callID : CallID, method : Method, cseq : Method]
Response == [kind : {"response"}, callID : CallID, line : StatusLine, cseq : Method]
Message  == Request \cup Response

\* A datagram handed to UDPSocket::send.
Outgoing == [dst : Addr, msg : Message]

IsResponse(m) == m.kind = "response"
IsRequest(m, method) == m.kind = "request" /\ m.method = method

\* A sender that keeps to the protocol names the method again in CSeq.
Req(c, method)    == [kind |-> "request", callID |-> c, method |-> method, cseq |-> method]
Resp(c, code, cs) == [kind |-> "response", callID |-> c, line |-> {code}, cseq |-> cs]
To(a, m)          == [dst |-> a, msg |-> m]

\* The answers the proxy makes up itself copy Call-ID and CSeq of the request.
build100Trying(m) == Resp(m.callID, "100", m.cseq)
\* (mutant: the answer to CANCEL says CSeq INVITE)
build_200_OK_ForInvite(m) == Resp(m.callID, "200", "INVITE")
build_200_OK(m)   == Resp(m.callID, "200", m.cseq)
===============================================================================
