------------------------------- MODULE SIPServer -------------------------------
(***************************************************************************)
(* The worker thread's handling of one received datagram:                  *)
(* SIPServer::processSipMessage and the handlers it calls.  There is one   *)
(* worker, it finishes a datagram before it receives the next, and the     *)
(* handlers share nothing with other threads but the socket and the log,   *)
(* so one datagram is one step.  `sent' is what that step handed to        *)
(* UDPSocket::send, in program order.                                      *)
(***************************************************************************)
EXTENDS CallSessionManager, Sequences

VARIABLE sent

serverVars == <<m_sessions, sent>>

ServerTypeOK ==
  /\ SessionsTypeOK
  /\ sent \in Seq(Outgoing)

ServerInit ==
  /\ SessionsInit
  /\ sent = <<>>

-------------------------------------------------------------------------------
(* Requests.  a is the source address of m. *)

\* The caller is answered 100 and the INVITE goes to the fixed target, also
\* when the Call-ID already has a session (a retransmission, a re-INVITE).
processInviteMessage(m, a) ==
  /\ IsRequest(m, "INVITE")
  /\ sent' = << To(a, build100Trying(m)), To(Target, m) >>
  /\ addSession(m.callID,
                [caller |-> a, target |-> Target, state |-> "INVITE_SENT"])

processAckMessage(m, a) ==
  /\ IsRequest(m, "ACK")
  /\ hasSession(m.callID)
  /\ sent' = << To(OtherParty(getSession(m.callID), a), m) >>
  /\ UNCHANGED m_sessions

\* (mutants: the session is deleted with the BYE; a repeated BYE is taken for done)
processByeMessage_Once(m, a) ==
  /\ IsRequest(m, "BYE")
  /\ hasSession(m.callID)
  /\ sent' = IF getSession(m.callID).state = "TERMINATING" THEN <<>>
             ELSE << To(OtherParty(getSession(m.callID), a), m) >>
  /\ setState(m.callID, "TERMINATING")

processByeMessage_Deletes(m, a) ==
  /\ IsRequest(m, "BYE")
  /\ hasSession(m.callID)
  /\ sent' = << To(OtherParty(getSession(m.callID), a), m) >>
  /\ removeSession(m.callID)

\* The session outlives BYE: it is removed when BYE is answered.
processByeMessage(m, a) ==
  /\ IsRequest(m, "BYE")
  /\ hasSession(m.callID)
  /\ sent' = << To(OtherParty(getSession(m.callID), a), m) >>
  /\ setState(m.callID, "TERMINATING")

\* The proxy answers CANCEL itself, always towards the caller, and forwards it.
processCancelMessage(m, a) ==
  /\ IsRequest(m, "CANCEL")
  /\ hasSession(m.callID)
  /\ sent' = << To(getSession(m.callID).caller, build_200_OK(m)),
                To(OtherParty(getSession(m.callID), a), m) >>
  /\ UNCHANGED m_sessions

-------------------------------------------------------------------------------
(* Responses: forwarded to the other party, then the status line decides. *)

ForwardResponse(m, a) ==
  /\ IsResponse(m)
  /\ hasSession(m.callID)
  /\ sent' = << To(OtherParty(getSession(m.callID), a), m) >>

\* The responses after which the proxy forgets the call.
EndsCall(m) ==
  /\ "180" \notin m.line
  /\ \/ "200" \in m.line /\ m.cseq = "BYE"
     \/ "200" \notin m.line /\ "487" \in m.line

processRinging(m, a) ==
  /\ ForwardResponse(m, a)
  /\ "180" \in m.line
  /\ setState(m.callID, "RINGING")

\* (mutant: the ended call is never removed)
processEndOfCall_Keeps(m, a) ==
  /\ ForwardResponse(m, a)
  /\ EndsCall(m)
  /\ setState(m.callID, "TERMINATING")

processEndOfCall(m, a) ==
  /\ ForwardResponse(m, a)
  /\ EndsCall(m)
  /\ removeSession(m.callID)

processCancelOk(m, a) ==
  /\ ForwardResponse(m, a)
  /\ "180" \notin m.line /\ "200" \in m.line /\ m.cseq = "CANCEL"
  /\ setState(m.callID, "CANCELLING")

\* (mutant: the test for CANCEL forgotten)
processOk_AnyCSeq(m, a) ==
  /\ ForwardResponse(m, a)
  /\ "180" \notin m.line /\ "200" \in m.line /\ m.cseq # "BYE"
  /\ setState(m.callID, "CONNECTED")

processOk(m, a) ==
  /\ ForwardResponse(m, a)
  /\ "180" \notin m.line /\ "200" \in m.line /\ m.cseq \notin {"BYE", "CANCEL"}
  /\ setState(m.callID, "CONNECTED")

\* Any other response (100, 183, 4xx, 5xx ...) is only forwarded.
processOtherResponse(m, a) ==
  /\ ForwardResponse(m, a)
  /\ m.line \cap {"180", "200", "487"} = {}
  /\ UNCHANGED m_sessions

-------------------------------------------------------------------------------
\* No session for the Call-ID, or a method no handler is there for.
ignoreMessage(m) ==
  /\ \/ IsRequest(m, "OTHER")
     \/ ~ hasSession(m.callID) /\ ~ IsRequest(m, "INVITE")
  /\ sent' = <<>>
  /\ UNCHANGED m_sessions

processSipMessage(m, a) ==
  \/ processInviteMessage(m, a)
  \/ processAckMessage(m, a)
  \/ processByeMessage(m, a)
  \/ processCancelMessage(m, a)
  \/ processRinging(m, a)
  \/ processEndOfCall(m, a)
  \/ processCancelOk(m, a)
  \/ processOk(m, a)
  \/ processOtherResponse(m, a)
  \/ ignoreMessage(m)

\* The proxy on its own: any datagram may come from any address at any time.
ServerNext == \E m \in Message, a \in Addr : processSipMessage(m, a)

ServerSpec == ServerInit /\ [][ServerNext]_serverVars

-------------------------------------------------------------------------------
(* Properties of the proxy under any input. *)

\* While a call lives its two parties never change: a repeated INVITE, or one
\* with the same Call-ID from elsewhere, takes nobody's call over.
PartiesFixed ==
  [][\A c \in CallID :
       hasSession(c) /\ m_sessions'[c] # NoSession =>
         /\ m_sessions'[c].caller = m_sessions[c].caller
         /\ m_sessions'[c].target = m_sessions[c].target]_serverVars

\* A session is dropped only by the step that passes the ending response on, to a
\* party of the call as the session recorded it.
ClosedByForwarding ==
  [][\A c \in CallID :
       hasSession(c) /\ m_sessions'[c] = NoSession =>
         \E i \in DOMAIN sent' :
           /\ sent'[i].dst \in {m_sessions[c].caller, m_sessions[c].target}
           /\ sent'[i].msg.callID = c
           /\ IsResponse(sent'[i].msg) /\ EndsCall(sent'[i].msg)]_serverVars

\* Calls do not interfere: a step changes the session of at most one Call-ID and
\* sends messages of that Call-ID only.
OneCallPerStep ==
  [][\E c \in CallID :
       /\ \A d \in CallID \ {c} : m_sessions'[d] = m_sessions[d]
       /\ \A i \in DOMAIN sent' : sent'[i].msg.callID = c]_serverVars
===============================================================================
