---------------------------- MODULE SIPServerProofs ----------------------------
(***************************************************************************)
(* What a datagram can do to the session table and what it makes the proxy  *)
(* send, for any addresses, Call-IDs and status lines.                      *)
(***************************************************************************)
EXTENDS SIPServer, TLAPS

-------------------------------------------------------------------------------
(* Messages and sessions. *)

LEMMA MessageIsTyped ==
  ASSUME NEW m \in Message
  PROVE  /\ m.callID \in CallID
         /\ IsResponse(m) => m \in Response
         /\ ~ IsResponse(m) => m \in Request
BY DEF Message, Request, Response, IsResponse

\* The answers the proxy makes up are messages of the call of the request.
LEMMA AnswersAreTyped ==
  ASSUME NEW m \in Message, m.kind = "request"
  PROVE  /\ build100Trying(m) \in Message /\ build100Trying(m).callID = m.callID
         /\ build_200_OK(m) \in Message /\ build_200_OK(m).callID = m.callID
<1>1. m \in Request
  BY DEF Message, Request, Response
<1>2. m.callID \in CallID /\ m.cseq \in Method
  BY <1>1 DEF Request
<1>3. {"100"} \in StatusLine /\ {"200"} \in StatusLine
  BY StatusLineAssumption DEF Code
<1> QED
  BY <1>2, <1>3 DEF build100Trying, build_200_OK, Resp, Message, Response

LEMMA ToIsTyped ==
  ASSUME NEW x \in Addr, NEW m \in Message
  PROVE  To(x, m) \in Outgoing /\ To(x, m).dst = x /\ To(x, m).msg = m
BY DEF To, Outgoing

LEMMA SessionIsTyped ==
  ASSUME SessionsTypeOK, NEW c \in CallID, hasSession(c)
  PROVE  /\ getSession(c) \in CallSession
         /\ getSession(c).caller \in Addr
         /\ getSession(c).target \in Addr
         /\ \A a : OtherParty(getSession(c), a) \in {getSession(c).caller, getSession(c).target}
BY DEF SessionsTypeOK, hasSession, getSession, CallSession, OtherParty, isCaller

\* setState leaves the table typed, the other calls alone and the parties in place.
LEMMA SetStateKeeps ==
  ASSUME SessionsTypeOK, NEW c \in CallID, hasSession(c),
         NEW state \in SessionState, setState(c, state)
  PROVE  /\ SessionsTypeOK'
         /\ m_sessions'[c] \in CallSession
         /\ m_sessions'[c].caller = m_sessions[c].caller
         /\ m_sessions'[c].target = m_sessions[c].target
         /\ \A d \in CallID \ {c} : m_sessions'[d] = m_sessions[d]
<1>1. m_sessions[c] \in CallSession
  BY SessionIsTyped DEF getSession
<1>2. m_sessions' = [m_sessions EXCEPT ![c] = [m_sessions[c] EXCEPT !.state = state]]
  BY DEF setState
<1>3. [m_sessions[c] EXCEPT !.state = state] \in CallSession
  BY <1>1 DEF CallSession
<1>4. /\ [m_sessions[c] EXCEPT !.state = state].caller = m_sessions[c].caller
      /\ [m_sessions[c] EXCEPT !.state = state].target = m_sessions[c].target
  BY <1>1 DEF CallSession
<1> QED
  BY <1>2, <1>3, <1>4 DEF SessionsTypeOK

-------------------------------------------------------------------------------
(* The table after a datagram. *)

\* How the session of call c may look after a datagram m from a.
SessionStep(m, a, c) ==
  \/ m_sessions'[c] = m_sessions[c]
  \/ /\ c = m.callID /\ ~ hasSession(c) /\ IsRequest(m, "INVITE")
     /\ m_sessions'[c] = [caller |-> a, target |-> Target, state |-> "INVITE_SENT"]
  \/ /\ c = m.callID /\ hasSession(c)
     /\ m_sessions'[c] \in CallSession
     /\ m_sessions'[c].caller = m_sessions[c].caller
     /\ m_sessions'[c].target = m_sessions[c].target
  \/ /\ c = m.callID /\ hasSession(c) /\ IsResponse(m) /\ EndsCall(m)
     /\ m_sessions'[c] = NoSession

\* What a datagram m from a may make the proxy send.
SendStep(m, a) ==
  /\ sent' \in Seq(Outgoing)
  /\ \A i \in DOMAIN sent' :
       LET o == sent'[i] IN
       \/ IsRequest(m, "INVITE") /\ o = To(a, build100Trying(m))
       \/ IsRequest(m, "INVITE") /\ o = To(Target, m)
       \/ /\ hasSession(m.callID) /\ ~ IsRequest(m, "INVITE")
          /\ o = To(OtherParty(getSession(m.callID), a), m)
       \/ /\ hasSession(m.callID) /\ IsRequest(m, "CANCEL")
          /\ o = To(getSession(m.callID).caller, build_200_OK(m))

\* Every handler keeps the table typed and changes the session of its own call only.
LEMMA TableStep ==
  ASSUME ServerTypeOK, NEW m \in Message, NEW a \in Addr, processSipMessage(m, a)
  PROVE  SessionsTypeOK' /\ \A c \in CallID : SessionStep(m, a, c)
<1> USE DEF ServerTypeOK
<1>1. m.callID \in CallID
  BY MessageIsTyped
<1> DEFINE Same == UNCHANGED m_sessions
           Goal == SessionsTypeOK' /\ \A c \in CallID : SessionStep(m, a, c)
<1>2. ASSUME Same PROVE Goal
  BY <1>2 DEF SessionsTypeOK, SessionStep
<1>3. ASSUME NEW state \in SessionState, hasSession(m.callID), setState(m.callID, state) PROVE Goal
  BY <1>1, <1>3, SetStateKeeps DEF SessionStep
<1>4. CASE processInviteMessage(m, a)
  <2> DEFINE s == [caller |-> a, target |-> Target, state |-> "INVITE_SENT"]
  <2>1. s \in CallSession
    BY TargetAssumption DEF CallSession, SessionState
  <2>2. CASE hasSession(m.callID)
    BY <1>2, <1>4, <2>2 DEF processInviteMessage, addSession
  <2>3. CASE ~ hasSession(m.callID)
    <3>1. m_sessions' = [m_sessions EXCEPT ![m.callID] = s]
      BY <1>4, <2>3 DEF processInviteMessage, addSession
    <3> QED
      BY <1>1, <1>4, <2>1, <2>3, <3>1 DEF SessionsTypeOK, SessionStep, processInviteMessage
  <2> QED
    BY <2>2, <2>3
<1>5. CASE processAckMessage(m, a) \/ processCancelMessage(m, a) \/ processOtherResponse(m, a) \/ ignoreMessage(m)
  BY <1>2, <1>5 DEF processAckMessage, processCancelMessage, processOtherResponse, ignoreMessage
<1>6. CASE processByeMessage(m, a)
  BY <1>3, <1>6 DEF processByeMessage, SessionState
<1>7. CASE processRinging(m, a)
  BY <1>3, <1>7 DEF processRinging, ForwardResponse, SessionState
<1>8. CASE processCancelOk(m, a)
  BY <1>3, <1>8 DEF processCancelOk, ForwardResponse, SessionState
<1>9. CASE processOk(m, a)
  BY <1>3, <1>9 DEF processOk, ForwardResponse, SessionState
<1>10. CASE processEndOfCall(m, a)
  BY <1>1, <1>10 DEF processEndOfCall, ForwardResponse, removeSession, SessionsTypeOK, SessionStep
<1> QED
  BY <1>4, <1>5, <1>6, <1>7, <1>8, <1>9, <1>10 DEF processSipMessage

\* Every handler sends what SendStep lists and nothing else.
LEMMA SendsStep ==
  ASSUME ServerTypeOK, NEW m \in Message, NEW a \in Addr, processSipMessage(m, a)
  PROVE  SendStep(m, a)
<1> USE DEF ServerTypeOK
<1>1. m.callID \in CallID
  BY MessageIsTyped
<1> DEFINE other == To(OtherParty(getSession(m.callID), a), m)
<1>2. ASSUME hasSession(m.callID)
      PROVE  other \in Outgoing /\ getSession(m.callID).caller \in Addr
  BY <1>1, <1>2, SessionIsTyped, ToIsTyped
<1>3. ASSUME hasSession(m.callID), ~ IsRequest(m, "INVITE"), sent' = << other >>
      PROVE  SendStep(m, a)
  BY <1>2, <1>3 DEF SendStep
<1>4. CASE processInviteMessage(m, a)
  <2>1. To(a, build100Trying(m)) \in Outgoing /\ To(Target, m) \in Outgoing
    BY <1>4, AnswersAreTyped, ToIsTyped, TargetAssumption DEF processInviteMessage, IsRequest
  <2> QED
    BY <1>4, <2>1 DEF processInviteMessage, SendStep
<1>5. CASE processCancelMessage(m, a)
  <2>1. To(getSession(m.callID).caller, build_200_OK(m)) \in Outgoing
    BY <1>2, <1>5, AnswersAreTyped, ToIsTyped DEF processCancelMessage, IsRequest
  <2>2. ~ IsRequest(m, "INVITE")
    BY <1>5 DEF processCancelMessage, IsRequest
  <2> QED
    BY <1>2, <1>5, <2>1, <2>2 DEF processCancelMessage, SendStep
<1>6. CASE processAckMessage(m, a) \/ processByeMessage(m, a)
  BY <1>3, <1>6 DEF processAckMessage, processByeMessage, IsRequest
<1>7. CASE ForwardResponse(m, a)
  BY <1>3, <1>7 DEF ForwardResponse, IsResponse, IsRequest
<1>8. CASE ignoreMessage(m)
  BY <1>8 DEF ignoreMessage, SendStep
<1> QED
  BY <1>4, <1>5, <1>6, <1>7, <1>8
  DEF processSipMessage, processRinging, processEndOfCall, processCancelOk, processOk, processOtherResponse

-------------------------------------------------------------------------------
(* The proxy under any input. *)

LEMMA ServerTypeStep ==
  ASSUME ServerTypeOK, [ServerNext]_serverVars
  PROVE  ServerTypeOK'
<1>1. CASE ServerNext
  BY <1>1, TableStep, SendsStep DEF ServerNext, ServerTypeOK, SendStep
<1>2. CASE UNCHANGED serverVars
  BY <1>2 DEF serverVars, ServerTypeOK, SessionsTypeOK
<1> QED
  BY <1>1, <1>2

\* The table maps every Call-ID to a session or to none, and what is sent is a
\* datagram for an address.
THEOREM ServerTyping == ServerSpec => []ServerTypeOK
<1>1. ServerInit => ServerTypeOK
  BY DEF ServerInit, SessionsInit, ServerTypeOK, SessionsTypeOK
<1>2. ServerTypeOK /\ [ServerNext]_serverVars => ServerTypeOK'
  BY ServerTypeStep
<1> QED
  BY <1>1, <1>2, PTL DEF ServerSpec

\* Whatever arrives, in whatever order, the parties of a live call stay the same.
THEOREM PartiesStayFixed == ServerSpec => PartiesFixed
<1> DEFINE A == \A c \in CallID :
       hasSession(c) /\ m_sessions'[c] # NoSession =>
         /\ m_sessions'[c].caller = m_sessions[c].caller
         /\ m_sessions'[c].target = m_sessions[c].target
<1>1. ServerTypeOK /\ [ServerNext]_serverVars => [A]_serverVars
  BY TableStep DEF ServerNext, SessionStep
<1> QED
  BY <1>1, ServerTyping, PTL DEF ServerSpec, PartiesFixed

\* Whatever arrives, a step touches one call's session and sends in that call only.
THEOREM CallsDoNotInterfere == ServerSpec => OneCallPerStep
<1> DEFINE A == \E c \in CallID :
       /\ \A d \in CallID \ {c} : m_sessions'[d] = m_sessions[d]
       /\ \A i \in DOMAIN sent' : sent'[i].msg.callID = c
<1>1. ASSUME ServerTypeOK, NEW m \in Message, NEW a \in Addr, processSipMessage(m, a)
      PROVE  A
  <2>1. m.callID \in CallID
    BY MessageIsTyped
  <2>2. \A d \in CallID \ {m.callID} : m_sessions'[d] = m_sessions[d]
    BY <1>1, TableStep DEF SessionStep
  <2>3. ASSUME NEW i \in DOMAIN sent' PROVE sent'[i].msg.callID = m.callID
    BY <1>1, <2>1, SendsStep, AnswersAreTyped DEF SendStep, To, IsRequest
  <2> QED
    BY <2>1, <2>2, <2>3
<1>2. ServerTypeOK /\ [ServerNext]_serverVars => [A]_serverVars
  BY <1>1 DEF ServerNext
<1> QED
  BY <1>2, ServerTyping, PTL DEF ServerSpec, OneCallPerStep
\* Whatever arrives, a session ends only in the step that passes the ending
\* response on to a party of the call.
THEOREM SessionsEndByForwarding == ServerSpec => ClosedByForwarding
<1> DEFINE A == \A c \in CallID :
       hasSession(c) /\ m_sessions'[c] = NoSession =>
         \E i \in DOMAIN sent' :
           /\ sent'[i].dst \in {m_sessions[c].caller, m_sessions[c].target}
           /\ sent'[i].msg.callID = c
           /\ IsResponse(sent'[i].msg) /\ EndsCall(sent'[i].msg)
<1>1. ASSUME ServerTypeOK, NEW m \in Message, NEW a \in Addr, processSipMessage(m, a),
             NEW c \in CallID, hasSession(c), m_sessions'[c] = NoSession
      PROVE  /\ c = m.callID /\ IsResponse(m) /\ EndsCall(m)
             /\ sent' = << To(OtherParty(getSession(c), a), m) >>
  <2>1. c = m.callID /\ IsResponse(m) /\ EndsCall(m)
    BY <1>1, TableStep, NoSessionAssumption DEF SessionStep, hasSession
  <2>2. ForwardResponse(m, a)
    BY <1>1, <2>1
    DEF processSipMessage, processInviteMessage, processAckMessage, processByeMessage,
        processCancelMessage, processRinging, processEndOfCall, processCancelOk, processOk,
        processOtherResponse, ignoreMessage, IsRequest, IsResponse
  <2> QED
    BY <2>1, <2>2 DEF ForwardResponse
<1>2. ASSUME ServerTypeOK, NEW m \in Message, NEW a \in Addr, processSipMessage(m, a)
      PROVE  A
  <2> SUFFICES ASSUME NEW c \in CallID, hasSession(c), m_sessions'[c] = NoSession
               PROVE  /\ 1 \in DOMAIN sent'
                      /\ sent'[1].dst \in {m_sessions[c].caller, m_sessions[c].target}
                      /\ sent'[1].msg.callID = c
                      /\ IsResponse(sent'[1].msg) /\ EndsCall(sent'[1].msg)
    OBVIOUS
  <2>1. OtherParty(getSession(c), a) \in {m_sessions[c].caller, m_sessions[c].target}
    BY <1>2, SessionIsTyped DEF ServerTypeOK, getSession
  <2> QED
    BY <1>1, <1>2, <2>1 DEF To
<1>3. ServerTypeOK /\ [ServerNext]_serverVars => [A]_serverVars
  BY <1>2 DEF ServerNext
<1> QED
  BY <1>3, ServerTyping, PTL DEF ServerSpec, ClosedByForwarding
===============================================================================
