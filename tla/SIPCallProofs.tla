----------------------------- MODULE SIPCallProofs -----------------------------
(***************************************************************************)
(* The proxy between its callers and the callee over an unreliable network, *)
(* for any number of calls, callers and status lines: types, the parties of *)
(* a session, how a call is forgotten, SIPCall as an implementation of      *)
(* CallRelay, and that the state shown for a call is one the call was in.   *)
(***************************************************************************)
EXTENDS SIPCall, SIPServerProofs

-------------------------------------------------------------------------------
(* The steps of the endpoints, as far as the proxy and the network see them. *)

\* What an endpoint may do: send typed messages, and nothing else.
EndpointStep ==
  /\ toProxy \subseteq toProxy'
  /\ toProxy' \subseteq Incoming
  /\ UNCHANGED <<fromProxy, m_sessions>>
  /\ sent' = <<>>

\* A request with a given method is the request Req makes.
LEMMA RequestIsReq ==
  ASSUME NEW m \in Proper, NEW method \in Method, IsRequest(m, method)
  PROVE  m = Req(m.callID, method)
BY DEF Proper, Message, Request, Response, IsResponse, IsRequest, Req

LEMMA EmitIsEndpointStep ==
  ASSUME toProxy \subseteq Incoming, NEW a \in Addr, NEW ms \in SUBSET Proper, Emit(a, ms)
  PROVE  EndpointStep
BY DEF Emit, EndpointStep, Incoming

LEMMA ReqIsTyped ==
  ASSUME NEW c \in CallID, NEW method \in Method
  PROVE  Req(c, method) \in Proper
BY DEF Req, Proper, Message, Request

LEMMA RespIsTyped ==
  ASSUME NEW c \in CallID, NEW code \in Code, NEW method \in Method
  PROVE  Resp(c, code, method) \in Proper
BY StatusLineAssumption DEF Resp, Proper, Message, Response, IsResponse

LEMMA UacStepTyped ==
  ASSUME TypeOK, NEW a \in Callers, NEW c \in CallID, Uac(a, c)
  PROVE  /\ EndpointStep
         /\ uac' \in [Callers -> [CallID -> UacState]]
         /\ uas' = uas
<1> USE DEF TypeOK
<1> DEFINE Goal == EndpointStep /\ uac' \in [Callers -> [CallID -> UacState]] /\ uas' = uas
<1>1. a \in Addr
  BY DEF Callers
<1>2. ASSUME NEW from, NEW to \in UacState, UacStep(a, c, from, to),
             NEW ms \in SUBSET Proper, Emit(a, ms)
      PROVE  Goal
  BY <1>1, <1>2, EmitIsEndpointStep DEF UacStep
<1>3. /\ {Req(c, "INVITE")} \in SUBSET Proper
      /\ {Req(c, "CANCEL")} \in SUBSET Proper
      /\ {Req(c, "ACK")} \in SUBSET Proper
      /\ {Req(c, "BYE")} \in SUBSET Proper
      /\ {Resp(c, "200", "BYE")} \in SUBSET Proper
      /\ {} \in SUBSET Proper
  BY ReqIsTyped, RespIsTyped DEF Method, Code
<1>4. CASE UacInvite(a, c)
  BY <1>2, <1>3, <1>4 DEF UacInvite, UacState
<1>5. CASE UacCancel(a, c)
  BY <1>2, <1>3, <1>5 DEF UacCancel, UacState
<1>6. CASE UacOk(a, c)
  BY <1>2, <1>3, <1>6 DEF UacOk, UacState
<1>7. CASE UacTerminated(a, c)
  BY <1>2, <1>3, <1>7 DEF UacTerminated, UacState
<1>8. CASE UacRefused(a, c)
  BY <1>2, <1>3, <1>8 DEF UacRefused, UacState
<1>9. CASE UacBye(a, c)
  BY <1>2, <1>3, <1>9 DEF UacBye, UacState
<1>10. CASE UacByeOk(a, c)
  BY <1>2, <1>3, <1>10 DEF UacByeOk, UacState
<1>11. CASE UacByed(a, c)
  BY <1>2, <1>3, <1>11 DEF UacByed, UacState
<1> QED
  BY <1>4, <1>5, <1>6, <1>7, <1>8, <1>9, <1>10, <1>11 DEF Uac

LEMMA UasStepTyped ==
  ASSUME TypeOK, NEW c \in CallID, Uas(c)
  PROVE  /\ EndpointStep
         /\ uas' \in [CallID -> UasState]
         /\ uac' = uac
<1> USE DEF TypeOK
<1> DEFINE Goal == EndpointStep /\ uas' \in [CallID -> UasState] /\ uac' = uac
<1>1. ASSUME NEW from, NEW to \in UasState, UasStep(c, from, to),
             NEW ms \in SUBSET Proper, Emit(Target, ms)
      PROVE  Goal
  BY <1>1, EmitIsEndpointStep, TargetAssumption DEF UasStep
<1>2. /\ {Resp(c, "180", "INVITE")} \in SUBSET Proper
      /\ {Resp(c, "200", "INVITE")} \in SUBSET Proper
      /\ {Resp(c, "486", "INVITE")} \in SUBSET Proper
      /\ {Resp(c, "200", "CANCEL"), Resp(c, "487", "INVITE")} \in SUBSET Proper
      /\ {Resp(c, "200", "CANCEL")} \in SUBSET Proper
      /\ {Resp(c, "200", "BYE")} \in SUBSET Proper
      /\ {Req(c, "BYE")} \in SUBSET Proper
      /\ {} \in SUBSET Proper
  BY ReqIsTyped, RespIsTyped DEF Method, Code
<1>3. CASE UasRing(c)
  BY <1>1, <1>2, <1>3 DEF UasRing, UasState
<1>4. CASE UasAnswer(c)
  BY <1>1, <1>2, <1>4 DEF UasAnswer, UasState
<1>5. CASE UasRefuse(c)
  BY <1>1, <1>2, <1>5 DEF UasRefuse, UasState
<1>6. CASE UasCancelled(c)
  BY <1>1, <1>2, <1>6 DEF UasCancelled, UasState
<1>7. CASE UasTooLate(c)
  BY <1>1, <1>2, <1>7 DEF UasTooLate, UasState
<1>8. CASE UasBye(c)
  BY <1>1, <1>2, <1>8 DEF UasBye, UasState
<1>9. CASE UasByeOk(c)
  BY <1>1, <1>2, <1>9 DEF UasByeOk, UasState
<1>10. CASE UasByed(c)
  BY <1>1, <1>2, <1>10 DEF UasByed, UasState
<1> QED
  BY <1>3, <1>4, <1>5, <1>6, <1>7, <1>8, <1>9, <1>10 DEF Uas

-------------------------------------------------------------------------------
(* The step of the proxy. *)

LEMMA RunStep ==
  ASSUME TypeOK, run
  PROVE  \E d \in toProxy :
           /\ d.msg \in Proper /\ d.msg \in Message /\ d.msg.callID \in CallID /\ d.src \in Addr
           /\ processSipMessage(d.msg, d.src)
           /\ SessionsTypeOK'
           /\ \A c \in CallID : SessionStep(d.msg, d.src, c)
           /\ SendStep(d.msg, d.src)
<1>1. PICK d \in toProxy : processSipMessage(d.msg, d.src)
  BY DEF run
<1>2. d.msg \in Proper /\ d.msg \in Message /\ d.src \in Addr
  BY DEF TypeOK, Incoming, Proper
<1> QED
  BY <1>1, <1>2, TableStep, SendsStep, MessageIsTyped DEF TypeOK

LEMMA TypeStep ==
  ASSUME TypeOK, [Next]_vars
  PROVE  TypeOK'
<1>1. CASE run
  <2>1. SessionsTypeOK' /\ sent' \in Seq(Outgoing)
    BY <1>1, RunStep DEF SendStep
  <2>2. Range(sent') \subseteq Outgoing
    BY <2>1 DEF Range
  <2> QED
    BY <1>1, <2>1, <2>2 DEF run, TypeOK, ServerTypeOK, endpointVars
<1>2. ASSUME EndpointStep PROVE ServerTypeOK' /\ toProxy' \subseteq Incoming /\ fromProxy' \subseteq Outgoing
  BY <1>2 DEF EndpointStep, TypeOK, ServerTypeOK, SessionsTypeOK
<1>3. CASE \E a \in Callers, c \in CallID : Uac(a, c)
  BY <1>2, <1>3, UacStepTyped DEF TypeOK
<1>4. CASE \E c \in CallID : Uas(c)
  BY <1>2, <1>4, UasStepTyped DEF TypeOK
<1>5. CASE UNCHANGED vars
  BY <1>5 DEF vars, serverVars, netVars, endpointVars, TypeOK, ServerTypeOK, SessionsTypeOK
<1> QED
  BY <1>1, <1>3, <1>4, <1>5 DEF Next

\* Every variable keeps its type: the sessions, the network and the endpoints.
THEOREM Typing == Spec => []TypeOK
<1>1. Init => TypeOK
  BY DEF Init, TypeOK, ServerTypeOK, ServerInit, SessionsInit, SessionsTypeOK, UacState, UasState
<1>2. TypeOK /\ [Next]_vars => TypeOK'
  BY TypeStep
<1> QED
  BY <1>1, <1>2, PTL DEF Spec
-------------------------------------------------------------------------------
(* A step is the proxy's, or one that only adds datagrams for the proxy. *)

Calm == toProxy \subseteq toProxy' /\ UNCHANGED <<fromProxy, m_sessions>>

LEMMA StepCases ==
  ASSUME TypeOK, [Next]_vars
  PROVE  run \/ Calm
BY UacStepTyped, UasStepTyped DEF Next, EndpointStep, Calm, vars, serverVars, netVars

LEMMA InRange ==
  ASSUME NEW s, NEW x \in Range(s)
  PROVE  \E i \in DOMAIN s : x = s[i]
BY DEF Range

-------------------------------------------------------------------------------
(* Who is sent to. *)

\* A session's caller is somebody whose INVITE for that call has been seen, and its
\* target is the callee.
SessionsInvited ==
  \A c \in CallID :
    hasSession(c) => InvitedBy(getSession(c).caller, c) /\ getSession(c).target = Target

PartyInv == SessionsInvited /\ OnlyPartiesAreSent

LEMMA PartyStep ==
  ASSUME TypeOK, PartyInv, [Next]_vars
  PROVE  PartyInv'
<1>1. CASE Calm
  BY <1>1 DEF Calm, PartyInv, SessionsInvited, OnlyPartiesAreSent, hasSession, getSession, InvitedBy
<1>2. CASE run
  <2>1. toProxy' = toProxy /\ fromProxy' = fromProxy \cup Range(sent')
    BY <1>2 DEF run
  <2>2. PICK d \in toProxy :
          /\ d.msg \in Proper /\ d.msg \in Message /\ d.msg.callID \in CallID /\ d.src \in Addr
          /\ \A c \in CallID : SessionStep(d.msg, d.src, c)
          /\ SendStep(d.msg, d.src)
    BY <1>2, RunStep
  <2> DEFINE m == d.msg
             a == d.src
  <2>3. IsRequest(m, "INVITE") => InvitedBy(a, m.callID)
    <3>1. d = [src |-> a, msg |-> m]
      BY DEF TypeOK, Incoming
    <3>2. IsRequest(m, "INVITE") => m = Req(m.callID, "INVITE")
      BY <2>2, RequestIsReq DEF Method
    <3> QED
      BY <3>1, <3>2 DEF InvitedBy
  <2>4. SessionsInvited'
    <3> SUFFICES ASSUME NEW c \in CallID, m_sessions'[c] # NoSession
                 PROVE  InvitedBy(m_sessions'[c].caller, c) /\ m_sessions'[c].target = Target
      BY <2>1 DEF SessionsInvited, hasSession, getSession, InvitedBy
    <3>1. SessionStep(m, a, c)
      BY <2>2
    <3> QED
      BY <2>3, <3>1 DEF SessionStep, PartyInv, SessionsInvited, hasSession, getSession
  <2>5. OnlyPartiesAreSent'
    <3> SUFFICES ASSUME NEW o \in Range(sent')
                 PROVE  o.dst = Target \/ InvitedBy(o.dst, o.msg.callID)
      BY <2>1 DEF PartyInv, OnlyPartiesAreSent, InvitedBy
    <3>1. PICK i \in DOMAIN sent' : o = sent'[i]
      BY InRange
    <3>2. m.kind = "request" =>
            build100Trying(m).callID = m.callID /\ build_200_OK(m).callID = m.callID
      BY <2>2, AnswersAreTyped
    <3>3. CASE IsRequest(m, "INVITE") /\ o \in {To(a, build100Trying(m)), To(Target, m)}
      BY <2>3, <3>2, <3>3 DEF To, IsRequest
    <3>4. CASE /\ hasSession(m.callID)
               /\ \/ o = To(OtherParty(getSession(m.callID), a), m)
                  \/ IsRequest(m, "CANCEL") /\ o = To(getSession(m.callID).caller, build_200_OK(m))
      <4>1. /\ InvitedBy(getSession(m.callID).caller, m.callID)
            /\ getSession(m.callID).target = Target
        BY <2>2, <3>4 DEF PartyInv, SessionsInvited
      <4> QED
        BY <2>2, <3>2, <3>4, <4>1 DEF To, OtherParty, IsRequest
    <3> QED
      BY <2>2, <3>1, <3>3, <3>4 DEF SendStep
  <2> QED
    BY <2>4, <2>5 DEF PartyInv
<1> QED
  BY <1>1, <1>2, StepCases

LEMMA PartyInvariance == Spec => []PartyInv
<1>1. Init => PartyInv
  BY DEF Init, ServerInit, SessionsInit, PartyInv, SessionsInvited, OnlyPartiesAreSent, hasSession
<1>2. TypeOK /\ PartyInv /\ [Next]_vars => PartyInv'
  BY PartyStep
<1> QED
  BY <1>1, <1>2, Typing, PTL DEF Spec

\* Nobody but the callee and those who invited it to a call hears of that call.
THEOREM NoCrossTalk == Spec => []OnlyPartiesAreSent
<1>1. PartyInv => OnlyPartiesAreSent
  BY DEF PartyInv
<1> QED
  BY <1>1, PartyInvariance, PTL

-------------------------------------------------------------------------------
(* What is sent. *)

LEMMA NothingInventedStep ==
  ASSUME TypeOK, NothingInvented, [Next]_vars
  PROVE  NothingInvented'
<1>1. CASE Calm
  BY <1>1 DEF Calm, NothingInvented, Heard, InvitedBy
<1>2. CASE run
  <2>1. toProxy' = toProxy /\ fromProxy' = fromProxy \cup Range(sent')
    BY <1>2 DEF run
  <2>2. PICK d \in toProxy : d.msg \in Proper /\ d.msg \in Message /\ d.src \in Addr /\ SendStep(d.msg, d.src)
    BY <1>2, RunStep
  <2> DEFINE m == d.msg
             a == d.src
  <2>3. d = [src |-> a, msg |-> m]
    BY DEF TypeOK, Incoming
  <2> SUFFICES ASSUME NEW o \in Range(sent')
               PROVE  \/ Heard(o.msg)
                      \/ /\ o.msg = Resp(o.msg.callID, "100", "INVITE")
                         /\ InvitedBy(o.dst, o.msg.callID)
                      \/ /\ o.msg = Resp(o.msg.callID, "200", "CANCEL")
                         /\ Heard(Req(o.msg.callID, "CANCEL"))
    BY <2>1 DEF NothingInvented, Heard, InvitedBy
  <2>4. PICK i \in DOMAIN sent' : o = sent'[i]
    BY InRange
  <2>5. m.kind = "request" =>
          build100Trying(m).callID = m.callID /\ build_200_OK(m).callID = m.callID
    BY <2>2, AnswersAreTyped
  <2>6. CASE o.msg = m
    BY <2>6 DEF Heard
  <2>7. CASE IsRequest(m, "INVITE") /\ o = To(a, build100Trying(m))
    <3>1. m = Req(m.callID, "INVITE")
      BY <2>2, <2>7, RequestIsReq DEF Method
    <3>2. m.cseq = "INVITE"
      BY <3>1 DEF Req
    <3> QED
      BY <2>3, <2>5, <2>7, <3>1, <3>2 DEF To, InvitedBy, IsRequest, build100Trying
  <2>8. CASE IsRequest(m, "CANCEL") /\ o = To(getSession(m.callID).caller, build_200_OK(m))
    <3>1. m = Req(m.callID, "CANCEL")
      BY <2>2, <2>8, RequestIsReq DEF Method
    <3>2. m.cseq = "CANCEL"
      BY <3>1 DEF Req
    <3> QED
      BY <2>5, <2>8, <3>1, <3>2 DEF To, Heard, IsRequest, build_200_OK
  <2> QED
    BY <2>2, <2>4, <2>6, <2>7, <2>8 DEF SendStep, To
<1> QED
  BY <1>1, <1>2, StepCases

\* The proxy passes messages on as they are and makes up nothing but the 100 and
\* the 200 for CANCEL, each for a request it got.
THEOREM RelaysFaithfully == Spec => []NothingInvented
<1>1. Init => NothingInvented
  BY DEF Init, NothingInvented
<1>2. TypeOK /\ NothingInvented /\ [Next]_vars => NothingInvented'
  BY NothingInventedStep
<1> QED
  BY <1>1, <1>2, Typing, PTL DEF Spec
-------------------------------------------------------------------------------
(* How the two ends come to agree. *)

\* What the callee answered to the INVITE shows in its own state for good.
AnswersAreTrue ==
  \A c \in CallID :
    /\ Heard(Resp(c, "200", "INVITE")) => uas[c] \in {"answered", "hangup", "ended"}
    /\ Heard(Resp(c, "487", "INVITE")) => uas[c] = "cancelled"
    /\ Heard(Resp(c, "486", "INVITE")) => uas[c] = "refused"

OutcomeInv == AnswersAreTrue /\ OutcomeAgreement

LEMMA HeardAfterEmit ==
  ASSUME NEW a, NEW ms, Emit(a, ms), NEW m
  PROVE  Heard(m)' <=> (Heard(m) \/ m \in ms)
<1>1. \A d : d \in toProxy' <=> d \in toProxy \/ \E x \in ms : d = [src |-> a, msg |-> x]
  BY DEF Emit
<1>2. Heard(m)' <=> \E d \in toProxy' : d.msg = m
  BY DEF Heard
<1>3. \A x \in ms : [src |-> a, msg |-> x].msg = x
  OBVIOUS
<1> QED
  BY <1>1, <1>2, <1>3 DEF Heard

LEMMA RespsDiffer ==
  ASSUME NEW c, NEW d, NEW x, NEW y, NEW r, NEW s, Resp(c, x, r) = Resp(d, y, s)
  PROVE  c = d /\ x = y /\ r = s
<1>1. Resp(c, x, r).line = Resp(d, y, s).line
  OBVIOUS
<1>2. {x} = {y}
  BY <1>1 DEF Resp
<1> QED
  BY <1>2 DEF Resp

LEMMA ReqIsNoResp ==
  ASSUME NEW c, NEW d, NEW x, NEW r, NEW method
  PROVE  Req(c, method) # Resp(d, x, r)
BY DEF Req, Resp

\* Of the answers to an INVITE only the callee's own 200, 486 and 487 reach a caller.
LEMMA ReachedIsHeard ==
  ASSUME NothingInvented, NEW a, NEW c, NEW code \in {"200", "486", "487"},
         Reached(a, Resp(c, code, "INVITE"))
  PROVE  Heard(Resp(c, code, "INVITE"))
<1> DEFINE m == Resp(c, code, "INVITE")
<1>1. /\ To(a, m) \in fromProxy
      /\ To(a, m).msg = m
  BY DEF Reached, To
<1>2. m # Resp(m.callID, "100", "INVITE")
  BY RespsDiffer
<1>3. m # Resp(m.callID, "200", "CANCEL")
  BY RespsDiffer
<1> QED
  BY <1>1, <1>2, <1>3 DEF NothingInvented

\* A caller's steps: none makes an answer to an INVITE.
LEMMA UacOutcomeStep ==
  ASSUME TypeOK, NothingInvented, OutcomeInv, NEW a \in Callers, NEW c \in CallID, Uac(a, c)
  PROVE  OutcomeInv'
<1> USE DEF OutcomeInv
<1> DEFINE Out(b, d) ==
             /\ uac'[b][d] \in {"connected", "hangup", "ended"} =>
                  uas[d] \in {"answered", "hangup", "ended"}
             /\ uac'[b][d] = "cancelled" => uas[d] = "cancelled"
             /\ uac'[b][d] = "refused" => uas[d] = "refused"
<1>1. uas' = uas
  BY UacStepTyped
<1>2. PICK ms : Emit(a, ms) /\ \A d, code : Resp(d, code, "INVITE") \notin ms
  <2>1. \A d, code : /\ Resp(d, code, "INVITE") # Resp(c, "200", "BYE")
                     /\ \A method : Resp(d, code, "INVITE") # Req(c, method)
    BY RespsDiffer, ReqIsNoResp
  <2> DEFINE Fine(ms) == Emit(a, ms) /\ \A d, code : Resp(d, code, "INVITE") \notin ms
  <2>2. ASSUME NEW x \in {Req(c, "INVITE"), Req(c, "CANCEL"), Req(c, "ACK"), Req(c, "BYE"),
                          Resp(c, "200", "BYE")},
               Emit(a, {x})
        PROVE  Fine({x})
    BY <2>1, <2>2
  <2>3. Emit(a, {}) => Fine({})
    OBVIOUS
  <2> HIDE DEF Fine
  <2>4. \E ms : Fine(ms)
    BY <2>2, <2>3
    DEF Uac, UacInvite, UacCancel, UacOk, UacTerminated, UacRefused, UacBye, UacByeOk, UacByed
  <2> QED
    BY <2>4 DEF Fine
<1>3. AnswersAreTrue'
  BY <1>1, <1>2, HeardAfterEmit DEF AnswersAreTrue
<1>4. ASSUME NEW from, NEW to, UacStep(a, c, from, to),
             /\ to \in {"connected", "hangup", "ended"} => uas[c] \in {"answered", "hangup", "ended"}
             /\ to = "cancelled" => uas[c] = "cancelled"
             /\ to = "refused" => uas[c] = "refused"
      PROVE  OutcomeAgreement'
  <2>1. uac' = [uac EXCEPT ![a][c] = to]
    BY <1>4 DEF UacStep
  <2> SUFFICES ASSUME NEW b \in Callers, NEW d \in CallID
               PROVE  Out(b, d)
    BY <1>1 DEF OutcomeAgreement
  <2>2. CASE b = a /\ d = c
    BY <1>4, <2>1, <2>2 DEF TypeOK
  <2>3. CASE b # a \/ d # c
    <3>1. uac'[b][d] = uac[b][d]
      BY <2>1, <2>3 DEF TypeOK
    <3> QED
      BY <3>1 DEF OutcomeAgreement
  <2> QED
    BY <2>2, <2>3
<1>5. CASE UacInvite(a, c) \/ UacCancel(a, c)
  BY <1>3, <1>4, <1>5 DEF UacInvite, UacCancel
<1>6. CASE UacOk(a, c)
  BY <1>3, <1>4, <1>6, ReachedIsHeard DEF UacOk, AnswersAreTrue
<1>7. CASE UacTerminated(a, c)
  BY <1>3, <1>4, <1>7, ReachedIsHeard DEF UacTerminated, AnswersAreTrue
<1>8. CASE UacRefused(a, c)
  BY <1>3, <1>4, <1>8, ReachedIsHeard DEF UacRefused, AnswersAreTrue
<1>9. CASE UacBye(a, c) \/ UacByeOk(a, c) \/ UacByed(a, c)
  <2>1. uac[a][c] \in {"connected", "hangup"}
    BY <1>9 DEF UacBye, UacByeOk, UacByed, UacStep
  <2>2. uas[c] \in {"answered", "hangup", "ended"}
    BY <2>1 DEF OutcomeAgreement
  <2> QED
    BY <1>3, <1>4, <1>9, <2>2 DEF UacBye, UacByeOk, UacByed
<1> QED
  BY <1>5, <1>6, <1>7, <1>8, <1>9 DEF Uac

\* The callee's steps: it answers an INVITE in the step that changes its state.
LEMMA UasOutcomeStep ==
  ASSUME TypeOK, OutcomeInv, NEW c \in CallID, Uas(c)
  PROVE  OutcomeInv'
<1> USE DEF OutcomeInv
<1>1. uac' = uac
  BY UasStepTyped
<1>2. ASSUME NEW from, NEW to, UasStep(c, from, to), NEW ms, Emit(Target, ms),
             \/ from = {"idle"} \/ from = {"ringing"}
             \/ /\ from \subseteq {"answered", "hangup"}
                /\ to \in {"answered", "hangup", "ended"},
             \A d \in CallID :
               /\ Resp(d, "200", "INVITE") \in ms => d = c /\ to = "answered"
               /\ Resp(d, "487", "INVITE") \in ms => d = c /\ to = "cancelled"
               /\ Resp(d, "486", "INVITE") \in ms => d = c /\ to = "refused"
      PROVE  OutcomeInv'
  <2>1. uas[c] \in from /\ uas' = [uas EXCEPT ![c] = to]
    BY <1>2 DEF UasStep
  <2>2. /\ uas'[c] = to
        /\ \A d \in CallID \ {c} : uas'[d] = uas[d]
    BY <2>1 DEF TypeOK
  <2>3. AnswersAreTrue'
    BY <1>2, <2>1, <2>2, HeardAfterEmit DEF AnswersAreTrue
  <2>4. OutcomeAgreement'
    BY <1>1, <1>2, <2>1, <2>2 DEF OutcomeAgreement
  <2> QED
    BY <2>3, <2>4
<1>3. CASE UasRing(c)
  BY <1>2, <1>3, RespsDiffer DEF UasRing
<1>4. CASE UasAnswer(c)
  BY <1>2, <1>4, RespsDiffer DEF UasAnswer
<1>5. CASE UasRefuse(c)
  BY <1>2, <1>5, RespsDiffer DEF UasRefuse
<1>6. CASE UasCancelled(c)
  BY <1>2, <1>6, RespsDiffer DEF UasCancelled
<1>7. CASE UasTooLate(c)
  BY <1>2, <1>7, RespsDiffer DEF UasTooLate
<1>8. CASE UasBye(c)
  BY <1>2, <1>8, ReqIsNoResp DEF UasBye
<1>9. CASE UasByeOk(c)
  BY <1>2, <1>9 DEF UasByeOk
<1>10. CASE UasByed(c)
  BY <1>2, <1>10, RespsDiffer DEF UasByed
<1> QED
  BY <1>3, <1>4, <1>5, <1>6, <1>7, <1>8, <1>9, <1>10 DEF Uas

\* However messages are lost, repeated or overtaken, caller and callee agree on
\* whether a call was answered, cancelled or refused.
THEOREM EndsAgree == Spec => []OutcomeAgreement
<1>1. Init => OutcomeInv
  BY DEF Init, OutcomeInv, AnswersAreTrue, OutcomeAgreement, Heard
<1>2. ASSUME TypeOK, NothingInvented, OutcomeInv, [Next]_vars
      PROVE  OutcomeInv'
  <2>1. CASE run \/ UNCHANGED vars
    BY <1>2, <2>1 DEF run, vars, netVars, endpointVars, OutcomeInv, AnswersAreTrue,
                      OutcomeAgreement, Heard
  <2> QED
    BY <1>2, <2>1, UacOutcomeStep, UasOutcomeStep DEF Next
<1>3. OutcomeInv => OutcomeAgreement
  BY DEF OutcomeInv
<1> QED
  BY <1>1, <1>2, <1>3, Typing, RelaysFaithfully, PTL DEF Spec
-------------------------------------------------------------------------------
(* How a call is forgotten. *)

LEMMA InviteOpens ==
  ASSUME ServerTypeOK, NEW m \in Message, NEW a \in Addr, IsRequest(m, "INVITE"),
         processSipMessage(m, a)
  PROVE  m_sessions'[m.callID] # NoSession
<1>1. processInviteMessage(m, a)
  BY DEF processSipMessage, processInviteMessage, processAckMessage, processByeMessage,
         processCancelMessage, processRinging, processEndOfCall, processCancelOk, processOk,
         processOtherResponse, ForwardResponse, ignoreMessage, IsRequest, IsResponse
<1>2. [caller |-> a, target |-> Target, state |-> "INVITE_SENT"] # NoSession
  BY NoSessionAssumption, TargetAssumption DEF CallSession, SessionState
<1>3. m.callID \in CallID
  BY MessageIsTyped
<1> QED
  BY <1>1, <1>2, <1>3
  DEF processInviteMessage, addSession, hasSession, ServerTypeOK, SessionsTypeOK

\* The end of call c has been passed on.
Told(c) == \E o \in fromProxy :
             o.msg.callID = c /\ IsResponse(o.msg) /\ EndsCall(o.msg) /\ Heard(o.msg)

LEMMA ForgottenStep ==
  ASSUME TypeOK, ForgottenOnlyWhenTold, [Next]_vars
  PROVE  ForgottenOnlyWhenTold'
<1>1. CASE Calm
  BY <1>1 DEF Calm, ForgottenOnlyWhenTold, Known, Heard, hasSession
<1>2. CASE run
  <2>1. toProxy' = toProxy /\ fromProxy' = fromProxy \cup Range(sent')
    BY <1>2 DEF run
  <2>2. PICK d \in toProxy :
          /\ d.msg \in Message /\ d.msg.callID \in CallID /\ d.src \in Addr
          /\ processSipMessage(d.msg, d.src)
          /\ \A c \in CallID : SessionStep(d.msg, d.src, c)
          /\ SendStep(d.msg, d.src)
    BY <1>2, RunStep
  <2> DEFINE m == d.msg
             a == d.src
  <2> SUFFICES ASSUME NEW c \in CallID, Known(c)', m_sessions'[c] = NoSession
               PROVE  Told(c)'
    BY DEF ForgottenOnlyWhenTold, Told, hasSession
  <2>3. CASE ~ hasSession(c) /\ Known(c)
    BY <2>1, <2>3 DEF ForgottenOnlyWhenTold, Told, Heard
  <2>4. CASE hasSession(c)
    <3>1. c = m.callID /\ IsResponse(m) /\ EndsCall(m)
      BY <2>2, <2>4, NoSessionAssumption DEF SessionStep, hasSession
    <3>2. sent' = << To(OtherParty(getSession(c), a), m) >>
      BY <2>2, <2>4, <3>1
      DEF processSipMessage, processInviteMessage, processAckMessage, processByeMessage,
          processCancelMessage, processRinging, processEndOfCall, processCancelOk, processOk,
          processOtherResponse, ForwardResponse, ignoreMessage, IsRequest, IsResponse
    <3>3. /\ To(OtherParty(getSession(c), a), m) \in fromProxy'
          /\ To(OtherParty(getSession(c), a), m).msg = m
      BY <2>1, <3>2 DEF Range, To
    <3> QED
      BY <2>1, <3>1, <3>3 DEF Told, Heard
  <2>5. CASE ~ hasSession(c) /\ ~ Known(c)
    <3>1. PICK o \in Range(sent') : o.msg.callID = c
      BY <2>1, <2>5 DEF Known
    <3>2. PICK i \in DOMAIN sent' : o = sent'[i]
      BY InRange
    <3>3. m.kind = "request" =>
            build100Trying(m).callID = m.callID /\ build_200_OK(m).callID = m.callID
      BY <2>2, AnswersAreTyped
    <3>4. c = m.callID
      BY <2>2, <3>1, <3>2, <3>3 DEF SendStep, To, IsRequest
    <3>5. IsRequest(m, "INVITE")
      BY <2>2, <2>5, <3>2, <3>4 DEF SendStep
    <3> QED
      BY <2>2, <3>4, <3>5, InviteOpens DEF TypeOK
  <2> QED
    BY <2>3, <2>4, <2>5
<1> QED
  BY <1>1, <1>2, StepCases

\* A call the proxy has taken on is forgotten only after its end was passed on.
THEOREM NeverForgottenInSilence == Spec => []ForgottenOnlyWhenTold
<1>1. Init => ForgottenOnlyWhenTold
  BY DEF Init, ForgottenOnlyWhenTold, Known
<1>2. TypeOK /\ ForgottenOnlyWhenTold /\ [Next]_vars => ForgottenOnlyWhenTold'
  BY ForgottenStep
<1> QED
  BY <1>1, <1>2, Typing, PTL DEF Spec

-------------------------------------------------------------------------------
(* SIPCall implements CallRelay: the mapping. *)

\* A session is an open call of its caller.
LEMMA OpenIsSession ==
  ASSUME TypeOK, NEW c \in CallID
  PROVE  /\ Relay!IsOpen(c) <=> hasSession(c)
         /\ hasSession(c) /\ getSession(c).target = Target =>
              \A a : Relay!Across(c, a) = OtherParty(getSession(c), a)
<1>1. hasSession(c) => getSession(c).caller \in Addr
  BY SessionIsTyped DEF TypeOK, ServerTypeOK
<1> QED
  BY <1>1, NoSessionAssumption
  DEF Relay!IsOpen, Relay!Across, OtherParty, isCaller, hasSession, getSession

\* The proxy forwards m to x and sends nothing else.
LEMMA ForwardPasses ==
  ASSUME NEW m, NEW x, NEW y, sent' = << To(x, m) >>, fromProxy' = fromProxy \cup Range(sent')
  PROVE  Relay!PassOn(m, x, y) /\ fromProxy' = fromProxy \cup {[dst |-> x, msg |-> m]}
<1>1. Range(sent') = {[dst |-> x, msg |-> m]}
  BY DEF Range, To
<1> QED
  BY <1>1 DEF Relay!PassOn

\* The proxy answers y and forwards m to x.
LEMMA AnswerPasses ==
  ASSUME NEW m \in Message, NEW answer \in Message, answer.callID = m.callID,
         \/ answer.line = {"100"} /\ answer.cseq = "INVITE"
         \/ answer.line = {"200"} /\ answer.cseq = "CANCEL",
         answer \in Response,
         NEW x, NEW y \in Addr, sent' = << To(y, answer), To(x, m) >>,
         fromProxy' = fromProxy \cup Range(sent')
  PROVE  Relay!PassOn(m, x, y)
<1>1. Range(sent') = {[dst |-> y, msg |-> answer], [dst |-> x, msg |-> m]}
  BY DEF Range, To
<1>2. [dst |-> y, msg |-> answer] \in Outgoing
  BY DEF Outgoing
<1> QED
  BY <1>1, <1>2 DEF Relay!PassOn

\* The answers of the proxy, to a proper request.
LEMMA OwnAnswers ==
  ASSUME NEW c \in CallID
  PROVE  /\ build100Trying(Req(c, "INVITE")) \in Message \cap Response
         /\ build100Trying(Req(c, "INVITE")).callID = c
         /\ build100Trying(Req(c, "INVITE")).line = {"100"}
         /\ build100Trying(Req(c, "INVITE")).cseq = "INVITE"
         /\ build_200_OK(Req(c, "CANCEL")) \in Message \cap Response
         /\ build_200_OK(Req(c, "CANCEL")).callID = c
         /\ build_200_OK(Req(c, "CANCEL")).line = {"200"}
         /\ build_200_OK(Req(c, "CANCEL")).cseq = "CANCEL"
<1>1. {"100"} \in StatusLine /\ {"200"} \in StatusLine
  BY StatusLineAssumption DEF Code
<1> QED
  BY <1>1 DEF build100Trying, build_200_OK, Req, Resp, Message, Response, Method

-------------------------------------------------------------------------------
(* SIPCall implements CallRelay: the steps. *)

\* What the proxy does with a datagram is a step of the relay or nothing.
LEMMA RunIsRelayStep ==
  ASSUME TypeOK, SessionsInvited, run
  PROVE  Relay!Next \/ UNCHANGED Relay!relayVars
<1>1. PICK d \in toProxy :
        /\ d.msg \in Proper /\ d.msg \in Message /\ d.msg.callID \in CallID /\ d.src \in Addr
        /\ processSipMessage(d.msg, d.src)
  BY RunStep
<1> DEFINE m == d.msg
           a == d.src
           c == m.callID
<1>2. toProxy' = toProxy /\ fromProxy' = fromProxy \cup Range(sent')
  BY DEF run
<1>3. /\ m_sessions \in [CallID -> CallSession \cup {NoSession}]
      /\ Relay!IsOpen(c) <=> hasSession(c)
  BY <1>1, OpenIsSession DEF TypeOK, ServerTypeOK, SessionsTypeOK
<1>4. hasSession(c) => /\ getSession(c).target = Target
                       /\ getSession(c).caller \in Addr
                       /\ Relay!Across(c, a) = OtherParty(getSession(c), a)
  BY <1>1, OpenIsSession, SessionIsTyped DEF SessionsInvited, TypeOK, ServerTypeOK
<1> DEFINE callerOf == [e \in CallID |-> IF hasSession(e) THEN getSession(e).caller ELSE NoSession]
<1>5. m_sessions' = m_sessions => callerOf' = callerOf
  BY DEF hasSession, getSession
\* Whatever is forwarded without a change of the caller is relayed.
<1>6. ASSUME hasSession(c), ~ IsRequest(m, "INVITE"), IsResponse(m) => ~ EndsCall(m),
             Relay!PassOn(m, OtherParty(getSession(c), a), getSession(c).caller),
             callerOf' = callerOf
      PROVE  Relay!Next
  <2>1. Relay!Relay(m, a)
    BY <1>1, <1>2, <1>3, <1>4, <1>6
    DEF Relay!Relay, IsRequest, IsResponse, Request, Response
  <2> QED
    BY <2>1 DEF Relay!Next
<1>7. ASSUME hasSession(c), NEW state \in SessionState, setState(c, state)
      PROVE  callerOf' = callerOf
  <2>1. /\ m_sessions'[c] \in CallSession
        /\ m_sessions'[c].caller = m_sessions[c].caller
        /\ \A e \in CallID \ {c} : m_sessions'[e] = m_sessions[e]
    BY <1>1, <1>7, SetStateKeeps DEF TypeOK, ServerTypeOK
  <2>2. m_sessions'[c] # NoSession /\ m_sessions[c] # NoSession
    BY <1>7, <2>1, NoSessionAssumption DEF hasSession
  <2>3. \A e \in CallID :
          (IF m_sessions'[e] # NoSession THEN m_sessions'[e].caller ELSE NoSession)
            = IF m_sessions[e] # NoSession THEN m_sessions[e].caller ELSE NoSession
    BY <2>1, <2>2
  <2> QED
    BY <2>3 DEF hasSession, getSession
<1>8. ASSUME sent' = << To(OtherParty(getSession(c), a), m) >>
      PROVE  Relay!PassOn(m, OtherParty(getSession(c), a), getSession(c).caller)
  BY <1>2, <1>8, ForwardPasses
<1>9. CASE processInviteMessage(m, a)
  <2>1. m = Req(c, "INVITE") /\ m \in Request
    BY <1>1, <1>9, RequestIsReq DEF processInviteMessage, IsRequest, Method, Message, Request, Response
  <2>2. Relay!PassOn(m, Target, a)
    BY <1>1, <1>2, <1>9, <2>1, AnswerPasses, OwnAnswers DEF processInviteMessage
  <2>3. callerOf' = IF Relay!IsOpen(c) THEN callerOf ELSE [callerOf EXCEPT ![c] = a]
    <3>1. CASE hasSession(c)
      BY <1>3, <1>5, <1>9, <3>1 DEF processInviteMessage, addSession
    <3>2. CASE ~ hasSession(c)
      <4> DEFINE s == [caller |-> a, target |-> Target, state |-> "INVITE_SENT"]
      <4>1. m_sessions' = [m_sessions EXCEPT ![c] = s]
        BY <1>9, <3>2 DEF processInviteMessage, addSession
      <4>2. s \in CallSession /\ s.caller = a
        BY <1>1, TargetAssumption DEF CallSession, SessionState
      <4>3. s # NoSession
        BY <4>2, NoSessionAssumption
      <4>4. m_sessions'[c] = s /\ \A e \in CallID \ {c} : m_sessions'[e] = m_sessions[e]
        BY <1>1, <1>3, <4>1
      <4>5. \A e \in CallID :
              (IF m_sessions'[e] # NoSession THEN m_sessions'[e].caller ELSE NoSession)
                = [callerOf EXCEPT ![c] = a][e]
        BY <1>1, <4>2, <4>3, <4>4 DEF hasSession, getSession
      <4>6. callerOf' = [callerOf EXCEPT ![c] = a]
        BY <4>5 DEF hasSession, getSession
      <4> QED
        BY <1>3, <3>2, <4>6
    <3> QED
      BY <3>1, <3>2
  <2>4. Relay!Open(m, a)
    BY <1>2, <2>1, <2>2, <2>3 DEF Relay!Open, Req
  <2> QED
    BY <2>4 DEF Relay!Next
<1>10. CASE processAckMessage(m, a)
  BY <1>5, <1>6, <1>8, <1>10 DEF processAckMessage, IsRequest, IsResponse
<1>11. CASE processByeMessage(m, a)
  BY <1>6, <1>7, <1>8, <1>11 DEF processByeMessage, IsRequest, IsResponse, SessionState
<1>12. CASE processCancelMessage(m, a)
  <2>1. m = Req(c, "CANCEL")
    BY <1>1, <1>12, RequestIsReq DEF processCancelMessage, Method
  <2>2. Relay!PassOn(m, OtherParty(getSession(c), a), getSession(c).caller)
    BY <1>1, <1>2, <1>4, <1>12, <2>1, AnswerPasses, OwnAnswers DEF processCancelMessage
  <2> QED
    BY <1>5, <1>6, <1>12, <2>2 DEF processCancelMessage, IsRequest, IsResponse
<1>13. CASE processRinging(m, a) \/ processCancelOk(m, a) \/ processOk(m, a)
  <2>1. ForwardResponse(m, a) /\ ~ EndsCall(m)
    BY <1>13 DEF processRinging, processCancelOk, processOk, EndsCall
  <2>2. callerOf' = callerOf
    BY <1>7, <1>13 DEF processRinging, processCancelOk, processOk, ForwardResponse, SessionState
  <2> QED
    BY <1>6, <1>8, <2>1, <2>2 DEF ForwardResponse, IsRequest, IsResponse
<1>14. CASE processOtherResponse(m, a)
  BY <1>5, <1>6, <1>8, <1>14
  DEF processOtherResponse, ForwardResponse, EndsCall, IsRequest, IsResponse
<1>15. CASE processEndOfCall(m, a)
  <2>1. hasSession(c) /\ m \in Response /\ EndsCall(m)
    BY <1>1, <1>15, MessageIsTyped DEF processEndOfCall, ForwardResponse
  <2>2. fromProxy' = fromProxy \cup {[dst |-> Relay!Across(c, a), msg |-> m]}
    BY <1>2, <1>4, <1>15, <2>1, ForwardPasses DEF processEndOfCall, ForwardResponse
  <2>3. m_sessions'[c] = NoSession /\ \A e \in CallID \ {c} : m_sessions'[e] = m_sessions[e]
    BY <1>1, <1>3, <1>15 DEF processEndOfCall, removeSession
  <2>4. \A e \in CallID :
          (IF m_sessions'[e] # NoSession THEN m_sessions'[e].caller ELSE NoSession)
            = [callerOf EXCEPT ![c] = NoSession][e]
    BY <1>1, <2>3 DEF hasSession, getSession
  <2>5. callerOf' = [callerOf EXCEPT ![c] = NoSession]
    BY <2>4 DEF hasSession, getSession
  <2>6. Relay!Close(m, a)
    BY <1>2, <1>3, <2>1, <2>2, <2>5 DEF Relay!Close
  <2> QED
    BY <2>6 DEF Relay!Next
<1>16. CASE ignoreMessage(m)
  BY <1>2, <1>5, <1>16 DEF ignoreMessage, Relay!relayVars, Range
<1> QED
  BY <1>1, <1>9, <1>10, <1>11, <1>12, <1>13, <1>14, <1>15, <1>16 DEF processSipMessage

\* A datagram on its way to the proxy changes nothing in the relay.
LEMMA CalmIsArrival ==
  ASSUME TypeOK', Calm
  PROVE  Relay!Next
<1>1. /\ toProxy \subseteq toProxy' /\ toProxy' \in SUBSET Incoming
      /\ fromProxy' = fromProxy /\ m_sessions' = m_sessions
  BY DEF Calm, TypeOK
<1>2. [c \in CallID |-> IF hasSession(c) THEN getSession(c).caller ELSE NoSession]'
        = [c \in CallID |-> IF hasSession(c) THEN getSession(c).caller ELSE NoSession]
  BY <1>1 DEF hasSession, getSession
<1> QED
  BY <1>1, <1>2 DEF Relay!Next, Relay!Arrive

\* The proxy with its handlers, session states and SIP methods, between endpoints over a
\* network that loses, repeats and reorders, does what CallRelay allows and no more.
THEOREM ProxyIsARelay == Spec => IsARelay
<1>1. Init => Relay!Init
  BY DEF Init, ServerInit, SessionsInit, Relay!Init, hasSession
<1>2. TypeOK /\ TypeOK' /\ PartyInv /\ [Next]_vars => [Relay!Next]_(Relay!relayVars)
  BY StepCases, RunIsRelayStep, CalmIsArrival DEF PartyInv
<1> QED
  BY <1>1, <1>2, Typing, PartyInvariance, PTL DEF Spec, IsARelay, Relay!Spec

-------------------------------------------------------------------------------
(* The state shown for a call. *)

\* What endpoints say in call c.
Said(c) ==
  {Req(c, "INVITE"), Req(c, "CANCEL"), Req(c, "ACK"), Req(c, "BYE"),
   Resp(c, "180", "INVITE"), Resp(c, "200", "INVITE"), Resp(c, "486", "INVITE"),
   Resp(c, "487", "INVITE"), Resp(c, "200", "CANCEL"), Resp(c, "200", "BYE")}

OnlySaid == \A d \in toProxy : \E c \in CallID : d.msg \in Said(c)

JustifiedInv == OnlySaid /\ StateIsJustified

LEMMA SaidStep ==
  ASSUME TypeOK, OnlySaid, [Next]_vars
  PROVE  OnlySaid'
<1>1. ASSUME NEW a, NEW c \in CallID, NEW ms \in SUBSET Said(c), Emit(a, ms)
      PROVE  OnlySaid'
  <2> SUFFICES ASSUME NEW d \in toProxy' PROVE \E e \in CallID : d.msg \in Said(e)
    BY DEF OnlySaid, Said, Req, Resp
  <2>1. d \in toProxy \/ \E m \in ms : d = [src |-> a, msg |-> m]
    BY <1>1 DEF Emit
  <2>2. ASSUME NEW m \in ms, d = [src |-> a, msg |-> m] PROVE d.msg \in Said(c)
    BY <1>1, <2>2
  <2> QED
    BY <2>1, <2>2 DEF OnlySaid
<1>2. CASE \E a \in Callers, c \in CallID : Uac(a, c)
  <2>1. PICK a \in Callers, c \in CallID : Uac(a, c)
    BY <1>2
  <2>2. \E ms \in SUBSET Said(c) : Emit(a, ms)
    BY <2>1 DEF Uac, UacInvite, UacCancel, UacOk, UacTerminated, UacRefused, UacBye, UacByeOk,
                UacByed, Said
  <2> QED
    BY <1>1, <2>2
<1>3. CASE \E c \in CallID : Uas(c)
  <2>1. PICK c \in CallID : Uas(c)
    BY <1>3
  <2>2. \E ms \in SUBSET Said(c) : Emit(Target, ms)
    BY <2>1 DEF Uas, UasRing, UasAnswer, UasRefuse, UasCancelled, UasTooLate, UasBye, UasByeOk,
                UasByed, Said
  <2> QED
    BY <1>1, <2>2
<1>4. CASE run \/ UNCHANGED vars
  BY <1>4 DEF run, vars, netVars, OnlySaid, Said, Req, Resp
<1> QED
  BY <1>2, <1>3, <1>4 DEF Next

\* The handlers that write a state do so on a message that is evidence for it.
LEMMA SaidIsEvidence ==
  ASSUME NEW m, NEW c \in CallID, m \in Said(c)
  PROVE  /\ m.callID = c
         /\ IsRequest(m, "INVITE") => m \in Evidence(c).INVITE_SENT
         /\ IsRequest(m, "BYE") => m \in Evidence(c).TERMINATING
         /\ IsResponse(m) /\ "180" \in m.line => m \in Evidence(c).RINGING
         /\ IsResponse(m) /\ "200" \in m.line /\ m.cseq = "CANCEL" => m \in Evidence(c).CANCELLING
         /\ IsResponse(m) /\ "200" \in m.line /\ m.cseq \notin {"BYE", "CANCEL"} =>
              m \in Evidence(c).CONNECTED
BY DEF Said, Req, Resp, Evidence, IsRequest, IsResponse

LEMMA JustifiedStep ==
  ASSUME TypeOK, JustifiedInv, [Next]_vars
  PROVE  JustifiedInv'
<1>1. OnlySaid'
  BY SaidStep DEF JustifiedInv
<1>2. CASE Calm
  <2>1. \A m : Heard(m) => Heard(m)'
    BY <1>2 DEF Calm, Heard
  <2> QED
    BY <1>1, <1>2, <2>1 DEF Calm, JustifiedInv, StateIsJustified, hasSession, getSession, Evidence
<1>3. CASE run
  <2>1. PICK d \in toProxy :
          /\ d.msg \in Message /\ d.msg.callID \in CallID /\ d.src \in Addr
          /\ processSipMessage(d.msg, d.src)
          /\ \A c \in CallID : SessionStep(d.msg, d.src, c)
    BY <1>3, RunStep
  <2> DEFINE m == d.msg
             a == d.src
             c == m.callID
  <2>2. Heard(m) /\ \A n : Heard(n)' <=> Heard(n)
    BY <1>3 DEF run, Heard
  <2>3. m \in Said(c)
    BY SaidIsEvidence DEF JustifiedInv, OnlySaid
  <2>4. SessionsTypeOK
    BY DEF TypeOK, ServerTypeOK
  <2> DEFINE Shown(e, s) == \E n \in Evidence(e)[s] : Heard(n)
  <2>5. \A e \in CallID : m_sessions[e] # NoSession => Shown(e, m_sessions[e].state)
    BY DEF JustifiedInv, StateIsJustified, hasSession, getSession
  <2> SUFFICES ASSUME NEW e \in CallID, m_sessions'[e] # NoSession
               PROVE  Shown(e, m_sessions'[e].state)
    BY <1>1, <2>2 DEF JustifiedInv, StateIsJustified, hasSession, getSession, Evidence
  <2>6. CASE m_sessions'[e] = m_sessions[e]
    BY <2>5, <2>6
  <2>7. CASE m_sessions'[e] # m_sessions[e]
    <3>1. e = c
      BY <2>1, <2>7 DEF SessionStep
    <3>2. ASSUME NEW state \in SessionState, hasSession(c), setState(c, state),
                 m \in Evidence(c)[state]
          PROVE  Shown(e, m_sessions'[e].state)
      <4>1. m_sessions[c] \in CallSession
        BY <2>1, <2>4, <3>2 DEF SessionsTypeOK, hasSession
      <4>2. m_sessions'[c].state = state
        BY <2>1, <2>4, <3>2, <4>1 DEF setState, SessionsTypeOK, CallSession
      <4> QED
        BY <2>2, <3>1, <3>2, <4>2
    <3>3. CASE processInviteMessage(m, a)
      <4>1. m_sessions'[c].state = "INVITE_SENT"
        BY <2>1, <2>4, <2>7, <3>1, <3>3 DEF processInviteMessage, addSession, SessionsTypeOK
      <4>2. m \in Evidence(c).INVITE_SENT
        BY <2>1, <2>3, <3>3, SaidIsEvidence DEF processInviteMessage
      <4> QED
        BY <2>2, <3>1, <4>1, <4>2
    <3>4. CASE processByeMessage(m, a)
      BY <2>1, <2>3, <3>2, <3>4, SaidIsEvidence DEF processByeMessage, SessionState
    <3>5. CASE processRinging(m, a)
      BY <2>1, <2>3, <3>2, <3>5, SaidIsEvidence DEF processRinging, ForwardResponse, SessionState
    <3>6. CASE processCancelOk(m, a)
      BY <2>1, <2>3, <3>2, <3>6, SaidIsEvidence DEF processCancelOk, ForwardResponse, SessionState
    <3>7. CASE processOk(m, a)
      BY <2>1, <2>3, <3>2, <3>7, SaidIsEvidence DEF processOk, ForwardResponse, SessionState
    <3>8. CASE processEndOfCall(m, a)
      BY <2>1, <2>4, <2>7, <3>1, <3>8 DEF processEndOfCall, removeSession, SessionsTypeOK
    <3>9. CASE \/ processAckMessage(m, a) \/ processCancelMessage(m, a)
               \/ processOtherResponse(m, a) \/ ignoreMessage(m)
      BY <2>7, <3>9 DEF processAckMessage, processCancelMessage, processOtherResponse, ignoreMessage
    <3> QED
      BY <2>1, <3>3, <3>4, <3>5, <3>6, <3>7, <3>8, <3>9 DEF processSipMessage
  <2> QED
    BY <2>6, <2>7
<1> QED
  BY <1>2, <1>3, StepCases

\* The state shown for a call may be out of date but never made up.
THEOREM ShownStateWasReal == Spec => []StateIsJustified
<1>1. Init => JustifiedInv
  BY DEF Init, ServerInit, SessionsInit, JustifiedInv, OnlySaid, StateIsJustified, hasSession
<1>2. TypeOK /\ JustifiedInv /\ [Next]_vars => JustifiedInv'
  BY JustifiedStep
<1>3. JustifiedInv => StateIsJustified
  BY DEF JustifiedInv
<1> QED
  BY <1>1, <1>2, <1>3, Typing, PTL DEF Spec
===============================================================================
