-------------------------------- MODULE SIPCall --------------------------------
(***************************************************************************)
(* The proxy between callers and the callee, over UDP.  The network is the *)
(* set of all datagrams ever sent: a datagram in it may be received at any *)
(* time, any number of times or never, so loss, duplication (and SIP's own *)
(* retransmissions) and reordering are all covered.                        *)
(*                                                                         *)
(* The endpoints follow the call flows of README.md (sipp -sn uac and      *)
(* sipp -sn uas) and of test_Call/uac_cancel.xml and uas_delay.xml; either *)
(* side may hang up, and the callee may refuse.                            *)
(***************************************************************************)
EXTENDS SIPServer, Functions

Callers == Addr \ {Target}

VARIABLES
  toProxy,    \* [src, msg] sent to the proxy
  fromProxy,  \* [dst, msg] sent by the proxy
  uac,        \* uac[a][c]: the caller at a in call c
  uas         \* uas[c]: the callee in call c

netVars      == <<toProxy, fromProxy>>
endpointVars == <<uac, uas>>
vars         == <<serverVars, netVars, endpointVars>>

UacState == {"idle", "calling", "cancelling", "connected", "hangup",
             "cancelled", "refused", "ended"}
UasState == {"idle", "ringing", "answered", "hangup", "cancelled", "refused", "ended"}

\* What the endpoints send: CSeq names the method of a request.
Proper   == {m \in Message : IsResponse(m) \/ m.cseq = m.method}
Incoming == [src : Addr, msg : Proper]

TypeOK ==
  /\ ServerTypeOK
  /\ toProxy \subseteq Incoming
  /\ fromProxy \subseteq Outgoing
  /\ uac \in [Callers -> [CallID -> UacState]]
  /\ uas \in [CallID -> UasState]

Init ==
  /\ ServerInit
  /\ toProxy = {}
  /\ fromProxy = {}
  /\ uac = [a \in Callers |-> [c \in CallID |-> "idle"]]
  /\ uas = [c \in CallID |-> "idle"]

\* a sends the messages ms to the proxy.
Emit(a, ms) ==
  /\ toProxy' = toProxy \cup {[src |-> a, msg |-> m] : m \in ms}
  /\ sent' = <<>>
  /\ UNCHANGED <<fromProxy, m_sessions>>

\* The proxy has sent m to x.
Reached(x, m) == To(x, m) \in fromProxy

-------------------------------------------------------------------------------
(* The worker: recvfrom, then one pass through processSipMessage. *)

run ==
  /\ \E d \in toProxy : processSipMessage(d.msg, d.src)
  /\ fromProxy' = fromProxy \cup Range(sent')
  /\ UNCHANGED <<toProxy, endpointVars>>

-------------------------------------------------------------------------------
(* The caller at a in call c. *)

UacStep(a, c, from, to) ==
  /\ uac[a][c] \in from
  /\ uac' = [uac EXCEPT ![a][c] = to]
  /\ UNCHANGED uas

UacInvite(a, c) ==
  /\ UacStep(a, c, {"idle"}, "calling")
  /\ Emit(a, {Req(c, "INVITE")})

UacCancel(a, c) ==
  /\ Reached(a, Resp(c, "180", "INVITE"))
  /\ UacStep(a, c, {"calling"}, "cancelling")
  /\ Emit(a, {Req(c, "CANCEL")})

\* A 200 may cross CANCEL; the caller then has a call after all.
UacOk(a, c) ==
  /\ Reached(a, Resp(c, "200", "INVITE"))
  /\ UacStep(a, c, {"calling", "cancelling"}, "connected")
  /\ Emit(a, {Req(c, "ACK")})

UacTerminated(a, c) ==
  /\ Reached(a, Resp(c, "487", "INVITE"))
  /\ UacStep(a, c, {"calling", "cancelling"}, "cancelled")
  /\ Emit(a, {})

UacRefused(a, c) ==
  /\ Reached(a, Resp(c, "486", "INVITE"))
  /\ UacStep(a, c, {"calling", "cancelling"}, "refused")
  /\ Emit(a, {Req(c, "ACK")})

UacBye(a, c) ==
  /\ UacStep(a, c, {"connected"}, "hangup")
  /\ Emit(a, {Req(c, "BYE")})

UacByeOk(a, c) ==
  /\ Reached(a, Resp(c, "200", "BYE"))
  /\ UacStep(a, c, {"hangup"}, "ended")
  /\ Emit(a, {})

\* The callee hung up.
UacByed(a, c) ==
  /\ Reached(a, Req(c, "BYE"))
  /\ UacStep(a, c, {"connected", "hangup"}, "ended")
  /\ Emit(a, {Resp(c, "200", "BYE")})

-------------------------------------------------------------------------------
(* The callee in call c. *)

UasStep(c, from, to) ==
  /\ uas[c] \in from
  /\ uas' = [uas EXCEPT ![c] = to]
  /\ UNCHANGED uac

UasRing(c) ==
  /\ Reached(Target, Req(c, "INVITE"))
  /\ UasStep(c, {"idle"}, "ringing")
  /\ Emit(Target, {Resp(c, "180", "INVITE")})

UasAnswer(c) ==
  /\ UasStep(c, {"ringing"}, "answered")
  /\ Emit(Target, {Resp(c, "200", "INVITE")})

UasRefuse(c) ==
  /\ UasStep(c, {"ringing"}, "refused")
  /\ Emit(Target, {Resp(c, "486", "INVITE")})

UasCancelled(c) ==
  /\ Reached(Target, Req(c, "CANCEL"))
  /\ UasStep(c, {"ringing"}, "cancelled")
  /\ Emit(Target, {Resp(c, "200", "CANCEL"), Resp(c, "487", "INVITE")})

\* CANCEL after the answer is acknowledged and has no other effect.
UasTooLate(c) ==
  /\ Reached(Target, Req(c, "CANCEL"))
  /\ UasStep(c, {"answered"}, "answered")
  /\ Emit(Target, {Resp(c, "200", "CANCEL")})

UasBye(c) ==
  /\ UasStep(c, {"answered"}, "hangup")
  /\ Emit(Target, {Req(c, "BYE")})

UasByeOk(c) ==
  /\ Reached(Target, Resp(c, "200", "BYE"))
  /\ UasStep(c, {"hangup"}, "ended")
  /\ Emit(Target, {})

UasByed(c) ==
  /\ Reached(Target, Req(c, "BYE"))
  /\ UasStep(c, {"answered", "hangup"}, "ended")
  /\ Emit(Target, {Resp(c, "200", "BYE")})

-------------------------------------------------------------------------------
Uac(a, c) ==
  \/ UacInvite(a, c) \/ UacCancel(a, c) \/ UacOk(a, c) \/ UacTerminated(a, c)
  \/ UacRefused(a, c) \/ UacBye(a, c) \/ UacByeOk(a, c) \/ UacByed(a, c)

Uas(c) ==
  \/ UasRing(c) \/ UasAnswer(c) \/ UasRefuse(c) \/ UasCancelled(c) \/ UasTooLate(c)
  \/ UasBye(c) \/ UasByeOk(c) \/ UasByed(c)

Next ==
  \/ run
  \/ \E a \in Callers, c \in CallID : Uac(a, c)
  \/ \E c \in CallID : Uas(c)

Spec == Init /\ [][Next]_vars

-------------------------------------------------------------------------------
(* Properties. *)

Known(c)    == \E o \in fromProxy : o.msg.callID = c
InvitedBy(a, c) == [src |-> a, msg |-> Req(c, "INVITE")] \in toProxy
Heard(m)    == \E d \in toProxy : d.msg = m

\* No cross-talk: whatever the proxy sends in a call goes to the callee or to an
\* address that itself sent an INVITE for that call.
OnlyPartiesAreSent ==
  \A o \in fromProxy : o.dst = Target \/ InvitedBy(o.dst, o.msg.callID)

\* Nothing is invented or altered: a datagram from the proxy is one it received,
\* or the 100 for an INVITE, or the 200 for a CANCEL, it received in that call.
NothingInvented ==
  \A o \in fromProxy :
    \/ Heard(o.msg)
    \/ o.msg = Resp(o.msg.callID, "100", "INVITE") /\ InvitedBy(o.dst, o.msg.callID)
    \/ o.msg = Resp(o.msg.callID, "200", "CANCEL") /\ Heard(Req(o.msg.callID, "CANCEL"))

\* The messages after which a session may be in a given state.
Evidence(c) ==
  [INVITE_SENT |-> {Req(c, "INVITE")},     RINGING    |-> {Resp(c, "180", "INVITE")},
   CONNECTED   |-> {Resp(c, "200", "INVITE")}, CANCELLING |-> {Resp(c, "200", "CANCEL")},
   TERMINATING |-> {Req(c, "BYE")}, INIT |-> {}, TERMINATED |-> {}]

\* The state shown for a live call is one the call has really been in: somebody
\* sent the message that puts a call in it.
StateIsJustified ==
  \A c \in CallID :
    hasSession(c) => \E m \in Evidence(c)[getSession(c).state] : Heard(m)

\* A call is not forgotten in silence: if the proxy took a call on and has no
\* session for it any more, it has passed the message that ended it to a party.
ForgottenOnlyWhenTold ==
  \A c \in CallID :
    Known(c) /\ ~ hasSession(c) =>
      \E o \in fromProxy : o.msg.callID = c /\ IsResponse(o.msg) /\ EndsCall(o.msg) /\ Heard(o.msg)

\* Both ends agree on how a call went: a caller that took its call for answered,
\* cancelled or refused has a callee that answered, cancelled or refused it.
OutcomeAgreement ==
  \A a \in Callers, c \in CallID :
    /\ uac[a][c] \in {"connected", "hangup", "ended"} => uas[c] \in {"answered", "hangup", "ended"}
    /\ uac[a][c] = "cancelled" => uas[c] = "cancelled"
    /\ uac[a][c] = "refused" => uas[c] = "refused"

\* The proxy is a relay: its sessions, seen as open calls, do what CallRelay allows.
Relay == INSTANCE CallRelay WITH
  Callee <- Target, Nobody <- NoSession, Inbound <- Incoming, Outbound <- Outgoing,
  Opening <- {m \in Request : m.method = "INVITE"},
  Ending  <- {m \in Response : EndsCall(m)},
  Own     <- {m \in Response : \/ m.line = {"100"} /\ m.cseq = "INVITE"
                               \/ m.line = {"200"} /\ m.cseq = "CANCEL"},
  callerOf <- [c \in CallID |-> IF hasSession(c) THEN getSession(c).caller ELSE NoSession],
  arrived  <- toProxy,
  departed <- fromProxy

\* The abstract specification, as a property of this one.
IsARelay == Relay!Spec
===============================================================================
