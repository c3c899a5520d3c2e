------------------------------- MODULE CallRelay -------------------------------
(***************************************************************************)
(* What the proxy promises, without its handlers, session states or SIP    *)
(* methods: a call is closed, or open between one caller and the callee;   *)
(* while it is open, what one party sends is passed on unchanged to the    *)
(* other party, and a call is closed only in the step that passes on a     *)
(* message that ends it.  The proxy may answer a request itself, but only  *)
(* towards the caller.                                                     *)
(***************************************************************************)
CONSTANTS
  Callee, CallID, Nobody,
  Inbound,   \* [src, msg] datagrams for the proxy
  Outbound,  \* [dst, msg] datagrams from the proxy
  Opening,   \* messages that open a call
  Ending,    \* messages that end a call
  Own        \* messages the proxy may originate

VARIABLES
  callerOf,  \* CallID -> the caller of an open call, or Nobody
  arrived,   \* every datagram sent to the proxy so far
  departed   \* every datagram the proxy has sent so far

relayVars == <<callerOf, arrived, departed>>

Init ==
  /\ callerOf = [c \in CallID |-> Nobody]
  /\ arrived = {}
  /\ departed = {}

IsOpen(c) == callerOf[c] # Nobody

Across(c, a) == IF a = callerOf[c] THEN Callee ELSE callerOf[c]

\* m departs towards `to', and with it at most answers of the same call to `asker'.
PassOn(m, to, asker) ==
  LET passed  == {[dst |-> to, msg |-> m]}
      answers == {o \in Outbound : o.dst = asker /\ o.msg.callID = m.callID /\ o.msg \in Own}
  IN  /\ departed \cup passed \subseteq departed'
      /\ departed' \subseteq departed \cup passed \cup answers

\* Anybody may send the proxy anything.
Arrive ==
  /\ arrived \subseteq arrived'
  /\ arrived' \in SUBSET Inbound
  /\ UNCHANGED <<callerOf, departed>>

Open(m, a) ==
  /\ m \in Opening
  /\ callerOf' = IF IsOpen(m.callID) THEN callerOf ELSE [callerOf EXCEPT ![m.callID] = a]
  /\ PassOn(m, Callee, a)
  /\ UNCHANGED arrived

Relay(m, a) ==
  /\ m \notin Opening \cup Ending
  /\ IsOpen(m.callID)
  /\ PassOn(m, Across(m.callID, a), callerOf[m.callID])
  /\ UNCHANGED <<callerOf, arrived>>

Close(m, a) ==
  /\ m \in Ending
  /\ IsOpen(m.callID)
  /\ callerOf' = [callerOf EXCEPT ![m.callID] = Nobody]
  /\ departed' = departed \cup {[dst |-> Across(m.callID, a), msg |-> m]}
  /\ UNCHANGED arrived

Next ==
  \/ Arrive
  \/ \E d \in arrived : Open(d.msg, d.src) \/ Relay(d.msg, d.src) \/ Close(d.msg, d.src)

Spec == Init /\ [][Next]_relayVars
===============================================================================
