------------------------------ MODULE CallScript ------------------------------
(***************************************************************************)
(* The proxy between two SIPp processes on the loopback interface, as the   *)
(* test calls of README.md and test_Call run it: datagrams between two      *)
(* sockets of one host are neither lost nor reordered, so the socket of     *)
(* the proxy and the socket of each SIPp process are FIFO queues.           *)
(*                                                                         *)
(* A SIPp process plays a script.  It sends as soon as it reaches a send,   *)
(* it skips an optional receive when a later one matches, and it gives the  *)
(* call up when a message arrives that the script does not provide for.     *)
(* SIPp's retransmissions after 500 ms are left out: the test calls are     *)
(* single calls, and the proxy needs about 100 ms per datagram.             *)
(***************************************************************************)
EXTENDS SIPServer, Naturals

CONSTANT Caller,   \* the UAC process; the UAS process is Target
         Scenario  \* the scenario each call plays

ASSUME CallerAssumption == Caller \in Addr \ {Target}
ASSUME ScenarioAssumption ==
  Scenario \in [CallID -> {"basic", "cancel", "cancel_100", "cancel_patient"}]

VARIABLES
  inbox,    \* received by the kernel for port 5060: <<[src, msg], ...>>
  mailbox,  \* mailbox[a]: received by the kernel for the process at a
  pos       \* pos[a][c]: the script line the process at a is at in call c

vars == <<serverVars, inbox, mailbox, pos>>

Process == {Caller, Target}

-------------------------------------------------------------------------------
(* The scripts. *)

Send(m)         == [op |-> "send", msg |-> m]
Recv(what)      == [op |-> "recv", what |-> what]
RecvMaybe(what) == [op |-> "maybe", what |-> what]

\* sipp -sn uac and sipp -sn uas
uac(c) == << Send(Req(c, "INVITE")), RecvMaybe("100"), RecvMaybe("180"), Recv("200"),
             Send(Req(c, "ACK")), Send(Req(c, "BYE")), Recv("200") >>
uas(c) == << Recv("INVITE"), Send(Resp(c, "180", "INVITE")), Send(Resp(c, "200", "INVITE")),
             RecvMaybe("ACK"), Recv("BYE"), Send(Resp(c, "200", "BYE")) >>

\* test_Call/uac_cancel.xml and test_Call/uas_delay.xml
uac_cancel(c) == << Send(Req(c, "INVITE")), Recv("180"),
                    Send(Req(c, "CANCEL")), Recv("200"), Recv("487") >>
uas_delay(c)  == << Recv("INVITE"), Send(Resp(c, "180", "INVITE")), Recv("CANCEL"),
                    Send(Resp(c, "200", "CANCEL")), Send(Resp(c, "487", "INVITE")) >>

\* uac_cancel.xml with a line more for what the proxy adds: the 100, and also the
\* second 200.
uac_cancel_100(c) == << Send(Req(c, "INVITE")), RecvMaybe("100"), Recv("180"),
                        Send(Req(c, "CANCEL")), Recv("200"), Recv("487") >>
uac_cancel_patient(c) == << Send(Req(c, "INVITE")), RecvMaybe("100"), Recv("180"),
                            Send(Req(c, "CANCEL")), Recv("200"), Recv("200"), Recv("487") >>

\* What each process plays in each call.
Scripts ==
  [a \in Process |-> [c \in CallID |->
    CASE a = Target /\ Scenario[c] = "basic"          -> uas(c)
      [] a = Target /\ Scenario[c] # "basic"          -> uas_delay(c)
      [] a = Caller /\ Scenario[c] = "basic"          -> uac(c)
      [] a = Caller /\ Scenario[c] = "cancel"         -> uac_cancel(c)
      [] a = Caller /\ Scenario[c] = "cancel_100"     -> uac_cancel_100(c)
      [] a = Caller /\ Scenario[c] = "cancel_patient" -> uac_cancel_patient(c)]]

Script(a, c) == Scripts[a][c]

GivenUp == 0
AtEnd(a, c) == pos[a][c] > Len(Script(a, c))
Line(a, c)  == Script(a, c)[pos[a][c]]
Playing(a, c) == pos[a][c] # GivenUp /\ ~ AtEnd(a, c)
Sending(a, c) == Playing(a, c) /\ Line(a, c).op = "send"

Matches(m, what) == IF IsResponse(m) THEN m.line = {what} ELSE m.method = what

\* The script lines that may receive next: the current one, and after an optional
\* one the line behind it.
Candidates(a, c) ==
  {i \in pos[a][c] .. Len(Script(a, c)) :
    /\ Script(a, c)[i].op # "send"
    /\ \A j \in pos[a][c] .. i - 1 : Script(a, c)[j].op = "maybe"}

-------------------------------------------------------------------------------
Init ==
  /\ ServerInit
  /\ inbox = <<>>
  /\ mailbox = [a \in Process |-> <<>>]
  /\ pos = [a \in Process |-> [c \in CallID |-> 1]]

TypeOK ==
  /\ ServerTypeOK
  /\ inbox \in Seq([src : Process, msg : Message])
  /\ mailbox \in [Process -> Seq(Message)]
  /\ pos \in [Process -> [CallID -> Nat]]
  /\ \A a \in Process, c \in CallID : pos[a][c] <= Len(Script(a, c)) + 1

\* What the i-th datagram of out brings to the process at a.
ForProcess(out, i, a) ==
  IF i \in DOMAIN out /\ out[i].dst = a THEN << out[i].msg >> ELSE <<>>

\* One pass of the worker's loop: a handler sends two datagrams at most.
run ==
  /\ inbox # <<>>
  /\ processSipMessage(Head(inbox).msg, Head(inbox).src)
  /\ inbox' = Tail(inbox)
  /\ mailbox' = [a \in Process |-> mailbox[a] \o ForProcess(sent', 1, a) \o ForProcess(sent', 2, a)]
  /\ UNCHANGED pos

ScriptSend(a, c) ==
  /\ Sending(a, c)
  /\ inbox' = Append(inbox, [src |-> a, msg |-> Line(a, c).msg])
  /\ pos' = [pos EXCEPT ![a][c] = @ + 1]
  /\ sent' = <<>>
  /\ UNCHANGED <<m_sessions, mailbox>>

\* A message for a call that is over is dropped.
ScriptReceive(a) ==
  /\ mailbox[a] # <<>>
  /\ LET m == Head(mailbox[a])
         c == m.callID
         lines == {i \in Candidates(a, c) : Matches(m, Script(a, c)[i].what)}
     IN  /\ ~ Sending(a, c)
         /\ pos' = [pos EXCEPT ![a][c] =
              IF ~ Playing(a, c) THEN @
              ELSE IF lines = {} THEN GivenUp
              ELSE (CHOOSE i \in lines : \A j \in lines : i <= j) + 1]
  /\ mailbox' = [mailbox EXCEPT ![a] = Tail(@)]
  /\ sent' = <<>>
  /\ UNCHANGED <<m_sessions, inbox>>

ScriptStep(a) == ScriptReceive(a) \/ \E c \in CallID : ScriptSend(a, c)

Quiet ==
  /\ inbox = <<>>
  /\ \A a \in Process : mailbox[a] = <<>> /\ \A c \in CallID : ~ Sending(a, c)

\* The test is over and the proxy waits for the next datagram.
Idle == Quiet /\ UNCHANGED vars

Next == run \/ (\E a \in Process : ScriptStep(a)) \/ Idle

\* The worker is blocked only while its socket is empty, and a SIPp process reads
\* its socket and plays its script as long as there is something to do.
Fairness == WF_vars(run) /\ \A a \in Process : WF_vars(ScriptStep(a))

Spec == Init /\ [][Next]_vars /\ Fairness

-------------------------------------------------------------------------------
(* Properties. *)

\* The test calls succeed: neither process ever gets a message it does not expect.
\* (README.md "This is real SIP behavior"; the scripts of test_Call.)
NothingUnexpected == \A a \in Process, c \in CallID : pos[a][c] # GivenUp

\* Nobody waits in vain: once no datagram is under way and nobody has one to send,
\* both scripts of every call are at their end and the proxy has no session left.
\* A message dropped by a handler, as its session was removed too early, leaves a
\* process at a receive for ever; a session removed too late stays in the table.
QuietMeansComplete ==
  Quiet => \A c \in CallID : ~ hasSession(c) /\ \A a \in Process : AtEnd(a, c)

\* Every test call is played to its end by both processes, and the proxy then has
\* no session left for it.
CallsComplete ==
  <>[](\A c \in CallID : ~ hasSession(c) /\ \A a \in Process : AtEnd(a, c))
===============================================================================
