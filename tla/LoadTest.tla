-------------------------------- MODULE LoadTest --------------------------------
(***************************************************************************)
(* The load test: calls of `sipp -sn uac' through the proxy to              *)
(* `sipp -sn uas' faster than the proxy reads.  The worker sleeps 100 ms    *)
(* after each datagram, so the socket of port 5060 fills and the kernel     *)
(* drops what does not fit.  SIPp repeats what its scripts mark for it      *)
(* until an answer comes, and answers a repeated message as it did before;  *)
(* its own sockets are read at once, so that all that is lost is lost on    *)
(* its way to the proxy.                                                   *)
(***************************************************************************)
EXTENDS CallScript

CONSTANT Capacity \* how many datagrams the socket of the proxy holds

ASSUME CapacityAssumption == Capacity \in Nat \ {0}
ASSUME BasicAssumption == \A c \in CallID : Scenario[c] = "basic"

VARIABLES
  last,    \* last[a][c]: the message received last and not answered, <<>> when there is none
  answered \* answered[a][c]: <<m, i>> when line i of the script was sent on receipt of m

loadVars == <<vars, last, answered>>

None == <<>>

LoadTypeOK ==
  /\ TypeOK
  /\ Len(inbox) <= Capacity
  /\ last \in [Process -> [CallID -> Message \cup {None}]]
  /\ \A a \in Process, c \in CallID :
       answered[a][c] # None =>
         /\ answered[a][c][1] \in Message
         /\ answered[a][c][2] \in 1 .. pos[a][c] - 1
         /\ Script(a, c)[answered[a][c][2]].op = "send"

LoadInit ==
  /\ Init
  /\ last = [a \in Process |-> [c \in CallID |-> None]]
  /\ answered = [a \in Process |-> [c \in CallID |-> None]]

\* sendto never fails; the datagram is lost when the socket of the proxy is full.
ToProxy(a, m) ==
  /\ inbox' = IF Len(inbox) < Capacity THEN Append(inbox, [src |-> a, msg |-> m]) ELSE inbox
  /\ sent' = <<>>
  /\ UNCHANGED m_sessions

LoadRun == run /\ UNCHANGED <<last, answered>>

LoadSend(a, c) ==
  /\ Sending(a, c)
  /\ ToProxy(a, Line(a, c).msg)
  /\ pos' = [pos EXCEPT ![a][c] = @ + 1]
  /\ last' = [last EXCEPT ![a][c] = None]
  /\ answered' = IF last[a][c] = None THEN answered
                 ELSE [answered EXCEPT ![a][c] = << last[a][c], pos[a][c] >>]
  /\ UNCHANGED mailbox

\* What the scripts mark with "retrans".
Repeats(m) ==
  \/ IsRequest(m, "INVITE") \/ IsRequest(m, "BYE")
  \/ IsResponse(m) /\ m.line = {"200"} /\ m.cseq = "INVITE"

\* 500 ms and more without an answer.  By then both processes have read their sockets.
Retransmit(a, c) ==
  /\ Playing(a, c) /\ pos[a][c] > 1 /\ ~ Sending(a, c)
  /\ LET previous == Script(a, c)[pos[a][c] - 1]
     IN  previous.op = "send" /\ Repeats(previous.msg) /\ ToProxy(a, previous.msg)
  /\ \A b \in Process : mailbox[b] = <<>>
  /\ UNCHANGED <<mailbox, pos, last, answered>>

\* A message that has been answered already is answered again.
AnswerAgain(a) ==
  /\ mailbox[a] # <<>>
  /\ LET m == Head(mailbox[a])
         again == answered[a][m.callID]
     IN  /\ ~ Sending(a, m.callID)
         /\ again # None /\ again[1] = m
         /\ ToProxy(a, Script(a, m.callID)[again[2]].msg)
  /\ mailbox' = [mailbox EXCEPT ![a] = Tail(@)]
  /\ UNCHANGED <<pos, last, answered>>

\* One the script had optionally, and has passed, is dropped: a second 100, 180 or ACK.
Late(a, m) ==
  \E i \in 1 .. pos[a][m.callID] - 1 :
    LET line == Script(a, m.callID)[i] IN line.op = "maybe" /\ Matches(m, line.what)

DropLate(a) ==
  /\ mailbox[a] # <<>>
  /\ LET m == Head(mailbox[a]) IN ~ Sending(a, m.callID) /\ Late(a, m)
  /\ mailbox' = [mailbox EXCEPT ![a] = Tail(@)]
  /\ sent' = <<>>
  /\ UNCHANGED <<m_sessions, inbox, pos, last, answered>>

LoadReceive(a) ==
  /\ ScriptReceive(a)
  /\ LET m == Head(mailbox[a])
         again == answered[a][m.callID]
     IN  /\ ~ Late(a, m)
         /\ again # None => again[1] # m
         /\ last' = [last EXCEPT ![a][m.callID] = m]
  /\ UNCHANGED answered

Play(a) ==
  \/ LoadReceive(a) \/ AnswerAgain(a) \/ DropLate(a)
  \/ \E c \in CallID : LoadSend(a, c)

LoadOver == Quiet /\ (\A a \in Process, c \in CallID : ~ Playing(a, c)) /\ UNCHANGED loadVars

LoadNext ==
  \/ LoadRun
  \/ \E a \in Process : Play(a) \/ \E c \in CallID : Retransmit(a, c)
  \/ LoadOver

\* The timers of SIPp are not in step with the proxy's pauses: a datagram that is
\* repeated for ever finds room in the socket some time.
LoadSpec ==
  /\ LoadInit /\ [][LoadNext]_loadVars
  /\ WF_loadVars(LoadRun)
  /\ \A a \in Process :
       /\ WF_loadVars(Play(a))
       /\ \A c \in CallID : SF_loadVars(Len(inbox) < Capacity /\ Retransmit(a, c))

-------------------------------------------------------------------------------
\* The proxy keeps a call for as long as its caller needs it, whatever is lost and
\* repeated: the session is gone only when the final answer is at the caller's door.
SessionOutlivesCall ==
  \A c \in CallID :
    pos[Target][c] > 1 /\ ~ hasSession(c) =>
      AtEnd(Caller, c) \/ \E i \in DOMAIN mailbox[Caller] : mailbox[Caller][i] = Resp(c, "200", "BYE")
===============================================================================
