---------------------------- MODULE CallScriptProofs ----------------------------
(***************************************************************************)
(* The test calls over the loopback interface, for any number of calls of   *)
(* any mix of scenarios: types; that an answered call, and a cancelled one   *)
(* whose caller takes everything the proxy adds, never meets a message its   *)
(* scripts do not provide for; and that such a call is over when nothing is   *)
(* under way any more.                                                     *)
(***************************************************************************)
EXTENDS CallScript, SIPServerProofs, Functions, WellFoundedInduction, SequenceTheorems

-------------------------------------------------------------------------------
(* The scripts. *)

LEMMA ReqIsMessage ==
  ASSUME NEW c \in CallID, NEW method \in Method
  PROVE  Req(c, method) \in Message /\ Req(c, method).callID = c
BY DEF Req, Message, Request

LEMMA RespIsMessage ==
  ASSUME NEW c \in CallID, NEW code \in Code, NEW method \in Method
  PROVE  Resp(c, code, method) \in Message /\ Resp(c, code, method).callID = c
BY StatusLineAssumption DEF Resp, Message, Response

\* What a line of a script of call c is.
ScriptLine(c) == [op : {"send"}, msg : {m \in Message : m.callID = c}]
                   \cup [op : {"recv", "maybe"}, what : Method \cup Code]

LEMMA SendIsLine ==
  ASSUME NEW c \in CallID, NEW m \in Message, m.callID = c
  PROVE  Send(m) \in ScriptLine(c)
BY DEF Send, ScriptLine

LEMMA RecvIsLine ==
  ASSUME NEW c \in CallID, NEW w \in Method \cup Code
  PROVE  Recv(w) \in ScriptLine(c) /\ RecvMaybe(w) \in ScriptLine(c)
BY DEF Recv, RecvMaybe, ScriptLine

LEMMA ScriptsAreTyped ==
  ASSUME NEW c \in CallID
  PROVE  /\ uac(c) \in Seq(ScriptLine(c))
         /\ uas(c) \in Seq(ScriptLine(c))
         /\ uac_cancel(c) \in Seq(ScriptLine(c))
         /\ uac_cancel_100(c) \in Seq(ScriptLine(c))
         /\ uac_cancel_patient(c) \in Seq(ScriptLine(c))
         /\ uas_delay(c) \in Seq(ScriptLine(c))
<1>1. \A method \in Method : Send(Req(c, method)) \in ScriptLine(c)
  BY ReqIsMessage, SendIsLine
<1>2. \A code \in Code, method \in Method : Send(Resp(c, code, method)) \in ScriptLine(c)
  BY RespIsMessage, SendIsLine
<1>3. \A w \in Method \cup Code : Recv(w) \in ScriptLine(c) /\ RecvMaybe(w) \in ScriptLine(c)
  BY RecvIsLine
<1>4. /\ "INVITE" \in Method /\ "ACK" \in Method /\ "BYE" \in Method /\ "CANCEL" \in Method
      /\ "100" \in Code /\ "180" \in Code /\ "200" \in Code /\ "487" \in Code
  BY DEF Method, Code
<1> HIDE DEF ScriptLine
<1> QED
  BY <1>1, <1>2, <1>3, <1>4 DEF uac, uas, uac_cancel, uac_cancel_100, uac_cancel_patient, uas_delay

LEMMA ScriptIsTyped ==
  ASSUME NEW a \in Process, NEW c \in CallID
  PROVE  Script(a, c) \in Seq(ScriptLine(c))
<1>1. Scenario[c] \in {"basic", "cancel", "cancel_100", "cancel_patient"}
  BY ScenarioAssumption
<1>2. a = Target \/ a = Caller
  BY DEF Process
<1>3. Caller # Target
  BY CallerAssumption
<1>4. Script(a, c) \in {uac(c), uas(c), uac_cancel(c), uac_cancel_100(c), uac_cancel_patient(c), uas_delay(c)}
  BY <1>1, <1>2, <1>3 DEF Script, Scripts
<1> QED
  BY <1>4, ScriptsAreTyped

-------------------------------------------------------------------------------
(* What the proxy sends, and what a process receives. *)

LEMMA ForProcessIs ==
  ASSUME NEW out \in Seq(Outgoing), NEW i \in {1, 2}, NEW a
  PROVE  /\ ForProcess(out, i, a) \in Seq(Message)
         /\ \/ ForProcess(out, i, a) = <<>>
            \/ i \in DOMAIN out /\ out[i].dst = a /\ ForProcess(out, i, a) = << out[i].msg >>
<1>1. CASE i \in DOMAIN out /\ out[i].dst = a
  <2>1. out[i] \in Outgoing
    BY <1>1, LenProperties, ElementOfSeq
  <2>2. out[i].msg \in Message
    BY <2>1 DEF Outgoing
  <2> QED
    BY <1>1, <2>2 DEF ForProcess
<1>2. CASE ~ (i \in DOMAIN out /\ out[i].dst = a)
  BY <1>2 DEF ForProcess
<1> QED
  BY <1>1, <1>2

\* The line a receive picks is the first that matches.
PickLine(lines) == CHOOSE i \in lines : \A j \in lines : i <= j

LEMMA PickLineIs ==
  ASSUME NEW lines \in SUBSET Nat, lines # {}
  PROVE  PickLine(lines) \in lines /\ \A j \in lines : PickLine(lines) <= j
<1> DEFINE Least(i) == \A j \in lines : i <= j
           R == OpToRel(<, Nat)
<1>1. IsWellFoundedOn(R, Nat)
  BY NatLessThanWellFounded
<1>2. PICK i \in lines : \A j \in lines : <<j, i>> \notin R
  BY <1>1, WFMin
<1>3. Least(i)
  <2>1. ASSUME NEW j \in lines PROVE ~ (j < i)
    BY <1>2 DEF OpToRel
  <2> QED
    BY <2>1
<1> HIDE DEF Least
<1>4. (CHOOSE x \in lines : Least(x)) \in lines /\ Least(CHOOSE x \in lines : Least(x))
  BY <1>2, <1>3
<1> USE DEF Least
<1> QED
  BY <1>4 DEF PickLine

\* The lines of its script at which the process at a may take message m.
Takes(a, m) == {i \in Candidates(a, m.callID) : Matches(m, Script(a, m.callID)[i].what)}

\* Where receiving m takes the process at a in the script of its call.
PosAfter(a, m) ==
  IF ~ Playing(a, m.callID) THEN pos[a][m.callID]
  ELSE IF Takes(a, m) = {} THEN GivenUp
  ELSE PickLine(Takes(a, m)) + 1

LEMMA TakesIs ==
  ASSUME TypeOK, NEW a \in Process, NEW m \in Message
  PROVE  /\ Takes(a, m) \in SUBSET Nat
         /\ \A i \in Takes(a, m) : pos[a][m.callID] <= i /\ i <= Len(Script(a, m.callID))
         /\ Takes(a, m) # {} => PickLine(Takes(a, m)) \in Takes(a, m)
<1>1. m.callID \in CallID
  BY MessageIsTyped
<1>2. Len(Script(a, m.callID)) \in Nat
  BY <1>1, ScriptIsTyped
<1>3. pos[a][m.callID] \in Nat
  BY <1>1 DEF TypeOK
<1>4. Takes(a, m) \in SUBSET Nat /\ \A i \in Takes(a, m) : pos[a][m.callID] <= i /\ i <= Len(Script(a, m.callID))
  BY <1>2, <1>3 DEF Takes, Candidates
<1> QED
  BY <1>4, PickLineIs

LEMMA ReceiveIs ==
  ASSUME TypeOK, NEW a \in Process, ScriptReceive(a)
  PROVE  LET m == Head(mailbox[a]) IN
         /\ mailbox[a] # <<>> /\ m \in Message
         /\ ~ Sending(a, m.callID)
         /\ pos' = [pos EXCEPT ![a][m.callID] = PosAfter(a, m)]
         /\ mailbox' = [mailbox EXCEPT ![a] = Tail(mailbox[a])]
         /\ inbox' = inbox /\ m_sessions' = m_sessions /\ sent' = <<>>
<1>1. mailbox[a] \in Seq(Message) /\ mailbox[a] # <<>>
  BY DEF TypeOK, ScriptReceive
<1>2. Head(mailbox[a]) \in Message
  BY <1>1
<1> QED
  BY <1>1, <1>2 DEF ScriptReceive, PosAfter, Takes, PickLine

-------------------------------------------------------------------------------
(* Types. *)

LEMMA LineIsTyped ==
  ASSUME TypeOK, NEW a \in Process, NEW c \in CallID, Sending(a, c)
  PROVE  /\ pos[a][c] \in 1 .. Len(Script(a, c))
         /\ Line(a, c).msg \in Message /\ Line(a, c).msg.callID = c
<1>1. Script(a, c) \in Seq(ScriptLine(c))
  BY ScriptIsTyped
<1>2. pos[a][c] \in 1 .. Len(Script(a, c))
  BY <1>1 DEF TypeOK, Sending, Playing, AtEnd, GivenUp
<1>3. Line(a, c) \in ScriptLine(c)
  BY <1>1, <1>2 DEF Line
<1> QED
  BY <1>2, <1>3 DEF Sending, ScriptLine

\* What waits for the proxy.
Arrival == [src : Process, msg : Message]

LEMMA RunStep ==
  ASSUME TypeOK, run
  PROVE  LET m == Head(inbox).msg
             b == Head(inbox).src
         IN  /\ inbox # <<>> /\ m \in Message /\ b \in Process /\ b \in Addr
             /\ processSipMessage(m, b) /\ SendStep(m, b)
             /\ ServerTypeOK'
<1>1. inbox # <<>> /\ inbox \in Seq([src : Process, msg : Message]) /\ ServerTypeOK
  BY DEF run, TypeOK
<1>2. Head(inbox) \in [src : Process, msg : Message]
  BY <1>1, HeadTailProperties
<1>3. Head(inbox).msg \in Message /\ Head(inbox).src \in Process
  BY <1>2
<1>4. Head(inbox).src \in Addr
  BY <1>3, CallerAssumption, TargetAssumption DEF Process
<1>5. processSipMessage(Head(inbox).msg, Head(inbox).src)
  BY DEF run
<1>6. SendStep(Head(inbox).msg, Head(inbox).src)
  BY <1>1, <1>3, <1>4, <1>5, SendsStep
<1>7. ServerTypeOK'
  BY <1>1, <1>3, <1>4, <1>5, <1>6, TableStep DEF ServerTypeOK, SendStep
<1> QED
  BY <1>1, <1>3, <1>4, <1>5, <1>6, <1>7

LEMMA TypeStep ==
  ASSUME TypeOK, [Next]_vars
  PROVE  TypeOK'
<1>1. ASSUME NEW a \in Process, NEW c \in CallID PROVE Len(Script(a, c)) \in Nat
  BY ScriptIsTyped
<1>2. CASE run
  <2>1. inbox' \in Seq([src : Process, msg : Message])
    BY <1>2, RunStep DEF run, TypeOK
  <2>2. sent' \in Seq(Outgoing) /\ ServerTypeOK'
    BY <1>2, RunStep DEF ServerTypeOK
  <2>3. mailbox' \in [Process -> Seq(Message)]
    <3>1. ASSUME NEW a \in Process
          PROVE  mailbox[a] \o ForProcess(sent', 1, a) \o ForProcess(sent', 2, a) \in Seq(Message)
      <4>1. ForProcess(sent', 1, a) \in Seq(Message) /\ ForProcess(sent', 2, a) \in Seq(Message)
        BY <2>2, ForProcessIs
      <4>2. mailbox[a] \in Seq(Message)
        BY DEF TypeOK
      <4> QED
        BY <4>1, <4>2
    <3> QED
      BY <1>2, <3>1 DEF run
  <2>4. pos' = pos
    BY <1>2 DEF run
  <2> QED
    BY <2>1, <2>2, <2>3, <2>4 DEF TypeOK
<1>3. ASSUME NEW a \in Process, NEW c \in CallID, ScriptSend(a, c) PROVE TypeOK'
  <2>1. pos[a][c] \in 1 .. Len(Script(a, c)) /\ Line(a, c).msg \in Message
    BY <1>3, LineIsTyped DEF ScriptSend
  <2>2. inbox' \in Seq([src : Process, msg : Message])
    BY <1>3, <2>1 DEF ScriptSend, TypeOK
  <2>3. /\ pos' \in [Process -> [CallID -> Nat]]
        /\ \A b \in Process, d \in CallID : pos'[b][d] <= Len(Script(b, d)) + 1
    <3>1. pos' = [pos EXCEPT ![a][c] = pos[a][c] + 1] /\ pos \in [Process -> [CallID -> Nat]]
      BY <1>3 DEF ScriptSend, TypeOK
    <3>2. \A b \in Process, d \in CallID : pos[b][d] <= Len(Script(b, d)) + 1
      BY DEF TypeOK
    <3> QED
      BY <1>1, <2>1, <3>1, <3>2
  <2> QED
    BY <1>3, <2>2, <2>3 DEF ScriptSend, TypeOK, ServerTypeOK, SessionsTypeOK
<1>4. ASSUME NEW a \in Process, ScriptReceive(a) PROVE TypeOK'
  <2> DEFINE m == Head(mailbox[a])
  <2>1. /\ mailbox[a] # <<>> /\ m \in Message
        /\ pos' = [pos EXCEPT ![a][m.callID] = PosAfter(a, m)]
        /\ mailbox' = [mailbox EXCEPT ![a] = Tail(mailbox[a])]
        /\ inbox' = inbox /\ m_sessions' = m_sessions /\ sent' = <<>>
    BY <1>4, ReceiveIs
  <2>2. m.callID \in CallID
    BY <2>1, MessageIsTyped
  <2>3. PosAfter(a, m) \in Nat /\ PosAfter(a, m) <= Len(Script(a, m.callID)) + 1
    <3> DEFINE i == PickLine(Takes(a, m))
    <3>1. Takes(a, m) # {} => i \in Nat /\ i <= Len(Script(a, m.callID))
      BY <2>1, TakesIs
    <3>2. pos[a][m.callID] \in Nat /\ pos[a][m.callID] <= Len(Script(a, m.callID)) + 1
      BY <2>2 DEF TypeOK
    <3>3. Len(Script(a, m.callID)) \in Nat
      BY <1>1, <2>2
    <3> HIDE DEF i, m
    <3> QED
      BY <3>1, <3>2, <3>3 DEF PosAfter, GivenUp, i
  <2>4. mailbox' \in [Process -> Seq(Message)]
    BY <2>1 DEF TypeOK
  <2>5. /\ pos' \in [Process -> [CallID -> Nat]]
        /\ \A b \in Process, d \in CallID : pos'[b][d] <= Len(Script(b, d)) + 1
    <3> HIDE DEF m
    <3> QED
      BY <1>1, <2>1, <2>2, <2>3 DEF TypeOK
  <2> QED
    BY <2>1, <2>4, <2>5 DEF TypeOK, ServerTypeOK, SessionsTypeOK
<1>5. CASE UNCHANGED vars
  BY <1>5 DEF vars, serverVars, TypeOK, ServerTypeOK, SessionsTypeOK
<1> QED
  BY <1>2, <1>3, <1>4, <1>5 DEF Next, ScriptStep, Idle

\* Whatever calls the two processes make, the queues hold messages only, the table
\* holds sessions only, and no process runs past the end of a script.
THEOREM ScriptTyping == Spec => []TypeOK
<1>1. Init => TypeOK
  <2>1. ASSUME NEW a \in Process, NEW c \in CallID PROVE Len(Script(a, c)) \in Nat
    BY ScriptIsTyped
  <2> QED
    BY <2>1 DEF Init, ServerInit, SessionsInit, TypeOK, ServerTypeOK, SessionsTypeOK
<1>2. TypeOK /\ [Next]_vars => TypeOK'
  BY TypeStep
<1> QED
  BY <1>1, <1>2, PTL DEF Spec

-------------------------------------------------------------------------------
(* Queues of several calls and senders. *)

\* What s carries of K is due[i] for each i of L, once, in the order of the numbers.
Carries(s, K, L, due) ==
  \E f \in [L -> DOMAIN s] :
    /\ \A i, j \in L : i < j => f[i] < f[j]
    /\ \A i \in L : s[f[i]] = due[i]
    /\ \A k \in DOMAIN s : s[k] \in K => \E i \in L : f[i] = k

LEMMA CarriesNothing ==
  ASSUME NEW s, NEW K, NEW L, NEW due, Carries(s, K, L, due), s = <<>>
  PROVE  L = {}
<1>1. DOMAIN s = {}
  OBVIOUS
<1> QED
  BY <1>1 DEF Carries

LEMMA CarriesEmpty ==
  ASSUME NEW K, NEW due
  PROVE  Carries(<<>>, K, {}, due)
<1> DEFINE f == [i \in {} |-> 1]
<1>1. f \in [{} -> DOMAIN <<>>] /\ DOMAIN <<>> = {}
  OBVIOUS
<1> QED
  BY <1>1 DEF Carries

\* The first of K in a queue is what is due for the least of L.
LEMMA CarriesHead ==
  ASSUME NEW S, NEW s \in Seq(S), s # <<>>, NEW K, Head(s) \in K, NEW L \in SUBSET Nat, NEW due,
         Carries(s, K, L, due)
  PROVE  \E n \in L : /\ \A i \in L : n <= i
                      /\ Head(s) = due[n]
                      /\ Carries(Tail(s), K, L \ {n}, due)
<1> DEFINE M == 1 .. Len(s)
<1>0. DOMAIN s = M
  BY LenProperties
<1>1. Len(s) \in Nat /\ DOMAIN s = M /\ 1 \in M /\ Head(s) = s[1]
  <2>1. Len(s) \in Nat /\ DOMAIN s = M /\ Len(s) # 0
    BY LenProperties, EmptySeq
  <2> QED
    BY <2>1
<1>2. /\ Len(Tail(s)) = Len(s) - 1 /\ DOMAIN Tail(s) = 1 .. Len(s) - 1
      /\ \A k \in 1 .. Len(s) - 1 : Tail(s)[k] = s[k + 1]
  BY HeadTailProperties, LenProperties
<1>3. PICK f \in [L -> M] :
        /\ \A i, j \in L : i < j => f[i] < f[j]
        /\ \A i \in L : s[f[i]] = due[i]
        /\ \A k \in M : s[k] \in K => \E i \in L : f[i] = k
  BY <1>0, Zenon DEF Carries
<1>4. PICK n \in L : f[n] = 1
  BY <1>1, <1>3
<1>5. \A i \in L : f[i] \in Nat /\ f[i] >= 1
  BY <1>1, <1>3
<1>6. \A i \in L : n <= i /\ (i # n => f[i] > 1)
  <2>1. ASSUME NEW i \in L PROVE n <= i /\ (i # n => f[i] > 1)
    <3>1. ~ (i < n)
      BY <1>3, <1>4, <1>5
    <3>2. i > n => f[i] > 1
      BY <1>3, <1>4
    <3> QED
      BY <3>1, <3>2
  <2> QED
    BY <2>1
<1> DEFINE g == [i \in L \ {n} |-> f[i] - 1]
<1>7. g \in [L \ {n} -> DOMAIN Tail(s)] /\ \A i \in L \ {n} : g[i] = f[i] - 1 /\ f[i] \in M
  BY <1>1, <1>2, <1>3, <1>5, <1>6
<1> HIDE DEF g
<1>8. \A i, j \in L \ {n} : i < j => g[i] < g[j]
  BY <1>1, <1>3, <1>7
<1>9. \A i \in L \ {n} : Tail(s)[g[i]] = due[i]
  <2>1. ASSUME NEW i \in L \ {n} PROVE Tail(s)[g[i]] = due[i]
    <3>1. g[i] \in 1 .. Len(s) - 1 /\ g[i] + 1 = f[i]
      BY <1>1, <1>2, <1>7
    <3> QED
      BY <1>2, <1>3, <3>1
  <2> QED
    BY <2>1
<1>10. ASSUME NEW k \in DOMAIN Tail(s), Tail(s)[k] \in K PROVE \E i \in L \ {n} : g[i] = k
  <2>1. k \in Nat /\ k + 1 \in M /\ k + 1 # 1 /\ s[k + 1] \in K
    BY <1>1, <1>2, <1>10
  <2>2. PICK i \in L : f[i] = k + 1
    BY <1>3, <2>1
  <2>3. i # n
    BY <1>4, <2>1, <2>2
  <2> QED
    BY <1>7, <2>1, <2>2, <2>3
<1>11. Carries(Tail(s), K, L \ {n}, due)
  BY <1>7, <1>8, <1>9, <1>10, Zenon DEF Carries
<1> QED
  BY <1>1, <1>3, <1>4, <1>6, <1>11

\* What is not of K comes and goes unnoticed.
LEMMA CarriesTail ==
  ASSUME NEW S, NEW s \in Seq(S), s # <<>>, NEW K, Head(s) \notin K, NEW L \in SUBSET Nat, NEW due,
         \A i \in L : due[i] \in K, Carries(s, K, L, due)
  PROVE  Carries(Tail(s), K, L, due)
<1> DEFINE M == 1 .. Len(s)
<1>0. DOMAIN s = M
  BY LenProperties
<1>1. Len(s) \in Nat /\ DOMAIN s = M /\ 1 \in M /\ Head(s) = s[1]
  <2>1. Len(s) \in Nat /\ DOMAIN s = M /\ Len(s) # 0
    BY LenProperties, EmptySeq
  <2> QED
    BY <2>1
<1>2. /\ Len(Tail(s)) = Len(s) - 1 /\ DOMAIN Tail(s) = 1 .. Len(s) - 1
      /\ \A k \in 1 .. Len(s) - 1 : Tail(s)[k] = s[k + 1]
  BY HeadTailProperties, LenProperties
<1>3. PICK f \in [L -> M] :
        /\ \A i, j \in L : i < j => f[i] < f[j]
        /\ \A i \in L : s[f[i]] = due[i]
        /\ \A k \in M : s[k] \in K => \E i \in L : f[i] = k
  BY <1>0, Zenon DEF Carries
<1>4. \A i \in L : f[i] \in M /\ f[i] # 1
  BY <1>1, <1>3
<1> DEFINE g == [i \in L |-> f[i] - 1]
<1>7. g \in [L -> DOMAIN Tail(s)] /\ \A i \in L : g[i] = f[i] - 1
  BY <1>1, <1>2, <1>3, <1>4
<1> HIDE DEF g
<1>8. ASSUME NEW i \in L, NEW j \in L, i < j PROVE g[i] < g[j]
  <2>1. f[i] < f[j]
    BY <1>3, <1>8
  <2>2. f[i] \in Nat /\ f[j] \in Nat /\ g[i] = f[i] - 1 /\ g[j] = f[j] - 1
    BY <1>1, <1>4, <1>7
  <2> QED
    BY <2>1, <2>2
<1>9. \A i \in L : Tail(s)[g[i]] = due[i]
  <2>1. ASSUME NEW i \in L PROVE Tail(s)[g[i]] = due[i]
    <3>1. g[i] \in 1 .. Len(s) - 1 /\ g[i] + 1 = f[i]
      BY <1>1, <1>2, <1>4, <1>7
    <3> QED
      BY <1>2, <1>3, <3>1
  <2> QED
    BY <2>1
<1>10. ASSUME NEW k \in DOMAIN Tail(s), Tail(s)[k] \in K PROVE \E i \in L : g[i] = k
  <2>1. k \in Nat /\ k + 1 \in M /\ s[k + 1] \in K
    BY <1>1, <1>2, <1>10
  <2>2. PICK i \in L : f[i] = k + 1
    BY <1>3, <2>1
  <2> QED
    BY <1>7, <2>1, <2>2
<1> QED
  BY <1>7, <1>8, <1>9, <1>10, Zenon DEF Carries

\* What is due for a number behind all of L goes to the end of the queue.
LEMMA CarriesMore ==
  ASSUME NEW S, NEW s \in Seq(S), NEW e \in S, NEW K, NEW L \in SUBSET Nat, NEW due,
         NEW n \in Nat, \A i \in L : i < n, e = due[n], Carries(s, K, L, due)
  PROVE  Carries(Append(s, e), K, L \cup {n}, due)
<1> DEFINE M == 1 .. Len(s)
           t == Append(s, e)
<1>1. Len(s) \in Nat /\ DOMAIN s = M
  BY LenProperties
<1>2. /\ DOMAIN t = 1 .. Len(s) + 1 /\ t[Len(s) + 1] = e
      /\ \A k \in M : t[k] = s[k]
  BY AppendProperties, LenProperties
<1>3. PICK f \in [L -> M] :
        /\ \A i, j \in L : i < j => f[i] < f[j]
        /\ \A i \in L : s[f[i]] = due[i]
        /\ \A k \in M : s[k] \in K => \E i \in L : f[i] = k
  BY <1>1, Zenon DEF Carries
<1> DEFINE g == [i \in L \cup {n} |-> IF i = n THEN Len(s) + 1 ELSE f[i]]
<1> HIDE DEF t
<1>4. \A i \in L : i # n /\ f[i] \in M /\ f[i] < Len(s) + 1
  BY <1>1, <1>3
<1>5. g \in [L \cup {n} -> DOMAIN t] /\ g[n] = Len(s) + 1 /\ \A i \in L : g[i] = f[i]
  BY <1>1, <1>2, <1>4
<1> HIDE DEF g
<1>6. ASSUME NEW i \in L \cup {n}, NEW j \in L \cup {n}, i < j PROVE g[i] < g[j]
  <2>1. i # n /\ i \in L
    <3>1. i \in Nat /\ j \in Nat /\ j <= n
      OBVIOUS
    <3> QED
      BY <1>6, <3>1
  <2>2. CASE j \in L
    BY <1>3, <1>5, <1>6, <2>1, <2>2
  <2>3. CASE j = n
    BY <1>4, <1>5, <2>1, <2>3
  <2> QED
    BY <2>2, <2>3
<1>7. ASSUME NEW i \in L \cup {n} PROVE t[g[i]] = due[i]
  <2>1. CASE i \in L
    BY <1>2, <1>3, <1>4, <1>5, <2>1
  <2>2. CASE i = n
    BY <1>2, <1>5, <2>2
  <2> QED
    BY <2>1, <2>2
<1>8. ASSUME NEW k \in DOMAIN t, t[k] \in K PROVE \E i \in L \cup {n} : g[i] = k
  BY <1>1, <1>2, <1>3, <1>5, <1>8
<1> QED
  BY <1>5, <1>6, <1>7, <1>8, Zenon DEF Carries, t

LEMMA CarriesBeside ==
  ASSUME NEW S, NEW s \in Seq(S), NEW e \in S, NEW K, e \notin K, NEW L, NEW due, Carries(s, K, L, due)
  PROVE  Carries(Append(s, e), K, L, due)
<1> DEFINE M == 1 .. Len(s)
           t == Append(s, e)
<1>1. Len(s) \in Nat /\ DOMAIN s = M
  BY LenProperties
<1>2. /\ DOMAIN t = 1 .. Len(s) + 1 /\ t[Len(s) + 1] = e
      /\ \A k \in M : t[k] = s[k]
  BY AppendProperties, LenProperties
<1>3. PICK f \in [L -> M] :
        /\ \A i, j \in L : i < j => f[i] < f[j]
        /\ \A i \in L : s[f[i]] = due[i]
        /\ \A k \in M : s[k] \in K => \E i \in L : f[i] = k
  BY <1>1, Zenon DEF Carries
<1> HIDE DEF t
<1>4. f \in [L -> DOMAIN t]
  BY <1>1, <1>2
<1>5. \A i \in L : t[f[i]] = due[i]
  BY <1>2, <1>3
<1>6. ASSUME NEW k \in DOMAIN t, t[k] \in K PROVE \E i \in L : f[i] = k
  BY <1>1, <1>2, <1>3, <1>6
<1> QED
  BY <1>3, <1>4, <1>5, <1>6, Zenon DEF Carries, t

-------------------------------------------------------------------------------
(* The scripts of the calls that fit the proxy. *)

Basic(c) == c \in CallID /\ Scenario[c] = "basic"

Peer(a) == IF a = Caller THEN Target ELSE Caller

LEMMA PeerIs ==
  /\ Peer(Caller) = Target /\ Peer(Target) = Caller /\ Caller # Target
  /\ Process = {Caller, Target}
  /\ \A a \in Process : Peer(a) \in Process /\ Peer(Peer(a)) = a /\ Peer(a) # a
BY CallerAssumption DEF Peer, Process

\* The lines of the two scripts.
LEMMA BasicScripts ==
  ASSUME NEW c, Basic(c)
  PROVE  /\ Script(Caller, c) = uac(c) /\ Len(uac(c)) = 7
         /\ Script(Target, c) = uas(c) /\ Len(uas(c)) = 6
<1>1. Script(Caller, c) = uac(c) /\ Script(Target, c) = uas(c)
  BY PeerIs DEF Basic, Script, Scripts
<1> QED
  BY <1>1 DEF uac, uas

LEMMA LinesAre ==
  ASSUME NEW c
  PROVE  /\ uac(c)[1] = Send(Req(c, "INVITE")) /\ uac(c)[2] = RecvMaybe("100")
         /\ uac(c)[3] = RecvMaybe("180") /\ uac(c)[4] = Recv("200")
         /\ uac(c)[5] = Send(Req(c, "ACK")) /\ uac(c)[6] = Send(Req(c, "BYE")) /\ uac(c)[7] = Recv("200")
         /\ uas(c)[1] = Recv("INVITE") /\ uas(c)[2] = Send(Resp(c, "180", "INVITE"))
         /\ uas(c)[3] = Send(Resp(c, "200", "INVITE")) /\ uas(c)[4] = RecvMaybe("ACK")
         /\ uas(c)[5] = Recv("BYE") /\ uas(c)[6] = Send(Resp(c, "200", "BYE"))
BY DEF uac, uas

LEMMA OpsAre ==
  ASSUME NEW c
  PROVE  /\ \A i \in {1, 5, 6} : uac(c)[i].op = "send"
         /\ \A i \in {2, 3} : uac(c)[i].op = "maybe"
         /\ \A i \in {4, 7} : uac(c)[i].op = "recv"
         /\ uac(c)[2].what = "100" /\ uac(c)[3].what = "180" /\ uac(c)[4].what = "200" /\ uac(c)[7].what = "200"
         /\ \A i \in {2, 3, 6} : uas(c)[i].op = "send"
         /\ uas(c)[1].op = "recv" /\ uas(c)[4].op = "maybe" /\ uas(c)[5].op = "recv"
         /\ uas(c)[1].what = "INVITE" /\ uas(c)[4].what = "ACK" /\ uas(c)[5].what = "BYE"
<1>1. \A m : Send(m).op = "send"
  BY DEF Send
<1>2. \A w : Recv(w).op = "recv" /\ Recv(w).what = w /\ RecvMaybe(w).op = "maybe" /\ RecvMaybe(w).what = w
  BY DEF Recv, RecvMaybe
<1> QED
  BY <1>1, <1>2, LinesAre

LEMMA TellsApart ==
  ASSUME NEW c
  PROVE  /\ \A method \in Method : ~ IsResponse(Req(c, method)) /\ Req(c, method).method = method
         /\ \A code \in Code, cs \in Method :
              IsResponse(Resp(c, code, cs)) /\ Resp(c, code, cs).line = {code} /\ Resp(c, code, cs).cseq = cs
BY DEF Req, Resp, IsResponse

\* The calls whose scripts provide for all the proxy sends.
Fits(c) == c \in CallID /\ Scenario[c] \in {"basic", "cancel_patient"}

\* For each line of a script that receives, the line whose handling by the proxy
\* brings the message; 0 stands for a line that sends.
Cause(a, c) ==
  IF Scenario[c] = "basic"
  THEN IF a = Caller THEN << 0, 1, 2, 3, 0, 0, 6 >> ELSE << 1, 0, 0, 5, 6, 0 >>
  ELSE IF a = Caller THEN << 0, 1, 2, 0, 4, 4, 5 >> ELSE << 1, 0, 4, 0, 0 >>

\* The lines of the caller that receive an answer of the proxy to what the caller sent.
ByProxy(a, c) == IF a # Caller THEN {} ELSE IF Scenario[c] = "basic" THEN {2} ELSE {2, 5}
Origin(a, c, i) == IF i \in ByProxy(a, c) THEN a ELSE Peer(a)

\* The lines of the process at a that send, and those that receive.
Says(a, c)   == {i \in DOMAIN Script(a, c) : Script(a, c)[i].op = "send"}
Awaits(a, c) == {i \in DOMAIN Script(a, c) : Script(a, c)[i].op # "send"}

\* What each line sends to the proxy, and what each line is there to receive.
Datagrams(a, c) == [i \in Says(a, c) |-> [src |-> a, msg |-> Script(a, c)[i].msg]]
Answer(m) == IF IsRequest(m, "INVITE") THEN build100Trying(m) ELSE build_200_OK(m)
Due(a, c) ==
  [i \in Awaits(a, c) |->
     LET m == Script(Origin(a, c, i), c)[Cause(a, c)[i]].msg
     IN  IF i \in ByProxy(a, c) THEN Answer(m) ELSE m]

\* The callee's line of the response that ends the call.
LastLine(c) == IF Scenario[c] = "basic" THEN 6 ELSE 5

LEMMA CancelLines ==
  ASSUME NEW c
  PROVE  LET u == uac_cancel_patient(c)
             v == uas_delay(c)
         IN  /\ u[1] = Send(Req(c, "INVITE")) /\ u[2] = RecvMaybe("100") /\ u[3] = Recv("180")
             /\ u[4] = Send(Req(c, "CANCEL")) /\ u[5] = Recv("200") /\ u[6] = Recv("200") /\ u[7] = Recv("487")
             /\ v[1] = Recv("INVITE") /\ v[2] = Send(Resp(c, "180", "INVITE")) /\ v[3] = Recv("CANCEL")
             /\ v[4] = Send(Resp(c, "200", "CANCEL")) /\ v[5] = Send(Resp(c, "487", "INVITE"))
             /\ Len(u) = 7 /\ Len(v) = 5
BY DEF uac_cancel_patient, uas_delay

LEMMA CancelScripts ==
  ASSUME NEW c, Fits(c), ~ Basic(c)
  PROVE  Script(Caller, c) = uac_cancel_patient(c) /\ Script(Target, c) = uas_delay(c)
BY PeerIs DEF Basic, Fits, Script, Scripts

LEMMA LineKinds ==
  /\ \A m : Send(m).op = "send" /\ Send(m).msg = m
  /\ \A w : Recv(w).op = "recv" /\ Recv(w).what = w /\ RecvMaybe(w).op = "maybe" /\ RecvMaybe(w).what = w
BY DEF Send, Recv, RecvMaybe

\* The shape of the two kinds of calls: who sends and receives at which lines.
LEMMA BasicShape ==
  ASSUME NEW c, Basic(c)
  PROVE  /\ Says(Caller, c) = {1, 5, 6} /\ Says(Target, c) = {2, 3, 6}
         /\ Awaits(Caller, c) = {2, 3, 4, 7} /\ Awaits(Target, c) = {1, 4, 5}
         /\ Len(Script(Caller, c)) = 7 /\ Len(Script(Target, c)) = 6 /\ LastLine(c) = 6
<1>1. Script(Caller, c) = uac(c) /\ Script(Target, c) = uas(c) /\ Len(uac(c)) = 7 /\ Len(uas(c)) = 6
  BY BasicScripts
<1>2. DOMAIN uac(c) = 1 .. 7 /\ DOMAIN uas(c) = 1 .. 6
  BY DEF uac, uas
<1>3. \A i \in 1 .. 7 : uac(c)[i].op = "send" <=> i \in {1, 5, 6}
  BY OpsAre
<1>4. \A i \in 1 .. 6 : uas(c)[i].op = "send" <=> i \in {2, 3, 6}
  BY OpsAre
<1> QED
  BY <1>1, <1>2, <1>3, <1>4 DEF Says, Awaits, LastLine, Basic

LEMMA CancelShape ==
  ASSUME NEW c, Fits(c), ~ Basic(c)
  PROVE  /\ Says(Caller, c) = {1, 4} /\ Says(Target, c) = {2, 4, 5}
         /\ Awaits(Caller, c) = {2, 3, 5, 6, 7} /\ Awaits(Target, c) = {1, 3}
         /\ Len(Script(Caller, c)) = 7 /\ Len(Script(Target, c)) = 5 /\ LastLine(c) = 5
<1> DEFINE u == uac_cancel_patient(c)
           v == uas_delay(c)
<1>1. Script(Caller, c) = u /\ Script(Target, c) = v
  BY CancelScripts
<1>2. DOMAIN u = 1 .. 7 /\ DOMAIN v = 1 .. 5 /\ Len(u) = 7 /\ Len(v) = 5
  BY DEF uac_cancel_patient, uas_delay
<1>3. \A i \in 1 .. 7 : u[i].op = "send" <=> i \in {1, 4}
  BY CancelLines, LineKinds
<1>4. \A i \in 1 .. 5 : v[i].op = "send" <=> i \in {2, 4, 5}
  BY CancelLines, LineKinds
<1> QED
  BY <1>1, <1>2, <1>3, <1>4 DEF Says, Awaits, LastLine, Basic, Fits

\* What each line sends, and what each line is there to receive.
LEMMA BasicTraffic ==
  ASSUME NEW c, Basic(c)
  PROVE  LET s == Script(Caller, c)
             t == Script(Target, c)
             d == Due(Caller, c)
             e == Due(Target, c)
         IN  /\ s[1].msg = Req(c, "INVITE") /\ s[5].msg = Req(c, "ACK") /\ s[6].msg = Req(c, "BYE")
             /\ t[2].msg = Resp(c, "180", "INVITE") /\ t[3].msg = Resp(c, "200", "INVITE")
             /\ t[6].msg = Resp(c, "200", "BYE")
             /\ d[2] = Resp(c, "100", "INVITE") /\ d[3] = t[2].msg /\ d[4] = t[3].msg /\ d[7] = t[6].msg
             /\ e[1] = s[1].msg /\ e[4] = s[5].msg /\ e[5] = s[6].msg
<1>1. /\ Script(Caller, c)[1].msg = Req(c, "INVITE") /\ Script(Caller, c)[5].msg = Req(c, "ACK")
      /\ Script(Caller, c)[6].msg = Req(c, "BYE")
      /\ Script(Target, c)[2].msg = Resp(c, "180", "INVITE") /\ Script(Target, c)[3].msg = Resp(c, "200", "INVITE")
      /\ Script(Target, c)[6].msg = Resp(c, "200", "BYE")
  BY BasicScripts, LinesAre, LineKinds
<1>2. Answer(Req(c, "INVITE")) = Resp(c, "100", "INVITE")
  BY DEF Answer, IsRequest, Req, build100Trying
<1>3. /\ Cause(Caller, c)[2] = 1 /\ Cause(Caller, c)[3] = 2 /\ Cause(Caller, c)[4] = 3 /\ Cause(Caller, c)[7] = 6
      /\ Cause(Target, c)[1] = 1 /\ Cause(Target, c)[4] = 5 /\ Cause(Target, c)[5] = 6
  BY PeerIs DEF Cause, Basic
<1>4. /\ ByProxy(Caller, c) = {2} /\ ByProxy(Target, c) = {}
      /\ Origin(Caller, c, 2) = Caller /\ \A i \in {3, 4, 7} : Origin(Caller, c, i) = Target
      /\ \A i : Origin(Target, c, i) = Caller
  BY PeerIs DEF ByProxy, Origin, Basic
<1>5. Awaits(Caller, c) = {2, 3, 4, 7} /\ Awaits(Target, c) = {1, 4, 5}
  BY BasicShape
<1> QED
  BY <1>1, <1>2, <1>3, <1>4, <1>5 DEF Due

LEMMA CancelTraffic ==
  ASSUME NEW c, Fits(c), ~ Basic(c)
  PROVE  LET s == Script(Caller, c)
             t == Script(Target, c)
             d == Due(Caller, c)
             e == Due(Target, c)
         IN  /\ s[1].msg = Req(c, "INVITE") /\ s[4].msg = Req(c, "CANCEL")
             /\ t[2].msg = Resp(c, "180", "INVITE") /\ t[4].msg = Resp(c, "200", "CANCEL")
             /\ t[5].msg = Resp(c, "487", "INVITE")
             /\ d[2] = Resp(c, "100", "INVITE") /\ d[3] = t[2].msg /\ d[5] = Resp(c, "200", "CANCEL")
             /\ d[6] = t[4].msg /\ d[7] = t[5].msg
             /\ e[1] = s[1].msg /\ e[3] = s[4].msg
<1>1. /\ Script(Caller, c)[1].msg = Req(c, "INVITE") /\ Script(Caller, c)[4].msg = Req(c, "CANCEL")
      /\ Script(Target, c)[2].msg = Resp(c, "180", "INVITE") /\ Script(Target, c)[4].msg = Resp(c, "200", "CANCEL")
      /\ Script(Target, c)[5].msg = Resp(c, "487", "INVITE")
  BY CancelScripts, CancelLines, LineKinds
<1>2. Answer(Req(c, "INVITE")) = Resp(c, "100", "INVITE") /\ Answer(Req(c, "CANCEL")) = Resp(c, "200", "CANCEL")
  BY DEF Answer, IsRequest, Req, build100Trying, build_200_OK
<1>3. /\ Cause(Caller, c)[2] = 1 /\ Cause(Caller, c)[3] = 2 /\ Cause(Caller, c)[5] = 4
      /\ Cause(Caller, c)[6] = 4 /\ Cause(Caller, c)[7] = 5
      /\ Cause(Target, c)[1] = 1 /\ Cause(Target, c)[3] = 4
  BY PeerIs DEF Cause, Basic, Fits
<1>4. /\ ByProxy(Caller, c) = {2, 5} /\ ByProxy(Target, c) = {}
      /\ \A i \in {2, 5} : Origin(Caller, c, i) = Caller
      /\ \A i \in {3, 6, 7} : Origin(Caller, c, i) = Target
      /\ \A i : Origin(Target, c, i) = Caller
  BY PeerIs DEF ByProxy, Origin, Basic, Fits
<1>5. Awaits(Caller, c) = {2, 3, 5, 6, 7} /\ Awaits(Target, c) = {1, 3}
  BY CancelShape
<1> QED
  BY <1>1, <1>2, <1>3, <1>4, <1>5 DEF Due

-------------------------------------------------------------------------------
(* The inductive invariant.  h[a] is the set of the lines of the process at a   *)
(* whose datagrams the proxy has handled; it is all the past that matters.      *)

Sent(a, c) == {i \in Says(a, c) : i < pos[a][c]}
Read(a, c) == {i \in Awaits(a, c) : i < pos[a][c]}
\* The lines whose messages have been put into the mailbox of the process at a.
Arrived(a, c, h) == {i \in Awaits(a, c) : Cause(a, c)[i] \in h[Origin(a, c, i)]}

OfCall(c) == {m \in Message : m.callID = c}
FromIn(a, c) == {x \in Arrival : x.src = a /\ x.msg.callID = c}

\* Lines are handled in order and after they were sent, and received after what
\* brings them was handled.
Causal(c, h) ==
  \A a \in Process :
    /\ pos[a][c] \in 1 .. Len(Script(a, c)) + 1
    /\ h[a] \subseteq Sent(a, c)
    /\ \A i \in h[a], j \in Says(a, c) : j < i => j \in h[a]
    /\ Read(a, c) \subseteq Arrived(a, c, h)

\* The queues carry just what is between a sending and a handling, and between an
\* arrival and a reading, each once and in the order of the script.
Queues(c, h) ==
  \A a \in Process :
    /\ Carries(inbox, FromIn(a, c), Sent(a, c) \ h[a], Datagrams(a, c))
    /\ Carries(mailbox[a], OfCall(c), Arrived(a, c, h) \ Read(a, c), Due(a, c))

\* The session is there from the INVITE to the response that ends the call.
SessionThere(c, h) ==
  /\ hasSession(c) <=> 1 \in h[Caller] /\ LastLine(c) \notin h[Target]
  /\ hasSession(c) => m_sessions[c].caller = Caller /\ m_sessions[c].target = Target

Handled == [Process -> SUBSET Nat]
Flow(c, h) == h \in Handled /\ Causal(c, h) /\ Queues(c, h) /\ SessionThere(c, h)

\* What has arrived, spelled out.
LEMMA BasicArrived ==
  ASSUME NEW c, Basic(c), NEW h
  PROVE  /\ \A i : i \in Arrived(Caller, c, h) <=>
              \/ i = 2 /\ 1 \in h[Caller]
              \/ i = 3 /\ 2 \in h[Target]
              \/ i = 4 /\ 3 \in h[Target]
              \/ i = 7 /\ 6 \in h[Target]
         /\ \A i : i \in Arrived(Target, c, h) <=>
              \/ i = 1 /\ 1 \in h[Caller]
              \/ i = 4 /\ 5 \in h[Caller]
              \/ i = 5 /\ 6 \in h[Caller]
<1>1. /\ Cause(Caller, c)[2] = 1 /\ Cause(Caller, c)[3] = 2 /\ Cause(Caller, c)[4] = 3 /\ Cause(Caller, c)[7] = 6
      /\ Cause(Target, c)[1] = 1 /\ Cause(Target, c)[4] = 5 /\ Cause(Target, c)[5] = 6
  BY PeerIs DEF Cause, Basic
<1>2. /\ Origin(Caller, c, 2) = Caller /\ \A i \in {3, 4, 7} : Origin(Caller, c, i) = Target
      /\ \A i : Origin(Target, c, i) = Caller
  BY PeerIs DEF ByProxy, Origin, Basic
<1>3. \A a, i : i \in Arrived(a, c, h) <=> i \in Awaits(a, c) /\ Cause(a, c)[i] \in h[Origin(a, c, i)]
  BY DEF Arrived
<1>4. Origin(Caller, c, 3) = Target /\ Origin(Caller, c, 4) = Target /\ Origin(Caller, c, 7) = Target
  BY <1>2
<1>5. \A i : i \in Arrived(Caller, c, h) <=>
         \/ i = 2 /\ 1 \in h[Caller]
         \/ i = 3 /\ 2 \in h[Target]
         \/ i = 4 /\ 3 \in h[Target]
         \/ i = 7 /\ 6 \in h[Target]
  BY <1>1, <1>2, <1>3, <1>4, BasicShape
<1>6. \A i : i \in Arrived(Target, c, h) <=>
         \/ i = 1 /\ 1 \in h[Caller]
         \/ i = 4 /\ 5 \in h[Caller]
         \/ i = 5 /\ 6 \in h[Caller]
  BY <1>1, <1>2, <1>3, BasicShape
<1> QED
  BY <1>5, <1>6

LEMMA CancelArrived ==
  ASSUME NEW c, Fits(c), ~ Basic(c), NEW h
  PROVE  /\ \A i : i \in Arrived(Caller, c, h) <=>
              \/ i = 2 /\ 1 \in h[Caller]
              \/ i = 3 /\ 2 \in h[Target]
              \/ i = 5 /\ 4 \in h[Caller]
              \/ i = 6 /\ 4 \in h[Target]
              \/ i = 7 /\ 5 \in h[Target]
         /\ \A i : i \in Arrived(Target, c, h) <=>
              \/ i = 1 /\ 1 \in h[Caller]
              \/ i = 3 /\ 4 \in h[Caller]
<1>3. /\ Cause(Caller, c)[2] = 1 /\ Cause(Caller, c)[3] = 2 /\ Cause(Caller, c)[5] = 4
      /\ Cause(Caller, c)[6] = 4 /\ Cause(Caller, c)[7] = 5
      /\ Cause(Target, c)[1] = 1 /\ Cause(Target, c)[3] = 4
  BY PeerIs DEF Cause, Basic, Fits
<1>4. /\ \A i \in {2, 5} : Origin(Caller, c, i) = Caller
      /\ \A i \in {3, 6, 7} : Origin(Caller, c, i) = Target
      /\ \A i : Origin(Target, c, i) = Caller
  BY PeerIs DEF ByProxy, Origin, Basic, Fits
<1>5. \A a, i : i \in Arrived(a, c, h) <=> i \in Awaits(a, c) /\ Cause(a, c)[i] \in h[Origin(a, c, i)]
  BY DEF Arrived
<1>6. /\ Origin(Caller, c, 2) = Caller /\ Origin(Caller, c, 5) = Caller
      /\ Origin(Caller, c, 3) = Target /\ Origin(Caller, c, 6) = Target /\ Origin(Caller, c, 7) = Target
  BY <1>4
<1>7. \A i : i \in Arrived(Caller, c, h) <=>
         \/ i = 2 /\ 1 \in h[Caller]
         \/ i = 3 /\ 2 \in h[Target]
         \/ i = 5 /\ 4 \in h[Caller]
         \/ i = 6 /\ 4 \in h[Target]
         \/ i = 7 /\ 5 \in h[Target]
  BY <1>3, <1>5, <1>6, CancelShape
<1>8. \A i : i \in Arrived(Target, c, h) <=>
         \/ i = 1 /\ 1 \in h[Caller]
         \/ i = 3 /\ 4 \in h[Caller]
  BY <1>3, <1>4, <1>5, CancelShape
<1> QED
  BY <1>7, <1>8

LEMMA CausalIs ==
  ASSUME NEW c, NEW h, Causal(c, h), NEW a \in Process
  PROVE  /\ pos[a][c] \in 1 .. Len(Script(a, c)) + 1
         /\ \A k \in h[a] : k \in Says(a, c) /\ k < pos[a][c]
         /\ \A k \in Awaits(a, c) : k < pos[a][c] => k \in Arrived(a, c, h)
         /\ \A k \in h[a], l \in Says(a, c) : l < k => l \in h[a]
BY DEF Causal, Sent, Read

\* Where the two processes of a call can be, given what has been handled.
LEMMA BasicCausality ==
  ASSUME NEW c, Basic(c), NEW h, Causal(c, h)
  PROVE  LET p == pos[Caller][c]
             q == pos[Target][c]
             H == h[Caller]
             K == h[Target]
         IN  /\ p \in 1 .. 8 /\ q \in 1 .. 7
             /\ (\A k \in H : k \in {1, 5, 6} /\ k < p) /\ (\A k \in K : k \in {2, 3, 6} /\ k < q)
             /\ (\A k \in H, l \in {1, 5, 6} : l < k => l \in H) /\ (\A k \in K, l \in {2, 3, 6} : l < k => l \in K)
             /\ (p > 2 => 1 \in H) /\ (p > 3 => 2 \in K) /\ (p > 4 => 3 \in K) /\ (p > 7 => 6 \in K)
             /\ (q > 1 => 1 \in H) /\ (q > 4 => 5 \in H) /\ (q > 5 => 6 \in H)
<1> DEFINE p == pos[Caller][c]
           q == pos[Target][c]
           H == h[Caller]
           K == h[Target]
<1>1. Caller \in Process /\ Target \in Process
  BY PeerIs
<1>2. /\ Says(Caller, c) = {1, 5, 6} /\ Says(Target, c) = {2, 3, 6}
      /\ Awaits(Caller, c) = {2, 3, 4, 7} /\ Awaits(Target, c) = {1, 4, 5}
      /\ Len(Script(Caller, c)) = 7 /\ Len(Script(Target, c)) = 6
  BY BasicShape
<1>3. \A b \in Process :
        /\ pos[b][c] \in 1 .. Len(Script(b, c)) + 1
        /\ \A k \in h[b] : k \in Says(b, c) /\ k < pos[b][c]
        /\ \A k \in Awaits(b, c) : k < pos[b][c] => k \in Arrived(b, c, h)
        /\ \A k \in h[b], l \in Says(b, c) : l < k => l \in h[b]
  BY CausalIs
<1>4. p \in 1 .. 8 /\ q \in 1 .. 7
  <2>1. pos[Caller][c] \in 1 .. Len(Script(Caller, c)) + 1 /\ pos[Target][c] \in 1 .. Len(Script(Target, c)) + 1
    BY <1>1, <1>3
  <2>2. pos[Caller][c] \in 1 .. 7 + 1 /\ pos[Target][c] \in 1 .. 6 + 1
    BY <1>2, <2>1, Zenon
  <2> QED
    BY <2>2
<1>5. (\A k \in H : k \in {1, 5, 6} /\ k < p) /\ (\A k \in K : k \in {2, 3, 6} /\ k < q)
  BY <1>1, <1>2, <1>3
<1>6. /\ \A k \in {2, 3, 4, 7} : k < p => k \in Arrived(Caller, c, h)
      /\ \A k \in {1, 4, 5} : k < q => k \in Arrived(Target, c, h)
  BY <1>1, <1>2, <1>3
<1>7. (\A k \in H, l \in {1, 5, 6} : l < k => l \in H) /\ (\A k \in K, l \in {2, 3, 6} : l < k => l \in K)
  BY <1>1, <1>2, <1>3
<1>8. /\ (p > 2 => 1 \in H) /\ (p > 3 => 2 \in K) /\ (p > 4 => 3 \in K) /\ (p > 7 => 6 \in K)
      /\ (q > 1 => 1 \in H) /\ (q > 4 => 5 \in H) /\ (q > 5 => 6 \in H)
  BY <1>4, <1>6, BasicArrived
<1> QED
  BY <1>4, <1>5, <1>7, <1>8

LEMMA CancelCausality ==
  ASSUME NEW c, Fits(c), ~ Basic(c), NEW h, Causal(c, h)
  PROVE  LET p == pos[Caller][c]
             q == pos[Target][c]
             H == h[Caller]
             K == h[Target]
         IN  /\ p \in 1 .. 8 /\ q \in 1 .. 6
             /\ (\A k \in H : k \in {1, 4} /\ k < p) /\ (\A k \in K : k \in {2, 4, 5} /\ k < q)
             /\ (\A k \in H, l \in {1, 4} : l < k => l \in H) /\ (\A k \in K, l \in {2, 4, 5} : l < k => l \in K)
             /\ (p > 2 => 1 \in H) /\ (p > 3 => 2 \in K) /\ (p > 5 => 4 \in H) /\ (p > 6 => 4 \in K)
             /\ (p > 7 => 5 \in K) /\ (q > 1 => 1 \in H) /\ (q > 3 => 4 \in H)
<1> DEFINE p == pos[Caller][c]
           q == pos[Target][c]
           H == h[Caller]
           K == h[Target]
<1>1. Caller \in Process /\ Target \in Process
  BY PeerIs
<1>2. /\ Says(Caller, c) = {1, 4} /\ Says(Target, c) = {2, 4, 5}
      /\ Awaits(Caller, c) = {2, 3, 5, 6, 7} /\ Awaits(Target, c) = {1, 3}
      /\ Len(Script(Caller, c)) = 7 /\ Len(Script(Target, c)) = 5
  BY CancelShape
<1>3. \A b \in Process :
        /\ pos[b][c] \in 1 .. Len(Script(b, c)) + 1
        /\ \A k \in h[b] : k \in Says(b, c) /\ k < pos[b][c]
        /\ \A k \in Awaits(b, c) : k < pos[b][c] => k \in Arrived(b, c, h)
        /\ \A k \in h[b], l \in Says(b, c) : l < k => l \in h[b]
  BY CausalIs
<1>4. p \in 1 .. 8 /\ q \in 1 .. 6
  <2>1. pos[Caller][c] \in 1 .. Len(Script(Caller, c)) + 1 /\ pos[Target][c] \in 1 .. Len(Script(Target, c)) + 1
    BY <1>1, <1>3
  <2>2. pos[Caller][c] \in 1 .. 7 + 1 /\ pos[Target][c] \in 1 .. 5 + 1
    BY <1>2, <2>1, Zenon
  <2> QED
    BY <2>2
<1>5. (\A k \in H : k \in {1, 4} /\ k < p) /\ (\A k \in K : k \in {2, 4, 5} /\ k < q)
  BY <1>1, <1>2, <1>3
<1>6. /\ \A k \in {2, 3, 5, 6, 7} : k < p => k \in Arrived(Caller, c, h)
      /\ \A k \in {1, 3} : k < q => k \in Arrived(Target, c, h)
  BY <1>1, <1>2, <1>3
<1>7. (\A k \in H, l \in {1, 4} : l < k => l \in H) /\ (\A k \in K, l \in {2, 4, 5} : l < k => l \in K)
  BY <1>1, <1>2, <1>3
<1>8. /\ (p > 2 => 1 \in H) /\ (p > 3 => 2 \in K) /\ (p > 5 => 4 \in H) /\ (p > 6 => 4 \in K)
      /\ (p > 7 => 5 \in K) /\ (q > 1 => 1 \in H) /\ (q > 3 => 4 \in H)
  BY <1>4, <1>6, CancelArrived
<1> QED
  BY <1>4, <1>5, <1>7, <1>8

\* Messages reach a process in the order in which its script receives them.
LEMMA InOrder ==
  ASSUME NEW c, Fits(c), NEW h, Causal(c, h), NEW a \in Process,
         NEW i \in Arrived(a, c, h), NEW j \in Awaits(a, c), j < i
  PROVE  j \in Arrived(a, c, h)
<1> DEFINE H == h[Caller]
           K == h[Target]
<1>1. CASE Basic(c)
  <2>1. /\ 6 \in H => 5 \in H
        /\ 5 \in H => 1 \in H /\ 3 \in K
        /\ 6 \in K => 3 \in K /\ 6 \in H
        /\ 3 \in K => 2 \in K
        /\ 2 \in K => 1 \in H
    BY <1>1, BasicCausality
  <2> HIDE DEF H, K
  <2>2. CASE a = Caller
    BY <1>1, <2>1, <2>2, BasicArrived, BasicShape DEF H, K
  <2>3. CASE a = Target
    BY <1>1, <2>1, <2>3, BasicArrived, BasicShape DEF H, K
  <2> QED
    BY <2>2, <2>3, PeerIs
<1>2. CASE ~ Basic(c)
  <2>1. /\ 5 \in K => 4 \in K
        /\ 4 \in K => 4 \in H
        /\ 4 \in H => 2 \in K
        /\ 2 \in K => 1 \in H
    BY <1>2, CancelCausality
  <2> HIDE DEF H, K
  <2>2. CASE a = Caller
    BY <1>2, <2>1, <2>2, CancelArrived, CancelShape DEF H, K
  <2>3. CASE a = Target
    BY <1>2, <2>1, <2>3, CancelArrived, CancelShape DEF H, K
  <2> QED
    BY <2>2, <2>3, PeerIs
<1> QED
  BY <1>1, <1>2

\* The line of b that the proxy handles next.
IsNext(b, c, h, j) == j \in Sent(b, c) \ h[b] /\ \A i \in Sent(b, c) \ h[b] : j <= i

\* The session is there for every line but the INVITE, which opens it.
LEMMA NeedsSession ==
  ASSUME NEW c, Fits(c), NEW h, Causal(c, h), NEW b \in Process, NEW j, IsNext(b, c, h, j)
  PROVE  IF b = Caller /\ j = 1 THEN 1 \notin h[Caller]
         ELSE 1 \in h[Caller] /\ LastLine(c) \notin h[Target]
<1> DEFINE p == pos[Caller][c]
           q == pos[Target][c]
           H == h[Caller]
           K == h[Target]
<1>1. /\ j \in Says(b, c) /\ j < pos[b][c] /\ j \notin h[b]
      /\ \A i \in Says(b, c) : i < pos[b][c] /\ i \notin h[b] => j <= i
  BY DEF IsNext, Sent
<1>2. CASE Basic(c)
  <2>1. LastLine(c) = 6 /\ Says(Caller, c) = {1, 5, 6} /\ Says(Target, c) = {2, 3, 6}
    BY <1>2, BasicShape
  <2>2. CASE b = Caller
    BY <1>1, <1>2, <2>1, <2>2, BasicCausality, PeerIs
  <2>3. CASE b = Target
    BY <1>1, <1>2, <2>1, <2>3, BasicCausality, PeerIs
  <2> QED
    BY <2>2, <2>3, PeerIs
<1>3. CASE ~ Basic(c)
  <2>1. LastLine(c) = 5 /\ Says(Caller, c) = {1, 4} /\ Says(Target, c) = {2, 4, 5}
    BY <1>3, CancelShape
  <2>2. CASE b = Caller
    BY <1>1, <1>3, <2>1, <2>2, CancelCausality, PeerIs
  <2>3. CASE b = Target
    BY <1>1, <1>3, <2>1, <2>3, CancelCausality, PeerIs
  <2> QED
    BY <2>2, <2>3, PeerIs
<1> QED
  BY <1>2, <1>3

\* The lines of a that receive what the handling of line j of b brings.
Brings(a, b, c, j) == {i \in Awaits(a, c) : Cause(a, c)[i] = j /\ Origin(a, c, i) = b}

HandledToo(h, b, j) == [h EXCEPT ![b] = @ \cup {j}]

LEMMA HandledTooIs ==
  ASSUME NEW h \in Handled, NEW b \in Process, NEW j \in Nat
  PROVE  /\ HandledToo(h, b, j) \in Handled
         /\ HandledToo(h, b, j)[b] = h[b] \cup {j}
         /\ \A d \in Process : d # b => HandledToo(h, b, j)[d] = h[d]
BY DEF Handled, HandledToo

LEMMA ArrivedAfter ==
  ASSUME NEW c, NEW h \in Handled, NEW b \in Process, NEW j \in Nat
  PROVE  \A a \in Process : Arrived(a, c, HandledToo(h, b, j)) = Arrived(a, c, h) \cup Brings(a, b, c, j)
<1> DEFINE g == HandledToo(h, b, j)
<1>1. g \in Handled /\ g[b] = h[b] \cup {j} /\ \A d \in Process : d # b => g[d] = h[d]
  BY HandledTooIs
<1> HIDE DEF g
<1>2. ASSUME NEW a \in Process PROVE Arrived(a, c, g) = Arrived(a, c, h) \cup Brings(a, b, c, j)
  <2>1. \A i : Origin(a, c, i) \in Process
    BY PeerIs DEF Origin
  <2>2. \A i : Cause(a, c)[i] \in g[Origin(a, c, i)] <=>
                \/ Cause(a, c)[i] \in h[Origin(a, c, i)]
                \/ Cause(a, c)[i] = j /\ Origin(a, c, i) = b
    BY <1>1, <2>1
  <2> QED
    BY <2>2 DEF Arrived, Brings
<1> QED
  BY <1>2 DEF g

LEMMA BasicBrings ==
  ASSUME NEW c, Basic(c)
  PROVE  /\ Brings(Caller, Caller, c, 1) = {2} /\ Brings(Target, Caller, c, 1) = {1}
         /\ Brings(Caller, Caller, c, 5) = {} /\ Brings(Target, Caller, c, 5) = {4}
         /\ Brings(Caller, Caller, c, 6) = {} /\ Brings(Target, Caller, c, 6) = {5}
         /\ Brings(Caller, Target, c, 2) = {3} /\ Brings(Target, Target, c, 2) = {}
         /\ Brings(Caller, Target, c, 3) = {4} /\ Brings(Target, Target, c, 3) = {}
         /\ Brings(Caller, Target, c, 6) = {7} /\ Brings(Target, Target, c, 6) = {}
<1>1. /\ Cause(Caller, c)[2] = 1 /\ Cause(Caller, c)[3] = 2 /\ Cause(Caller, c)[4] = 3 /\ Cause(Caller, c)[7] = 6
      /\ Cause(Target, c)[1] = 1 /\ Cause(Target, c)[4] = 5 /\ Cause(Target, c)[5] = 6
  BY PeerIs DEF Cause, Basic
<1>2. /\ Origin(Caller, c, 2) = Caller /\ \A i \in {3, 4, 7} : Origin(Caller, c, i) = Target
      /\ \A i : Origin(Target, c, i) = Caller
  BY PeerIs DEF ByProxy, Origin, Basic
<1>3. Awaits(Caller, c) = {2, 3, 4, 7} /\ Awaits(Target, c) = {1, 4, 5} /\ Caller # Target
  BY BasicShape, PeerIs
<1> QED
  BY <1>1, <1>2, <1>3 DEF Brings

LEMMA CancelBrings ==
  ASSUME NEW c, Fits(c), ~ Basic(c)
  PROVE  /\ Brings(Caller, Caller, c, 1) = {2} /\ Brings(Target, Caller, c, 1) = {1}
         /\ Brings(Caller, Caller, c, 4) = {5} /\ Brings(Target, Caller, c, 4) = {3}
         /\ Brings(Caller, Target, c, 2) = {3} /\ Brings(Target, Target, c, 2) = {}
         /\ Brings(Caller, Target, c, 4) = {6} /\ Brings(Target, Target, c, 4) = {}
         /\ Brings(Caller, Target, c, 5) = {7} /\ Brings(Target, Target, c, 5) = {}
<1>1. /\ Cause(Caller, c)[2] = 1 /\ Cause(Caller, c)[3] = 2 /\ Cause(Caller, c)[5] = 4
      /\ Cause(Caller, c)[6] = 4 /\ Cause(Caller, c)[7] = 5
      /\ Cause(Target, c)[1] = 1 /\ Cause(Target, c)[3] = 4
  BY PeerIs DEF Cause, Basic, Fits
<1>2. /\ \A i \in {2, 5} : Origin(Caller, c, i) = Caller
      /\ \A i \in {3, 6, 7} : Origin(Caller, c, i) = Target
      /\ \A i : Origin(Target, c, i) = Caller
  BY PeerIs DEF ByProxy, Origin, Basic, Fits
<1>3. Awaits(Caller, c) = {2, 3, 5, 6, 7} /\ Awaits(Target, c) = {1, 3} /\ Caller # Target
  BY CancelShape, PeerIs
<1> QED
  BY <1>1, <1>2, <1>3 DEF Brings

-------------------------------------------------------------------------------
(* What the proxy does with a message of a call. *)

Partners(c) == m_sessions[c].caller = Caller /\ m_sessions[c].target = Target

LEMMA ServesInvite ==
  ASSUME TypeOK, NEW c \in CallID, ~ hasSession(c), NEW m, m = Req(c, "INVITE"), processSipMessage(m, Caller)
  PROVE  /\ sent' = << To(Caller, Resp(c, "100", "INVITE")), To(Target, m) >>
         /\ hasSession(c)' /\ Partners(c)'
<1>1. IsRequest(m, "INVITE") /\ m.callID = c /\ build100Trying(m) = Resp(c, "100", "INVITE")
  BY DEF Req, IsRequest, build100Trying
<1>2. processInviteMessage(m, Caller)
  BY <1>1 DEF processSipMessage, processAckMessage, processByeMessage,
       processCancelMessage, processRinging, processEndOfCall, processCancelOk, processOk,
       processOtherResponse, ForwardResponse, ignoreMessage, IsRequest, IsResponse
<1> DEFINE s == [caller |-> Caller, target |-> Target, state |-> "INVITE_SENT"]
<1>3. sent' = << To(Caller, Resp(c, "100", "INVITE")), To(Target, m) >>
  BY <1>1, <1>2 DEF processInviteMessage
<1>4. m_sessions' = [m_sessions EXCEPT ![c] = s] /\ m_sessions \in [CallID -> CallSession \cup {NoSession}]
  BY <1>1, <1>2 DEF processInviteMessage, addSession, TypeOK, ServerTypeOK, SessionsTypeOK
<1>5. s \in CallSession
  BY CallerAssumption, TargetAssumption DEF CallSession, SessionState
<1>6. m_sessions'[c] = s
  BY <1>4
<1>7. m_sessions'[c] # NoSession
  BY <1>5, <1>6, NoSessionAssumption
<1> QED
  BY <1>3, <1>6, <1>7 DEF hasSession, Partners

\* Of a message that is not INVITE or CANCEL the session makes it a message for the other party.
LEMMA ServesOther ==
  ASSUME TypeOK, NEW c \in CallID, hasSession(c), Partners(c), NEW m \in Message, m.callID = c,
         NEW b \in Process, processSipMessage(m, b),
         m.kind = "request" => m.method \in {"ACK", "BYE", "CANCEL"}
  PROVE  /\ IF IsRequest(m, "CANCEL") THEN sent' = << To(Caller, build_200_OK(m)), To(Peer(b), m) >>
            ELSE sent' = << To(Peer(b), m) >>
         /\ IF IsResponse(m) /\ EndsCall(m) THEN ~ hasSession(c)' ELSE hasSession(c)' /\ Partners(c)'
<1>1. OtherParty(getSession(c), b) = Peer(b) /\ getSession(c).caller = Caller
  BY PeerIs DEF Partners, OtherParty, isCaller, getSession
<1>2. ~ IsRequest(m, "INVITE") /\ ~ IsRequest(m, "OTHER")
  BY DEF IsRequest
<1>3. /\ IsRequest(m, "CANCEL") => sent' = << To(Caller, build_200_OK(m)), To(Peer(b), m) >>
      /\ ~ IsRequest(m, "CANCEL") => sent' = << To(Peer(b), m) >>
  BY <1>1, <1>2 DEF processSipMessage, processInviteMessage, processAckMessage, processByeMessage,
       processCancelMessage, processRinging, processEndOfCall, processCancelOk, processOk,
       processOtherResponse, ForwardResponse, ignoreMessage, IsRequest, IsResponse
<1>4. CASE IsResponse(m) /\ EndsCall(m)
  <2>1. processEndOfCall(m, b)
    BY <1>2, <1>4 DEF processSipMessage, processInviteMessage, processAckMessage, processByeMessage,
         processCancelMessage, processRinging, processCancelOk, processOk,
         processOtherResponse, ForwardResponse, ignoreMessage, IsRequest, IsResponse, EndsCall
  <2>2. m_sessions \in [CallID -> CallSession \cup {NoSession}]
    BY DEF TypeOK, ServerTypeOK, SessionsTypeOK
  <2>3. m_sessions'[c] = NoSession
    BY <2>1, <2>2 DEF processEndOfCall, removeSession
  <2> QED
    BY <1>3, <1>4, <2>3 DEF hasSession
<1>5. CASE ~ (IsResponse(m) /\ EndsCall(m))
  <2>1. SessionStep(m, b, c)
    BY TableStep, CallerAssumption, TargetAssumption DEF TypeOK, Process
  <2>2. hasSession(c)' /\ Partners(c)'
    BY <1>2, <1>5, <2>1, NoSessionAssumption DEF SessionStep, hasSession, Partners
  <2> QED
    BY <1>3, <1>5, <2>2
<1> QED
  BY <1>4, <1>5

\* What the one or two datagrams of a handler add to the mailboxes.
LEMMA MailOfOne ==
  ASSUME TypeOK, run, NEW x \in Process, NEW m, sent' = << To(x, m) >>, NEW a \in Process
  PROVE  mailbox'[a] = IF a = x THEN Append(mailbox[a], m) ELSE mailbox[a]
<1>1. mailbox'[a] = mailbox[a] \o ForProcess(sent', 1, a) \o ForProcess(sent', 2, a) /\ mailbox[a] \in Seq(Message)
  BY DEF run, TypeOK
<1>2. ForProcess(sent', 2, a) = <<>>
  BY DEF ForProcess
<1>3. ForProcess(sent', 1, a) = IF a = x THEN << m >> ELSE <<>>
  BY DEF ForProcess, To
<1>4. sent' \in Seq(Outgoing)
  BY RunStep DEF SendStep
<1>5. To(x, m) \in Outgoing
  BY <1>4
<1>6. m \in Message
  BY <1>5 DEF To, Outgoing
<1> DEFINE s == mailbox[a]
<1>7. s \in Seq(Message) /\ s \o <<>> = s /\ s \o << m >> = Append(s, m) /\ Append(s, m) \o <<>> = Append(s, m)
  BY <1>1, <1>6
<1> HIDE DEF s
<1>8. mailbox'[a] = s \o ForProcess(sent', 1, a) \o ForProcess(sent', 2, a)
  BY <1>1 DEF s
<1>9. CASE a = x
  BY <1>2, <1>3, <1>7, <1>8, <1>9, Zenon DEF s
<1>10. CASE a # x
  BY <1>2, <1>3, <1>7, <1>8, <1>10, Zenon DEF s
<1> QED
  BY <1>9, <1>10

LEMMA MailOfTwo ==
  ASSUME TypeOK, run, NEW m, NEW n, sent' = << To(Caller, m), To(Target, n) >>
  PROVE  mailbox'[Caller] = Append(mailbox[Caller], m) /\ mailbox'[Target] = Append(mailbox[Target], n)
<1>1. \A a \in Process :
        mailbox'[a] = mailbox[a] \o ForProcess(sent', 1, a) \o ForProcess(sent', 2, a) /\ mailbox[a] \in Seq(Message)
  BY DEF run, TypeOK
<1>2. /\ ForProcess(sent', 1, Caller) = << m >> /\ ForProcess(sent', 2, Caller) = <<>>
      /\ ForProcess(sent', 1, Target) = <<>> /\ ForProcess(sent', 2, Target) = << n >>
  BY PeerIs DEF ForProcess, To
<1>3. sent' \in Seq(Outgoing)
  BY RunStep DEF SendStep
<1>4. To(Caller, m) \in Outgoing /\ To(Target, n) \in Outgoing
  BY <1>3
<1>5. m \in Message /\ n \in Message
  BY <1>4 DEF To, Outgoing
<1> DEFINE s == mailbox[Caller]
           t == mailbox[Target]
<1>6. /\ s \in Seq(Message) /\ s \o << m >> = Append(s, m) /\ Append(s, m) \o <<>> = Append(s, m)
      /\ t \in Seq(Message) /\ t \o <<>> = t /\ t \o << n >> = Append(t, n)
  BY <1>1, <1>5, PeerIs
<1>7. /\ mailbox'[Caller] = s \o ForProcess(sent', 1, Caller) \o ForProcess(sent', 2, Caller)
      /\ mailbox'[Target] = t \o ForProcess(sent', 1, Target) \o ForProcess(sent', 2, Target)
  BY <1>1, PeerIs
<1> HIDE DEF s, t
<1>8. mailbox'[Caller] = s \o << m >> \o <<>> /\ mailbox'[Target] = t \o <<>> \o << n >>
  BY <1>2, <1>7, Zenon
<1>9. mailbox'[Caller] = Append(s, m) /\ mailbox'[Target] = Append(t, n)
  BY <1>6, <1>8, Zenon
<1> QED
  BY <1>9 DEF s, t

\* What a step adds to the mailbox of the process at a: the message of at most one line.
Gains(a, c, L) ==
  \/ L = {} /\ mailbox'[a] = mailbox[a]
  \/ \E i \in L : L = {i} /\ mailbox'[a] = Append(mailbox[a], Due(a, c)[i])

\* A line that the proxy only forwards to the other party.
LEMMA ForwardsLine ==
  ASSUME TypeOK, run, NEW c, Fits(c), NEW h \in Handled, SessionThere(c, h),
         NEW b \in Process, b = Head(inbox).src, NEW m, m = Head(inbox).msg, m.callID = c,
         m.kind = "request" => m.method \in {"ACK", "BYE"},
         NEW j \in Nat, ~ (b = Caller /\ j = 1),
         1 \in h[Caller], LastLine(c) \notin h[Target],
         IsResponse(m) /\ EndsCall(m) <=> b = Target /\ j = LastLine(c),
         NEW i, Brings(b, b, c, j) = {}, Brings(Peer(b), b, c, j) = {i}, Due(Peer(b), c)[i] = m
  PROVE  /\ \A a \in Process : Gains(a, c, Brings(a, b, c, j))
         /\ SessionThere(c, HandledToo(h, b, j))'
<1>1. m \in Message /\ processSipMessage(m, b) /\ c \in CallID /\ Peer(b) \in Process
  BY RunStep, PeerIs DEF Fits
<1>2. hasSession(c) /\ Partners(c)
  BY DEF SessionThere, Partners
<1>3. ~ IsRequest(m, "CANCEL")
  BY DEF IsRequest
<1>4. /\ sent' = << To(Peer(b), m) >>
      /\ IF IsResponse(m) /\ EndsCall(m) THEN ~ hasSession(c)' ELSE hasSession(c)' /\ Partners(c)'
  BY <1>1, <1>2, <1>3, ServesOther
<1>5. ASSUME NEW a \in Process PROVE Gains(a, c, Brings(a, b, c, j))
  <2>1. mailbox'[a] = IF a = Peer(b) THEN Append(mailbox[a], m) ELSE mailbox[a]
    BY <1>1, <1>4, MailOfOne
  <2>2. CASE a = Peer(b)
    BY <2>1, <2>2, PeerIs DEF Gains
  <2>3. CASE a # Peer(b)
    <3>1. a = b
      BY <2>3, PeerIs
    <3> QED
      BY <2>1, <2>3, <3>1 DEF Gains
  <2> QED
    BY <2>2, <2>3
<1> DEFINE g == HandledToo(h, b, j)
<1>6. /\ 1 \in g[Caller]
      /\ LastLine(c) \in g[Target] <=> b = Target /\ j = LastLine(c)
  <2>1. g[b] = h[b] \cup {j} /\ \A d \in Process : d # b => g[d] = h[d]
    BY HandledTooIs
  <2> HIDE DEF g
  <2> QED
    BY <2>1, PeerIs
<1> HIDE DEF g
<1>7. /\ hasSession(c)' <=> 1 \in g[Caller] /\ LastLine(c) \notin g[Target]
      /\ hasSession(c)' => Partners(c)'
  BY <1>4, <1>6
<1>8. SessionThere(c, g)'
  BY <1>7 DEF SessionThere, Partners
<1> QED
  BY <1>5, <1>8 DEF g

\* The INVITE of a call that has no session yet.
LEMMA OpensCall ==
  ASSUME TypeOK, run, NEW c, Fits(c), NEW h \in Handled, SessionThere(c, h),
         Caller = Head(inbox).src, Head(inbox).msg = Req(c, "INVITE"),
         1 \notin h[Caller], LastLine(c) \notin h[Target],
         Brings(Caller, Caller, c, 1) = {2}, Due(Caller, c)[2] = Resp(c, "100", "INVITE"),
         Brings(Target, Caller, c, 1) = {1}, Due(Target, c)[1] = Req(c, "INVITE")
  PROVE  /\ \A a \in Process : Gains(a, c, Brings(a, Caller, c, 1))
         /\ SessionThere(c, HandledToo(h, Caller, 1))'
<1> DEFINE m == Req(c, "INVITE")
<1>1. processSipMessage(m, Caller) /\ c \in CallID
  BY RunStep DEF Fits
<1>2. ~ hasSession(c)
  BY DEF SessionThere
<1>3. /\ sent' = << To(Caller, Resp(c, "100", "INVITE")), To(Target, m) >>
      /\ hasSession(c)' /\ Partners(c)'
  BY <1>1, <1>2, ServesInvite
<1>4. /\ mailbox'[Caller] = Append(mailbox[Caller], Resp(c, "100", "INVITE"))
      /\ mailbox'[Target] = Append(mailbox[Target], m)
  BY <1>3, MailOfTwo
<1>5. Gains(Caller, c, {2}) /\ Gains(Target, c, {1})
  BY <1>4 DEF Gains
<1> DEFINE g == HandledToo(h, Caller, 1)
<1>6. 1 \in g[Caller] /\ LastLine(c) \notin g[Target]
  <2>1. Caller \in Process /\ 1 \in Nat
    BY PeerIs
  <2>2. g[Caller] = h[Caller] \cup {1} /\ \A d \in Process : d # Caller => g[d] = h[d]
    BY <2>1, HandledTooIs
  <2> HIDE DEF g
  <2> QED
    BY <2>2, PeerIs
<1> HIDE DEF g
<1>7. SessionThere(c, g)'
  BY <1>3, <1>6 DEF SessionThere, Partners
<1> QED
  BY <1>5, <1>7, PeerIs DEF g

\* The CANCEL of a call.
LEMMA CancelsCall ==
  ASSUME TypeOK, run, NEW c, Fits(c), NEW h \in Handled, SessionThere(c, h),
         Caller = Head(inbox).src, Head(inbox).msg = Req(c, "CANCEL"), NEW j \in Nat,
         1 \in h[Caller], LastLine(c) \notin h[Target], NEW i, NEW k,
         Brings(Caller, Caller, c, j) = {i}, Due(Caller, c)[i] = Resp(c, "200", "CANCEL"),
         Brings(Target, Caller, c, j) = {k}, Due(Target, c)[k] = Req(c, "CANCEL")
  PROVE  /\ \A a \in Process : Gains(a, c, Brings(a, Caller, c, j))
         /\ SessionThere(c, HandledToo(h, Caller, j))'
<1> DEFINE m == Req(c, "CANCEL")
<1>1. processSipMessage(m, Caller) /\ c \in CallID /\ m \in Message /\ Caller \in Process
  BY RunStep, PeerIs DEF Fits
<1>2. hasSession(c) /\ Partners(c)
  BY DEF SessionThere, Partners
<1>3. /\ m.callID = c /\ m.kind = "request" /\ m.method = "CANCEL" /\ IsRequest(m, "CANCEL") /\ ~ IsResponse(m)
      /\ build_200_OK(m) = Resp(c, "200", "CANCEL") /\ Peer(Caller) = Target
  BY PeerIs DEF Req, IsRequest, IsResponse, build_200_OK
<1> HIDE DEF m
<1>4. /\ sent' = << To(Caller, Resp(c, "200", "CANCEL")), To(Target, m) >>
      /\ hasSession(c)' /\ Partners(c)'
  BY <1>1, <1>2, <1>3, ServesOther
<1>5. /\ mailbox'[Caller] = Append(mailbox[Caller], Resp(c, "200", "CANCEL"))
      /\ mailbox'[Target] = Append(mailbox[Target], m)
  BY <1>4, MailOfTwo
<1>6. Gains(Caller, c, {i}) /\ Gains(Target, c, {k})
  BY <1>5 DEF Gains, m
<1> DEFINE g == HandledToo(h, Caller, j)
<1>7. 1 \in g[Caller] /\ LastLine(c) \notin g[Target]
  <2>1. g[Caller] = h[Caller] \cup {j} /\ \A d \in Process : d # Caller => g[d] = h[d]
    BY <1>1, HandledTooIs
  <2> HIDE DEF g
  <2> QED
    BY <2>1, PeerIs
<1> HIDE DEF g
<1>8. SessionThere(c, g)'
  BY <1>4, <1>7 DEF SessionThere, Partners
<1> QED
  BY <1>6, <1>8, PeerIs DEF g

\* Before the INVITE is handled the callee has said nothing.
LEMMA LastComesLast ==
  ASSUME NEW c, Fits(c), NEW h, Causal(c, h), 1 \notin h[Caller]
  PROVE  LastLine(c) \notin h[Target]
<1>1. CASE Basic(c)
  <2>1. LastLine(c) = 6
    BY <1>1, BasicShape
  <2> QED
    BY <1>1, <2>1, BasicCausality
<1>2. CASE ~ Basic(c)
  <2>1. LastLine(c) = 5
    BY <1>2, CancelShape
  <2> QED
    BY <1>2, <2>1, CancelCausality
<1> QED
  BY <1>1, <1>2

\* A line of a call, handled at its turn, brings what it is to bring.
LEMMA BasicServed ==
  ASSUME TypeOK, run, NEW c, Basic(c), NEW h \in Handled, Causal(c, h), SessionThere(c, h),
         NEW b \in Process, b = Head(inbox).src, NEW j, IsNext(b, c, h, j),
         Head(inbox).msg = Script(b, c)[j].msg
  PROVE  /\ \A a \in Process : Gains(a, c, Brings(a, b, c, j))
         /\ SessionThere(c, HandledToo(h, b, j))'
<1>0. Fits(c)
  BY DEF Fits, Basic
<1>1. j \in Says(b, c) /\ LastLine(c) = 6
  BY BasicShape DEF IsNext, Sent
<1>2. CASE b = Caller /\ j = 1
  <2>1. 1 \notin h[Caller] /\ 6 \notin h[Target]
    BY <1>0, <1>1, <1>2, NeedsSession, LastComesLast
  <2> QED
    BY <1>0, <1>1, <1>2, <2>1, OpensCall, BasicTraffic, BasicBrings
<1>3. CASE ~ (b = Caller /\ j = 1)
  <2>1. 1 \in h[Caller] /\ LastLine(c) \notin h[Target]
    BY <1>0, <1>3, NeedsSession
  <2> DEFINE m == Script(b, c)[j].msg
  <2>2. ASSUME NEW i, m.callID = c, m.kind = "request" => m.method \in {"ACK", "BYE"},
               IsResponse(m) /\ EndsCall(m) <=> b = Target /\ j = 6, j \in Nat,
               Brings(b, b, c, j) = {}, Brings(Peer(b), b, c, j) = {i}, Due(Peer(b), c)[i] = m
        PROVE  /\ \A a \in Process : Gains(a, c, Brings(a, b, c, j))
               /\ SessionThere(c, HandledToo(h, b, j))'
    <3> HIDE DEF m
    <3>1. m = Head(inbox).msg
      BY DEF m
    <3>2. IsResponse(m) /\ EndsCall(m) <=> b = Target /\ j = LastLine(c)
      BY <1>1, <2>2
    <3> QED
      BY <1>0, <1>3, <2>1, <2>2, <3>1, <3>2, ForwardsLine
  <2>3. CASE b = Caller
    <3>1. j \in {5, 6}
      BY <1>1, <1>3, <2>3, BasicShape
    <3>2. m = Req(c, IF j = 5 THEN "ACK" ELSE "BYE")
      BY <2>3, <3>1, BasicTraffic
    <3>3. m.callID = c /\ m.kind = "request" /\ m.method \in {"ACK", "BYE"} /\ ~ IsResponse(m)
      BY <3>1, <3>2 DEF Req, IsResponse
    <3>4. CASE j = 5
      BY <2>2, <2>3, <3>3, <3>4, BasicBrings, BasicTraffic, PeerIs
    <3>5. CASE j = 6
      BY <2>2, <2>3, <3>3, <3>5, BasicBrings, BasicTraffic, PeerIs
    <3> QED
      BY <3>1, <3>4, <3>5
  <2>4. CASE b = Target
    <3>1. j \in {2, 3, 6}
      BY <1>1, <2>4, BasicShape
    <3>2. CASE j = 2
      <4>1. m = Resp(c, "180", "INVITE")
        BY <2>4, <3>2, BasicTraffic
      <4>2. m.callID = c /\ m.kind = "response" /\ ~ EndsCall(m)
        BY <4>1 DEF Resp, EndsCall
      <4> QED
        BY <2>2, <2>4, <3>2, <4>2, BasicBrings, BasicTraffic, PeerIs
    <3>3. CASE j = 3
      <4>1. m = Resp(c, "200", "INVITE")
        BY <2>4, <3>3, BasicTraffic
      <4>2. m.callID = c /\ m.kind = "response" /\ ~ EndsCall(m)
        BY <4>1 DEF Resp, EndsCall
      <4> QED
        BY <2>2, <2>4, <3>3, <4>2, BasicBrings, BasicTraffic, PeerIs
    <3>4. CASE j = 6
      <4>1. m = Resp(c, "200", "BYE")
        BY <2>4, <3>4, BasicTraffic
      <4>2. m.callID = c /\ m.kind = "response" /\ IsResponse(m) /\ EndsCall(m)
        BY <4>1 DEF Resp, EndsCall, IsResponse
      <4>3. Brings(b, b, c, j) = {} /\ Brings(Peer(b), b, c, j) = {7} /\ Due(Peer(b), c)[7] = m
        BY <2>4, <3>4, BasicBrings, BasicTraffic, PeerIs
      <4> QED
        BY <2>2, <2>4, <3>4, <4>2, <4>3
    <3> QED
      BY <3>1, <3>2, <3>3, <3>4
  <2> QED
    BY <2>3, <2>4, PeerIs
<1> QED
  BY <1>2, <1>3

LEMMA CancelServed ==
  ASSUME TypeOK, run, NEW c, Fits(c), ~ Basic(c), NEW h \in Handled, Causal(c, h), SessionThere(c, h),
         NEW b \in Process, b = Head(inbox).src, NEW j, IsNext(b, c, h, j),
         Head(inbox).msg = Script(b, c)[j].msg
  PROVE  /\ \A a \in Process : Gains(a, c, Brings(a, b, c, j))
         /\ SessionThere(c, HandledToo(h, b, j))'
<1>1. j \in Says(b, c) /\ LastLine(c) = 5
  BY CancelShape DEF IsNext, Sent
<1>2. CASE b = Caller /\ j = 1
  <2>1. 1 \notin h[Caller] /\ 5 \notin h[Target]
    BY <1>1, <1>2, NeedsSession, LastComesLast
  <2> QED
    BY <1>1, <1>2, <2>1, OpensCall, CancelTraffic, CancelBrings
<1>3. CASE ~ (b = Caller /\ j = 1)
  <2>1. 1 \in h[Caller] /\ LastLine(c) \notin h[Target]
    BY <1>3, NeedsSession
  <2> DEFINE m == Script(b, c)[j].msg
  <2>2. CASE b = Caller
    <3>1. j = 4
      BY <1>1, <1>3, <2>2, CancelShape
    <3> QED
      BY <2>1, <2>2, <3>1, CancelsCall, CancelTraffic, CancelBrings
  <2>3. CASE b = Target
    <3>1. j \in {2, 4, 5}
      BY <1>1, <2>3, CancelShape
    <3>2. ASSUME NEW i, m.callID = c, m.kind = "response",
                 IsResponse(m) /\ EndsCall(m) <=> j = 5, j \in Nat,
                 Brings(b, b, c, j) = {}, Brings(Peer(b), b, c, j) = {i}, Due(Peer(b), c)[i] = m
          PROVE  /\ \A a \in Process : Gains(a, c, Brings(a, b, c, j))
                 /\ SessionThere(c, HandledToo(h, b, j))'
      <4> HIDE DEF m
      <4>1. m = Head(inbox).msg
        BY DEF m
      <4>2. IsResponse(m) /\ EndsCall(m) <=> b = Target /\ j = LastLine(c)
        BY <1>1, <2>3, <3>2
      <4> QED
        BY <1>3, <2>1, <3>2, <4>1, <4>2, ForwardsLine
    <3>3. CASE j = 2
      <4>1. m = Resp(c, "180", "INVITE")
        BY <2>3, <3>3, CancelTraffic
      <4>2. m.callID = c /\ m.kind = "response" /\ ~ EndsCall(m)
        BY <4>1 DEF Resp, EndsCall
      <4> QED
        BY <2>3, <3>2, <3>3, <4>2, CancelBrings, CancelTraffic, PeerIs
    <3>4. CASE j = 4
      <4>1. m = Resp(c, "200", "CANCEL")
        BY <2>3, <3>4, CancelTraffic
      <4>2. m.callID = c /\ m.kind = "response" /\ ~ EndsCall(m)
        BY <4>1 DEF Resp, EndsCall
      <4> QED
        BY <2>3, <3>2, <3>4, <4>2, CancelBrings, CancelTraffic, PeerIs
    <3>5. CASE j = 5
      <4>1. m = Resp(c, "487", "INVITE")
        BY <2>3, <3>5, CancelTraffic
      <4>2. m.callID = c /\ m.kind = "response" /\ IsResponse(m) /\ EndsCall(m)
        BY <4>1 DEF Resp, EndsCall, IsResponse
      <4> QED
        <5>1. Brings(b, b, c, j) = {} /\ Brings(Peer(b), b, c, j) = {7} /\ Due(Peer(b), c)[7] = m
          BY <2>3, <3>5, CancelBrings, CancelTraffic, PeerIs
        <5> QED
          BY <3>2, <3>5, <4>2, <5>1
    <3> QED
      BY <3>1, <3>3, <3>4, <3>5
  <2> QED
    BY <2>2, <2>3, PeerIs
<1> QED
  BY <1>2, <1>3

-------------------------------------------------------------------------------
(* Lines and their messages. *)

LEMMA LinesAreNumbers ==
  ASSUME NEW c \in CallID, NEW a \in Process
  PROVE  /\ Says(a, c) \subseteq 1 .. Len(Script(a, c)) /\ Awaits(a, c) \subseteq 1 .. Len(Script(a, c))
         /\ Len(Script(a, c)) \in Nat
         /\ Says(a, c) \subseteq Nat \ {0} /\ Awaits(a, c) \subseteq Nat \ {0}
         /\ \A i \in 1 .. Len(Script(a, c)) : i \in Says(a, c) <=> i \notin Awaits(a, c)
<1>1. Script(a, c) \in Seq(ScriptLine(c))
  BY ScriptIsTyped
<1>2. DOMAIN Script(a, c) = 1 .. Len(Script(a, c)) /\ Len(Script(a, c)) \in Nat
  BY <1>1, LenProperties
<1> QED
  BY <1>2 DEF Says, Awaits

LEMMA DatagramsAre ==
  ASSUME NEW c \in CallID, NEW a \in Process, NEW i \in Says(a, c)
  PROVE  /\ Datagrams(a, c)[i] = [src |-> a, msg |-> Script(a, c)[i].msg]
         /\ Datagrams(a, c)[i] \in FromIn(a, c)
<1>1. Script(a, c)[i] \in ScriptLine(c) /\ Script(a, c)[i].op = "send"
  <2>1. Script(a, c) \in Seq(ScriptLine(c)) /\ i \in 1 .. Len(Script(a, c))
    BY ScriptIsTyped, LinesAreNumbers
  <2> QED
    BY <2>1, ElementOfSeq DEF Says
<1>2. Script(a, c)[i].msg \in Message /\ Script(a, c)[i].msg.callID = c
  BY <1>1 DEF ScriptLine
<1>3. Datagrams(a, c)[i] = [src |-> a, msg |-> Script(a, c)[i].msg]
  BY DEF Datagrams
<1> QED
  BY <1>2, <1>3 DEF FromIn, Arrival

\* What is due at a line is of the call, and the line provides for it.
LEMMA DueIs ==
  ASSUME NEW c, Fits(c), NEW a \in Process, NEW i \in Awaits(a, c)
  PROVE  Due(a, c)[i] \in OfCall(c) /\ Matches(Due(a, c)[i], Script(a, c)[i].what)
<1>1. /\ "INVITE" \in Method /\ "ACK" \in Method /\ "BYE" \in Method /\ "CANCEL" \in Method
      /\ "100" \in Code /\ "180" \in Code /\ "200" \in Code /\ "487" \in Code /\ c \in CallID
  BY DEF Method, Code, Fits
<1>2. \A method \in Method : Req(c, method) \in OfCall(c) /\ Matches(Req(c, method), method)
  BY <1>1, ReqIsMessage, TellsApart DEF OfCall, Matches
<1>3. ASSUME NEW code \in Code, NEW cs \in Method
      PROVE  Resp(c, code, cs) \in OfCall(c) /\ Matches(Resp(c, code, cs), code)
  <2>1. Resp(c, code, cs) \in OfCall(c)
    BY <1>1, RespIsMessage DEF OfCall
  <2>2. IsResponse(Resp(c, code, cs)) /\ Resp(c, code, cs).line = {code}
    BY DEF Resp, IsResponse
  <2> QED
    BY <2>1, <2>2 DEF Matches
<1>4. CASE Basic(c)
  <2>1. Script(Caller, c) = uac(c) /\ Script(Target, c) = uas(c)
    BY <1>4, BasicScripts
  <2>2. /\ Script(Caller, c)[2].what = "100" /\ Script(Caller, c)[3].what = "180"
        /\ Script(Caller, c)[4].what = "200" /\ Script(Caller, c)[7].what = "200"
        /\ Script(Target, c)[1].what = "INVITE" /\ Script(Target, c)[4].what = "ACK"
        /\ Script(Target, c)[5].what = "BYE"
    BY <2>1, OpsAre
  <2>3. CASE a = Caller
    <3>1. i \in {2, 3, 4, 7}
      BY <1>4, <2>3, BasicShape
    <3> QED
      BY <1>1, <1>3, <1>4, <2>2, <2>3, <3>1, BasicTraffic
  <2>4. CASE a = Target
    <3>1. i \in {1, 4, 5}
      BY <1>4, <2>4, BasicShape
    <3> QED
      BY <1>1, <1>2, <1>4, <2>2, <2>4, <3>1, BasicTraffic
  <2> QED
    BY <2>3, <2>4, PeerIs
<1>5. CASE ~ Basic(c)
  <2>1. Script(Caller, c) = uac_cancel_patient(c) /\ Script(Target, c) = uas_delay(c)
    BY <1>5, CancelScripts
  <2>2. /\ Script(Caller, c)[2].what = "100" /\ Script(Caller, c)[3].what = "180"
        /\ Script(Caller, c)[5].what = "200" /\ Script(Caller, c)[6].what = "200"
        /\ Script(Caller, c)[7].what = "487"
        /\ Script(Target, c)[1].what = "INVITE" /\ Script(Target, c)[3].what = "CANCEL"
    BY <2>1, CancelLines, LineKinds
  <2>3. CASE a = Caller
    <3>1. i \in {2, 3, 5, 6, 7}
      BY <1>5, <2>3, CancelShape
    <3> QED
      BY <1>1, <1>3, <1>5, <2>2, <2>3, <3>1, CancelTraffic
  <2>4. CASE a = Target
    <3>1. i \in {1, 3}
      BY <1>5, <2>4, CancelShape
    <3> QED
      BY <1>1, <1>2, <1>5, <2>2, <2>4, <3>1, CancelTraffic
  <2> QED
    BY <2>3, <2>4, PeerIs
<1> QED
  BY <1>4, <1>5

LEMMA CarriesConcat ==
  ASSUME NEW S, NEW s \in Seq(S), NEW t, NEW K, NEW L, NEW due, Carries(s, K, L, due),
         \/ t = <<>>
         \/ \E e \in S : t = << e >> /\ e \notin K
  PROVE  s \o t \in Seq(S) /\ Carries(s \o t, K, L, due)
<1>1. CASE t = <<>>
  <2>1. s \o t = s
    BY <1>1
  <2> QED
    BY <2>1
<1>2. ASSUME NEW e \in S, t = << e >>, e \notin K PROVE s \o t \in Seq(S) /\ Carries(s \o t, K, L, due)
  <2>1. s \o t = Append(s, e) /\ Append(s, e) \in Seq(S)
    BY <1>2
  <2> QED
    BY <1>2, <2>1, CarriesBeside
<1> QED
  BY <1>1, <1>2

-------------------------------------------------------------------------------
(* The proxy handles a datagram. *)

\* What has been handled so far, and next, keeps its order.
LEMMA CausalAfterRun ==
  ASSUME NEW c, Fits(c), run, NEW h \in Handled, Causal(c, h), NEW b \in Process, NEW j \in Nat, IsNext(b, c, h, j)
  PROVE  /\ Causal(c, HandledToo(h, b, j))'
         /\ \A a \in Process : \A i \in Brings(a, b, c, j) :
              i \notin Arrived(a, c, h) /\ \A k \in Arrived(a, c, h) : k < i
<1> DEFINE g == HandledToo(h, b, j)
<1>1. /\ \A a \in Process : Arrived(a, c, g) = Arrived(a, c, h) \cup Brings(a, b, c, j)
      /\ g[b] = h[b] \cup {j} /\ \A d \in Process : d # b => g[d] = h[d]
  BY ArrivedAfter, HandledTooIs
<1> HIDE DEF g
<1>2. pos' = pos /\ c \in CallID
  BY DEF run, Fits
<1>3. \A a \in Process : Sent(a, c)' = Sent(a, c) /\ Read(a, c)' = Read(a, c) /\ Arrived(a, c, g)' = Arrived(a, c, g)
  BY <1>2 DEF Sent, Read, Arrived
<1>4. j \in Sent(b, c) /\ \A k \in Says(b, c) : k < j => k \in h[b]
  <2>1. j \in Sent(b, c) \ h[b] /\ \A i \in Sent(b, c) \ h[b] : j <= i
    BY DEF IsNext
  <2>2. j \in Nat /\ j < pos[b][c] /\ pos[b][c] \in 1 .. Len(Script(b, c)) + 1 /\ Len(Script(b, c)) \in Nat
    BY <1>2, <2>1, LinesAreNumbers DEF Sent, Causal
  <2>3. ASSUME NEW k \in Says(b, c), k < j, k \notin h[b] PROVE FALSE
    <3>1. k \in Nat
      BY <1>2, LinesAreNumbers
    <3>2. k < pos[b][c]
      BY <2>2, <2>3, <3>1
    <3>3. j <= k
      BY <2>1, <2>3, <3>2 DEF Sent
    <3> QED
      BY <2>2, <2>3, <3>1, <3>3
  <2> QED
    BY <2>1, <2>3
<1>5. Causal(c, g)'
  <2>1. ASSUME NEW a \in Process
        PROVE  /\ pos[a][c] \in 1 .. Len(Script(a, c)) + 1
               /\ g[a] \subseteq Sent(a, c)
               /\ \A i \in g[a], k \in Says(a, c) : k < i => k \in g[a]
               /\ Read(a, c) \subseteq Arrived(a, c, g)
    BY <1>1, <1>4 DEF Causal
  <2> QED
    BY <1>2, <1>3, <2>1 DEF Causal
<1>6. ASSUME NEW a \in Process, NEW i \in Brings(a, b, c, j)
      PROVE  i \notin Arrived(a, c, h) /\ \A k \in Arrived(a, c, h) : k < i
  <2>1. i \in Awaits(a, c) /\ i \notin Arrived(a, c, h)
    BY DEF Brings, Arrived, IsNext
  <2>2. ASSUME NEW k \in Arrived(a, c, h) PROVE k < i
    <3>1. k \in Nat /\ i \in Nat
      BY <1>2, <2>1, LinesAreNumbers DEF Arrived
    <3>2. ~ (i < k)
      BY <2>1, <2>2, InOrder
    <3> QED
      BY <2>1, <2>2, <3>1, <3>2
  <2> QED
    BY <2>1, <2>2
<1> QED
  BY <1>5, <1>6 DEF g

\* What the proxy takes from its queue of a call is the call's next line of its sender.
LEMMA HeadIsNext ==
  ASSUME TypeOK, run, NEW c, Fits(c), NEW h, Flow(c, h), Head(inbox).msg.callID = c
  PROVE  \E b \in Process : \E j \in Nat :
           /\ IsNext(b, c, h, j)
           /\ Head(inbox) = [src |-> b, msg |-> Script(b, c)[j].msg]
           /\ Carries(Tail(inbox), FromIn(b, c), (Sent(b, c) \ h[b]) \ {j}, Datagrams(b, c))
<1>1. c \in CallID /\ inbox \in Seq(Arrival) /\ inbox # <<>>
  BY RunStep DEF TypeOK, Arrival, run, Fits
<1>2. PICK b \in Process : b = Head(inbox).src
  BY RunStep
<1> DEFINE L == Sent(b, c) \ h[b]
<1>3. /\ L \in SUBSET Nat /\ L \subseteq Says(b, c)
      /\ Carries(inbox, FromIn(b, c), L, Datagrams(b, c))
  BY <1>1, LinesAreNumbers DEF Sent, Flow, Queues
<1>4. Head(inbox) \in FromIn(b, c)
  BY <1>1, <1>2, HeadTailProperties DEF FromIn
<1>5. PICK j \in L : /\ \A i \in L : j <= i
                     /\ Head(inbox) = Datagrams(b, c)[j]
                     /\ Carries(Tail(inbox), FromIn(b, c), L \ {j}, Datagrams(b, c))
  <2> HIDE DEF L
  <2> QED
    BY <1>1, <1>3, <1>4, CarriesHead
<1>6. j \in Nat /\ IsNext(b, c, h, j)
  BY <1>3, <1>5 DEF IsNext
<1>7. Datagrams(b, c)[j] = [src |-> b, msg |-> Script(b, c)[j].msg]
  BY <1>1, <1>3, <1>5, DatagramsAre
<1> QED
  BY <1>5, <1>6, <1>7

LEMMA RunOfCall ==
  ASSUME TypeOK, run, NEW c, Fits(c), NEW h, Flow(c, h),
         NEW b \in Process, NEW j \in Nat, IsNext(b, c, h, j),
         Head(inbox) = [src |-> b, msg |-> Script(b, c)[j].msg],
         Carries(Tail(inbox), FromIn(b, c), (Sent(b, c) \ h[b]) \ {j}, Datagrams(b, c))
  PROVE  \E g \in Handled : Flow(c, g)'
<1>1. /\ h \in Handled /\ Causal(c, h) /\ SessionThere(c, h) /\ Queues(c, h) /\ c \in CallID
  BY DEF Flow, Fits
<1>2. /\ inbox \in Seq(Arrival) /\ inbox # <<>> /\ inbox' = Tail(inbox) /\ pos' = pos
      /\ Head(inbox).src = b /\ Head(inbox).msg = Script(b, c)[j].msg
  BY RunStep DEF TypeOK, Arrival, run
<1>3. j \in Sent(b, c)
  BY DEF IsNext
<1>4. \A a \in Process : Sent(a, c) \subseteq Nat /\ Sent(a, c) \subseteq Says(a, c)
  BY <1>1, LinesAreNumbers DEF Sent
<1>5. \A a \in Process :
        /\ Carries(inbox, FromIn(a, c), Sent(a, c) \ h[a], Datagrams(a, c))
        /\ Carries(mailbox[a], OfCall(c), Arrived(a, c, h) \ Read(a, c), Due(a, c))
  BY <1>1 DEF Queues
<1> DEFINE g == HandledToo(h, b, j)
<1>9. /\ \A a \in Process : Gains(a, c, Brings(a, b, c, j))
      /\ SessionThere(c, g)'
  <2>1. CASE Basic(c)
    BY <1>1, <1>2, <2>1, BasicServed
  <2>2. CASE ~ Basic(c)
    BY <1>1, <1>2, <2>2, CancelServed
  <2> QED
    BY <2>1, <2>2
<1>10. /\ Causal(c, g)'
       /\ \A a \in Process : \A i \in Brings(a, b, c, j) :
            i \notin Arrived(a, c, h) /\ \A k \in Arrived(a, c, h) : k < i
  BY <1>1, CausalAfterRun
<1>11. /\ \A a \in Process : Arrived(a, c, g) = Arrived(a, c, h) \cup Brings(a, b, c, j)
       /\ g \in Handled /\ g[b] = h[b] \cup {j} /\ \A d \in Process : d # b => g[d] = h[d]
  BY <1>1, ArrivedAfter, HandledTooIs
<1> HIDE DEF g
<1>12. \A a \in Process : Sent(a, c)' = Sent(a, c) /\ Read(a, c)' = Read(a, c) /\ Arrived(a, c, g)' = Arrived(a, c, g)
  BY <1>2 DEF Sent, Read, Arrived
<1>13. ASSUME NEW a \in Process PROVE Carries(inbox', FromIn(a, c), Sent(a, c) \ g[a], Datagrams(a, c))
  <2>1. CASE a = b
    <3>1. Sent(b, c) \ g[b] = (Sent(b, c) \ h[b]) \ {j}
      BY <1>11
    <3> QED
      BY <1>2, <2>1, <3>1
  <2>2. CASE a # b
    <3>1. Head(inbox) \notin FromIn(a, c)
      BY <1>2, <2>2 DEF FromIn
    <3>2. \A i \in Sent(a, c) \ h[a] : Datagrams(a, c)[i] \in FromIn(a, c)
      BY <1>1, <1>4, DatagramsAre
    <3>3. Sent(a, c) \ h[a] \in SUBSET Nat /\ g[a] = h[a]
      BY <1>4, <1>11, <2>2
    <3> QED
      BY <1>2, <1>5, <3>1, <3>2, <3>3, CarriesTail
  <2> QED
    BY <2>1, <2>2
<1>14. ASSUME NEW a \in Process
       PROVE  Carries(mailbox'[a], OfCall(c), Arrived(a, c, g) \ Read(a, c), Due(a, c))
  <2>1. CASE Brings(a, b, c, j) = {} /\ mailbox'[a] = mailbox[a]
    BY <1>5, <1>11, <2>1
  <2>2. ASSUME NEW i \in Brings(a, b, c, j), Brings(a, b, c, j) = {i}, mailbox'[a] = Append(mailbox[a], Due(a, c)[i])
        PROVE  Carries(mailbox'[a], OfCall(c), Arrived(a, c, g) \ Read(a, c), Due(a, c))
    <3> DEFINE L == Arrived(a, c, h) \ Read(a, c)
    <3>1. i \notin Arrived(a, c, h) /\ \A k \in L : k < i
      BY <1>10
    <3>2. Read(a, c) \subseteq Arrived(a, c, h)
      BY <1>1 DEF Causal
    <3>3. Arrived(a, c, g) \ Read(a, c) = L \cup {i}
      BY <1>11, <2>2, <3>1, <3>2
    <3>4. i \in Awaits(a, c) /\ i \in Nat /\ L \in SUBSET Nat
      BY <1>1, LinesAreNumbers DEF Brings, Arrived
    <3>5. Due(a, c)[i] \in Message /\ mailbox[a] \in Seq(Message)
      BY <3>4, DueIs DEF OfCall, TypeOK
    <3> DEFINE e == Due(a, c)[i]
    <3>6. Carries(mailbox[a], OfCall(c), L, Due(a, c)) /\ e \in Message /\ e = Due(a, c)[i]
      BY <1>5, <3>5
    <3> HIDE DEF L, e
    <3>7. Carries(Append(mailbox[a], e), OfCall(c), L \cup {i}, Due(a, c))
      BY <3>1, <3>4, <3>5, <3>6, CarriesMore
    <3> QED
      BY <2>2, <3>3, <3>6, <3>7
  <2> QED
    BY <1>9, <2>1, <2>2 DEF Gains
<1>15. Queues(c, g)'
  BY <1>12, <1>13, <1>14 DEF Queues
<1> QED
  BY <1>9, <1>10, <1>11, <1>15 DEF Flow

LEMMA RunOfOther ==
  ASSUME TypeOK, run, NEW c, Fits(c), NEW h, Flow(c, h), Head(inbox).msg.callID # c
  PROVE  Flow(c, h)'
<1> DEFINE m == Head(inbox).msg
           b == Head(inbox).src
<1>1. /\ h \in Handled /\ Causal(c, h) /\ SessionThere(c, h) /\ Queues(c, h) /\ c \in CallID
  BY DEF Flow, Fits
<1>2. /\ inbox \in Seq(Arrival) /\ inbox # <<>> /\ inbox' = Tail(inbox) /\ Head(inbox) \in Arrival /\ pos' = pos
      /\ m \in Message /\ b \in Addr /\ processSipMessage(m, b) /\ SendStep(m, b) /\ sent' \in Seq(Outgoing)
      /\ ServerTypeOK
  BY RunStep, HeadTailProperties DEF TypeOK, Arrival, run, SendStep
<1>3. \A a \in Process : Sent(a, c)' = Sent(a, c) /\ Read(a, c)' = Read(a, c) /\ Arrived(a, c, h)' = Arrived(a, c, h)
  BY <1>2 DEF Sent, Read, Arrived
<1>4. Causal(c, h)'
  BY <1>1, <1>2, <1>3 DEF Causal
<1>5. m_sessions'[c] = m_sessions[c]
  BY <1>1, <1>2, TableStep DEF SessionStep
<1>6. SessionThere(c, h)'
  BY <1>1, <1>5 DEF SessionThere, hasSession
<1>7. ASSUME NEW a \in Process PROVE Carries(inbox', FromIn(a, c), Sent(a, c) \ h[a], Datagrams(a, c))
  <2>1. Head(inbox) \notin FromIn(a, c)
    BY DEF FromIn
  <2>2. \A i \in Sent(a, c) \ h[a] : Datagrams(a, c)[i] \in FromIn(a, c)
    BY <1>1, DatagramsAre DEF Sent
  <2>3. Sent(a, c) \ h[a] \in SUBSET Nat
    BY <1>1, LinesAreNumbers DEF Sent
  <2>4. Carries(inbox, FromIn(a, c), Sent(a, c) \ h[a], Datagrams(a, c))
    BY <1>1 DEF Queues
  <2> QED
    BY <1>2, <2>1, <2>2, <2>3, <2>4, CarriesTail
<1>8. \A i \in DOMAIN sent' : sent'[i].msg.callID # c
  BY <1>2, AnswersAreTyped DEF SendStep, To, IsRequest
<1>9. ASSUME NEW a \in Process, NEW i \in {1, 2}
      PROVE  LET t == ForProcess(sent', i, a)
             IN  \/ t = <<>>
                 \/ \E e \in Message : t = << e >> /\ e \notin OfCall(c)
  <2>1. CASE ForProcess(sent', i, a) = <<>>
    BY <2>1
  <2>2. CASE i \in DOMAIN sent' /\ ForProcess(sent', i, a) = << sent'[i].msg >>
    <3>1. sent'[i] \in Outgoing
      BY <1>2, <2>2, LenProperties, ElementOfSeq
    <3>2. sent'[i].msg \in Message /\ sent'[i].msg \notin OfCall(c)
      BY <1>8, <2>2, <3>1 DEF Outgoing, OfCall
    <3> QED
      BY <2>2, <3>2
  <2> QED
    BY <1>2, <2>1, <2>2, ForProcessIs
<1>10. ASSUME NEW a \in Process
       PROVE  Carries(mailbox'[a], OfCall(c), Arrived(a, c, h) \ Read(a, c), Due(a, c))
  <2> DEFINE s == mailbox[a]
             one == ForProcess(sent', 1, a)
             two == ForProcess(sent', 2, a)
             L == Arrived(a, c, h) \ Read(a, c)
  <2>1. /\ mailbox'[a] = s \o one \o two /\ s \in Seq(Message)
        /\ Carries(s, OfCall(c), L, Due(a, c))
    BY <1>1 DEF run, TypeOK, Queues
  <2>2. /\ one = <<>> \/ \E e \in Message : one = << e >> /\ e \notin OfCall(c)
        /\ two = <<>> \/ \E e \in Message : two = << e >> /\ e \notin OfCall(c)
    BY <1>9
  <2> HIDE DEF s, one, two, L
  <2>3. s \o one \in Seq(Message) /\ Carries(s \o one, OfCall(c), L, Due(a, c))
    BY <2>1, <2>2, CarriesConcat
  <2> DEFINE u == s \o one
  <2>4. u \in Seq(Message) /\ Carries(u, OfCall(c), L, Due(a, c)) /\ mailbox'[a] = u \o two
    BY <2>1, <2>3
  <2> HIDE DEF u
  <2>5. Carries(u \o two, OfCall(c), L, Due(a, c))
    BY <2>2, <2>4, CarriesConcat
  <2> QED
    BY <2>4, <2>5 DEF L
<1>11. Queues(c, h)'
  BY <1>3, <1>7, <1>10 DEF Queues
<1> QED
  BY <1>1, <1>4, <1>6, <1>11 DEF Flow

-------------------------------------------------------------------------------
(* What leaves a call as it is. *)

LEMMA SameLines ==
  ASSUME NEW c, NEW h, \A b \in Process : pos'[b][c] = pos[b][c]
  PROVE  /\ \A b \in Process : Sent(b, c)' = Sent(b, c) /\ Read(b, c)' = Read(b, c) /\ Arrived(b, c, h)' = Arrived(b, c, h)
         /\ Causal(c, h) => Causal(c, h)'
<1>1. ASSUME NEW b \in Process PROVE Sent(b, c)' = Sent(b, c) /\ Read(b, c)' = Read(b, c) /\ Arrived(b, c, h)' = Arrived(b, c, h)
  BY DEF Sent, Read, Arrived
<1>2. Causal(c, h) => Causal(c, h)'
  BY <1>1 DEF Causal
<1> QED
  BY <1>1, <1>2

LEMMA SameSession ==
  ASSUME NEW c, NEW h, m_sessions' = m_sessions, SessionThere(c, h)
  PROVE  SessionThere(c, h)'
BY DEF SessionThere, hasSession

-------------------------------------------------------------------------------
(* A process sends. *)

LEMMA ScriptSendIs ==
  ASSUME TypeOK, NEW a \in Process, NEW d \in CallID, ScriptSend(a, d), NEW x, x = [src |-> a, msg |-> Line(a, d).msg]
  PROVE  /\ x \in Arrival /\ x.src = a /\ x.msg.callID = d /\ inbox \in Seq(Arrival)
         /\ inbox' = Append(inbox, x) /\ mailbox' = mailbox /\ m_sessions' = m_sessions
         /\ Sending(a, d) /\ pos'[a][d] = pos[a][d] + 1
         /\ \A b \in Process, c \in CallID : <<b, c>> # <<a, d>> => pos'[b][c] = pos[b][c]
<1>1. Line(a, d).msg \in Message /\ Line(a, d).msg.callID = d /\ Sending(a, d)
  <2>1. Sending(a, d)
    BY DEF ScriptSend
  <2> QED
    BY <2>1, LineIsTyped, Zenon
<1>2. inbox \in Seq(Arrival) /\ x \in Arrival /\ inbox' = Append(inbox, x)
  BY <1>1 DEF TypeOK, Arrival, ScriptSend
<1>3. pos' = [pos EXCEPT ![a][d] = pos[a][d] + 1] /\ pos \in [Process -> [CallID -> Nat]]
  BY DEF ScriptSend, TypeOK
<1>4. /\ pos'[a][d] = pos[a][d] + 1
      /\ \A b \in Process, c \in CallID : <<b, c>> # <<a, d>> => pos'[b][c] = pos[b][c]
  BY <1>3
<1> QED
  BY <1>1, <1>2, <1>4 DEF ScriptSend

LEMMA SendInOther ==
  ASSUME TypeOK, NEW c, Fits(c), NEW h, Flow(c, h), NEW a \in Process, NEW d \in CallID, d # c, ScriptSend(a, d)
  PROVE  Flow(c, h)'
<1> DEFINE y == [src |-> a, msg |-> Line(a, d).msg]
<1>1. PICK x : x = y
  OBVIOUS
<1>2. /\ h \in Handled /\ Causal(c, h) /\ SessionThere(c, h) /\ Queues(c, h) /\ c \in CallID
  BY DEF Flow, Fits
<1>3. /\ x \in Arrival /\ x.msg.callID = d /\ inbox \in Seq(Arrival)
      /\ inbox' = Append(inbox, x) /\ mailbox' = mailbox /\ m_sessions' = m_sessions
      /\ \A b \in Process : pos'[b][c] = pos[b][c]
  BY <1>1, <1>2, ScriptSendIs
<1>4. \A b \in Process : x \notin FromIn(b, c)
  BY <1>3 DEF FromIn
<1>5. \A b \in Process : Carries(inbox', FromIn(b, c), Sent(b, c) \ h[b], Datagrams(b, c))
  BY <1>2, <1>3, <1>4, CarriesBeside DEF Queues
<1>6. Causal(c, h)' /\ SessionThere(c, h)'
  BY <1>2, <1>3, SameLines, SameSession
<1>7. Queues(c, h)'
  BY <1>2, <1>3, <1>5, SameLines DEF Queues
<1> QED
  BY <1>2, <1>6, <1>7 DEF Flow

LEMMA SendInCall ==
  ASSUME TypeOK, NEW c, Fits(c), NEW h, Flow(c, h), NEW a \in Process, ScriptSend(a, c)
  PROVE  Flow(c, h)'
<1> DEFINE y == [src |-> a, msg |-> Line(a, c).msg]
<1>1. PICK x, p : x = y /\ p = pos[a][c]
  OBVIOUS
<1>2. /\ h \in Handled /\ Causal(c, h) /\ SessionThere(c, h) /\ Queues(c, h) /\ c \in CallID
  BY DEF Flow, Fits
<1>3. /\ x \in Arrival /\ x.src = a /\ inbox \in Seq(Arrival) /\ Sending(a, c)
      /\ inbox' = Append(inbox, x) /\ mailbox' = mailbox /\ m_sessions' = m_sessions
      /\ pos'[a][c] = p + 1 /\ pos[a][c] = p
      /\ \A b \in Process : b # a => pos'[b][c] = pos[b][c]
  BY <1>1, <1>2, ScriptSendIs
<1>4. p \in 1 .. Len(Script(a, c)) /\ p \in Nat /\ Len(Script(a, c)) \in Nat /\ p \in Says(a, c) /\ p \notin Awaits(a, c)
  <2>1. p \in 1 .. Len(Script(a, c)) /\ Len(Script(a, c)) \in Nat
    BY <1>2, <1>3, LineIsTyped, LinesAreNumbers
  <2>2. DOMAIN Script(a, c) = 1 .. Len(Script(a, c))
    BY <1>2, ScriptIsTyped, LenProperties
  <2>3. p \in Says(a, c)
    BY <1>3, <2>1, <2>2 DEF Says, Sending, Line
  <2> QED
    BY <1>2, <2>1, <2>3, LinesAreNumbers
<1>5. x = Datagrams(a, c)[p]
  <2>1. Datagrams(a, c)[p] = [src |-> a, msg |-> Script(a, c)[p].msg]
    BY <1>2, <1>4, DatagramsAre
  <2> QED
    BY <1>1, <2>1 DEF Line
<1>6. /\ Says(a, c) \subseteq Nat /\ Awaits(a, c) \subseteq Nat
  BY <1>2, LinesAreNumbers
<1>7. Sent(a, c)' = Sent(a, c) \cup {p} /\ Read(a, c)' = Read(a, c) /\ \A i \in Sent(a, c) : i < p
  <2>1. \A i \in Nat : i < p + 1 <=> i < p \/ i = p
    BY <1>4
  <2> QED
    BY <1>3, <1>4, <1>6, <2>1 DEF Sent, Read
<1>8. \A b \in Process : Arrived(b, c, h)' = Arrived(b, c, h)
  BY DEF Arrived
<1>9. \A b \in Process : b # a => Sent(b, c)' = Sent(b, c) /\ Read(b, c)' = Read(b, c)
  BY <1>3 DEF Sent, Read
<1>10. Causal(c, h)'
  <2>1. ASSUME NEW b \in Process
        PROVE  /\ pos'[b][c] \in 1 .. Len(Script(b, c)) + 1
               /\ h[b] \subseteq Sent(b, c)'
               /\ \A i \in h[b], k \in Says(b, c) : k < i => k \in h[b]
               /\ Read(b, c)' \subseteq Arrived(b, c, h)
    BY <1>2, <1>3, <1>4, <1>7, <1>9 DEF Causal
  <2> QED
    BY <1>8, <2>1 DEF Causal
<1>11. Carries(inbox', FromIn(a, c), Sent(a, c)' \ h[a], Datagrams(a, c))
  <2> DEFINE L == Sent(a, c) \ h[a]
  <2>1. p \notin h[a]
    BY <1>4, <1>7, <1>2 DEF Causal
  <2>2. Sent(a, c)' \ h[a] = L \cup {p} /\ L \in SUBSET Nat /\ \A i \in L : i < p
    BY <1>6, <1>7, <2>1 DEF Sent
  <2>3. Carries(inbox, FromIn(a, c), L, Datagrams(a, c))
    BY <1>2 DEF Queues
  <2> HIDE DEF L
  <2>4. Carries(Append(inbox, x), FromIn(a, c), L \cup {p}, Datagrams(a, c))
    BY <1>3, <1>4, <1>5, <2>2, <2>3, CarriesMore
  <2> QED
    BY <1>3, <2>2, <2>4
<1>12. ASSUME NEW b \in Process, b # a PROVE Carries(inbox', FromIn(b, c), Sent(b, c)' \ h[b], Datagrams(b, c))
  <2>1. x \notin FromIn(b, c)
    BY <1>3, <1>12 DEF FromIn
  <2>2. Carries(inbox, FromIn(b, c), Sent(b, c) \ h[b], Datagrams(b, c))
    BY <1>2 DEF Queues
  <2>3. Carries(Append(inbox, x), FromIn(b, c), Sent(b, c) \ h[b], Datagrams(b, c))
    BY <1>3, <2>1, <2>2, CarriesBeside
  <2> QED
    BY <1>3, <1>9, <1>12, <2>3
<1>13. Queues(c, h)'
  <2>1. \A b \in Process : Carries(mailbox[b], OfCall(c), Arrived(b, c, h)' \ Read(b, c)', Due(b, c))
    BY <1>2, <1>7, <1>8, <1>9 DEF Queues
  <2> QED
    BY <1>3, <1>11, <1>12, <2>1 DEF Queues
<1> QED
  BY <1>2, <1>3, <1>10, <1>13, SameSession DEF Flow

-------------------------------------------------------------------------------
(* A process receives. *)

LEMMA ReceiveInOther ==
  ASSUME TypeOK, NEW c, Fits(c), NEW h, Flow(c, h), NEW a \in Process, ScriptReceive(a), Head(mailbox[a]).callID # c
  PROVE  Flow(c, h)'
<1>1. /\ h \in Handled /\ Causal(c, h) /\ SessionThere(c, h) /\ Queues(c, h) /\ c \in CallID
  BY DEF Flow, Fits
<1>2. PICK n \in Message : n = Head(mailbox[a])
  BY ReceiveIs
<1>3. /\ mailbox[a] # <<>> /\ mailbox[a] \in Seq(Message) /\ mailbox \in [Process -> Seq(Message)]
      /\ pos' = [pos EXCEPT ![a][n.callID] = PosAfter(a, n)] /\ n.callID # c
      /\ mailbox' = [mailbox EXCEPT ![a] = Tail(mailbox[a])]
      /\ inbox' = inbox /\ m_sessions' = m_sessions
  BY <1>2, ReceiveIs DEF TypeOK
<1>4. \A b \in Process : pos'[b][c] = pos[b][c]
  BY <1>1, <1>3 DEF TypeOK
<1>5. Carries(Tail(mailbox[a]), OfCall(c), Arrived(a, c, h) \ Read(a, c), Due(a, c))
  <2> DEFINE L == Arrived(a, c, h) \ Read(a, c)
  <2>1. L \in SUBSET Nat /\ \A i \in L : Due(a, c)[i] \in OfCall(c)
    BY <1>1, LinesAreNumbers, DueIs DEF Arrived
  <2>2. Head(mailbox[a]) \notin OfCall(c) /\ Carries(mailbox[a], OfCall(c), L, Due(a, c))
    BY <1>1 DEF OfCall, Queues
  <2> HIDE DEF L
  <2>3. Carries(Tail(mailbox[a]), OfCall(c), L, Due(a, c))
    BY <1>3, <2>1, <2>2, CarriesTail
  <2> QED
    BY <2>3 DEF L
<1>6. \A b \in Process : Carries(mailbox'[b], OfCall(c), Arrived(b, c, h) \ Read(b, c), Due(b, c))
  <2>1. mailbox'[a] = Tail(mailbox[a]) /\ \A b \in Process : b # a => mailbox'[b] = mailbox[b]
    BY <1>3
  <2> QED
    BY <1>1, <1>5, <2>1 DEF Queues
<1>7. Causal(c, h)' /\ SessionThere(c, h)'
  BY <1>1, <1>3, <1>4, SameLines, SameSession
<1>8. Queues(c, h)'
  BY <1>1, <1>3, <1>4, <1>6, SameLines DEF Queues
<1> QED
  BY <1>1, <1>7, <1>8 DEF Flow

LEMMA ReceiveInCall ==
  ASSUME TypeOK, NEW c, Fits(c), NEW h, Flow(c, h), NEW a \in Process, ScriptReceive(a), Head(mailbox[a]).callID = c
  PROVE  Flow(c, h)'
<1>1. /\ h \in Handled /\ Causal(c, h) /\ SessionThere(c, h) /\ Queues(c, h) /\ c \in CallID
  BY DEF Flow, Fits
<1>2. PICK m \in Message : m = Head(mailbox[a])
  BY ReceiveIs
<1>3. PICK p : p = pos[a][c]
  OBVIOUS
<1>4. /\ mailbox[a] # <<>> /\ mailbox[a] \in Seq(Message) /\ mailbox \in [Process -> Seq(Message)]
      /\ ~ Sending(a, c) /\ m.callID = c
      /\ pos' = [pos EXCEPT ![a][c] = PosAfter(a, m)]
      /\ mailbox' = [mailbox EXCEPT ![a] = Tail(mailbox[a])]
      /\ inbox' = inbox /\ m_sessions' = m_sessions
  BY <1>2, ReceiveIs DEF TypeOK
<1> DEFINE L == Arrived(a, c, h) \ Read(a, c)
<1>5. /\ p \in 1 .. Len(Script(a, c)) + 1 /\ p \in Nat /\ Len(Script(a, c)) \in Nat
      /\ Says(a, c) \subseteq Nat /\ Awaits(a, c) \subseteq Nat
      /\ Awaits(a, c) \subseteq 1 .. Len(Script(a, c))
  BY <1>1, <1>3, LinesAreNumbers DEF Causal
<1>6. PICK n \in L : /\ \A i \in L : n <= i
                     /\ m = Due(a, c)[n]
                     /\ Carries(Tail(mailbox[a]), OfCall(c), L \ {n}, Due(a, c))
  <2>1. L \in SUBSET Nat /\ Head(mailbox[a]) \in OfCall(c) /\ Carries(mailbox[a], OfCall(c), L, Due(a, c))
    BY <1>1, <1>2, <1>4, <1>5 DEF Arrived, OfCall, Queues
  <2> HIDE DEF L
  <2>2. \E n \in L : /\ \A i \in L : n <= i
                     /\ Head(mailbox[a]) = Due(a, c)[n]
                     /\ Carries(Tail(mailbox[a]), OfCall(c), L \ {n}, Due(a, c))
    BY <1>4, <2>1, CarriesHead
  <2> QED
    BY <1>2, <2>2
<1>7. n \in Awaits(a, c) /\ n \in Nat /\ n \in Arrived(a, c, h) /\ p <= n /\ n <= Len(Script(a, c))
  BY <1>3, <1>5, <1>6 DEF Arrived, Read
<1>8. Playing(a, c) /\ p \in Awaits(a, c)
  <2>1. Playing(a, c)
    BY <1>3, <1>5, <1>7 DEF Playing, AtEnd, GivenUp
  <2>2. Line(a, c).op # "send"
    BY <1>4, <2>1 DEF Sending
  <2>3. p \in DOMAIN Script(a, c)
    <3>1. DOMAIN Script(a, c) = 1 .. Len(Script(a, c))
      BY <1>1, ScriptIsTyped, LenProperties
    <3> QED
      BY <1>5, <1>7, <3>1
  <2> QED
    BY <1>3, <2>1, <2>2, <2>3 DEF Line, Awaits
\* The first message of the call is the one the process is waiting for.
<1>9. n = p
  <2>1. ASSUME p < n PROVE FALSE
    <3>1. p \in Arrived(a, c, h)
      BY <1>1, <1>7, <1>8, <2>1, InOrder
    <3>2. p \notin Read(a, c)
      BY <1>3, <1>5 DEF Read
    <3>3. n <= p
      BY <1>6, <3>1, <3>2
    <3> QED
      BY <1>5, <1>7, <2>1, <3>3
  <2> QED
    BY <1>5, <1>7, <2>1
<1>10. PosAfter(a, m) = p + 1
  <2>1. Matches(m, Script(a, c)[p].what)
    BY <1>6, <1>8, <1>9, DueIs
  <2>2. p \in Candidates(a, c)
    <3>1. Script(a, c)[p].op # "send"
      BY <1>8 DEF Awaits
    <3>2. p \in p .. Len(Script(a, c)) /\ p .. p - 1 = {}
      BY <1>5, <1>7, <1>9
    <3> QED
      BY <1>3, <3>1, <3>2 DEF Candidates
  <2>3. p \in Takes(a, m)
    BY <1>4, <2>1, <2>2 DEF Takes
  <2>4. Takes(a, m) \in SUBSET Nat /\ \A i \in Takes(a, m) : p <= i
    BY <1>3, <1>4, TakesIs
  <2>5. PickLine(Takes(a, m)) \in Takes(a, m) /\ \A i \in Takes(a, m) : PickLine(Takes(a, m)) <= i
    BY <2>3, <2>4, PickLineIs
  <2>6. PickLine(Takes(a, m)) = p
    BY <1>5, <2>3, <2>4, <2>5
  <2> QED
    BY <1>4, <1>8, <2>3, <2>6 DEF PosAfter
<1>11. pos'[a][c] = p + 1 /\ \A b \in Process : b # a => pos'[b][c] = pos[b][c]
  BY <1>1, <1>4, <1>10 DEF TypeOK
<1>12. p \notin Says(a, c)
  BY <1>8 DEF Says, Awaits
<1>13. Sent(a, c)' = Sent(a, c) /\ Read(a, c)' = Read(a, c) \cup {p}
  <2>1. \A i \in Nat : i < p + 1 <=> i < p \/ i = p
    BY <1>5
  <2> QED
    BY <1>3, <1>5, <1>8, <1>11, <1>12, <2>1 DEF Sent, Read
<1>14. \A b \in Process : Arrived(b, c, h)' = Arrived(b, c, h)
  BY DEF Arrived
<1>15. \A b \in Process : b # a => Sent(b, c)' = Sent(b, c) /\ Read(b, c)' = Read(b, c)
  BY <1>11 DEF Sent, Read
<1>16. Causal(c, h)'
  <2>1. ASSUME NEW b \in Process
        PROVE  /\ pos'[b][c] \in 1 .. Len(Script(b, c)) + 1
               /\ h[b] \subseteq Sent(b, c)'
               /\ \A i \in h[b], k \in Says(b, c) : k < i => k \in h[b]
               /\ Read(b, c)' \subseteq Arrived(b, c, h)
    <3>1. CASE b = a
      BY <1>1, <1>5, <1>7, <1>9, <1>11, <1>13, <3>1 DEF Causal
    <3>2. CASE b # a
      BY <1>1, <1>11, <1>15, <3>2 DEF Causal
    <3> QED
      BY <3>1, <3>2
  <2> QED
    BY <1>14, <2>1 DEF Causal
<1>17. Queues(c, h)'
  <2>1. mailbox'[a] = Tail(mailbox[a]) /\ \A b \in Process : b # a => mailbox'[b] = mailbox[b]
    BY <1>4
  <2>2. L \ {n} = Arrived(a, c, h) \ Read(a, c)'
    BY <1>9, <1>13
  <2>3. Carries(mailbox'[a], OfCall(c), Arrived(a, c, h) \ Read(a, c)', Due(a, c))
    BY <1>6, <2>1, <2>2
  <2>4. ASSUME NEW b \in Process
        PROVE  /\ Carries(inbox, FromIn(b, c), Sent(b, c)' \ h[b], Datagrams(b, c))
               /\ Carries(mailbox'[b], OfCall(c), Arrived(b, c, h) \ Read(b, c)', Due(b, c))
    <3>1. CASE b = a
      BY <1>1, <1>13, <2>3, <3>1 DEF Queues
    <3>2. CASE b # a
      BY <1>1, <1>15, <2>1, <3>2 DEF Queues
    <3> QED
      BY <3>1, <3>2
  <2> QED
    BY <1>4, <1>14, <2>4 DEF Queues
<1> QED
  BY <1>1, <1>4, <1>16, <1>17, SameSession DEF Flow

-------------------------------------------------------------------------------
(* The call as a whole. *)

FlowInv(c) == \E h \in Handled : Flow(c, h)

LEMMA FlowInit ==
  ASSUME Init, NEW c, Fits(c)
  PROVE  FlowInv(c)
<1> DEFINE h == [b \in Process |-> {}]
<1>1. /\ c \in CallID /\ inbox = <<>> /\ ~ hasSession(c)
      /\ \A a \in Process : mailbox[a] = <<>> /\ pos[a][c] = 1
  BY DEF Init, ServerInit, SessionsInit, Fits, hasSession
<1>2. h \in Handled /\ \A b \in Process : h[b] = {}
  BY DEF Handled
<1> HIDE DEF h
<1>3. \A a \in Process : Sent(a, c) = {} /\ Read(a, c) = {}
  BY <1>1, LinesAreNumbers DEF Sent, Read
<1>4. \A a \in Process : Arrived(a, c, h) = {}
  BY <1>2, PeerIs DEF Arrived, Origin
<1>5. Causal(c, h)
  BY <1>1, <1>2, <1>3, <1>4, LinesAreNumbers DEF Causal
<1>6. Queues(c, h)
  <2>1. ASSUME NEW a \in Process
        PROVE  /\ Carries(inbox, FromIn(a, c), Sent(a, c) \ h[a], Datagrams(a, c))
               /\ Carries(mailbox[a], OfCall(c), Arrived(a, c, h) \ Read(a, c), Due(a, c))
    <3>1. Sent(a, c) \ h[a] = {} /\ Arrived(a, c, h) \ Read(a, c) = {}
      BY <1>3, <1>4
    <3>2. inbox = <<>> /\ mailbox[a] = <<>>
      BY <1>1
    <3> QED
      BY <3>1, <3>2, CarriesEmpty, Zenon
  <2> QED
    BY <2>1 DEF Queues
<1>7. SessionThere(c, h)
  BY <1>1, <1>2, PeerIs DEF SessionThere
<1> QED
  BY <1>2, <1>5, <1>6, <1>7 DEF FlowInv, Flow

LEMMA FlowStep ==
  ASSUME TypeOK, [Next]_vars, NEW c, Fits(c), FlowInv(c)
  PROVE  FlowInv(c)'
<1>1. PICK h \in Handled : Flow(c, h)
  BY DEF FlowInv
<1>2. CASE run
  <2>1. CASE Head(inbox).msg.callID = c
    <3>1. PICK b \in Process, j \in Nat :
            /\ IsNext(b, c, h, j)
            /\ Head(inbox) = [src |-> b, msg |-> Script(b, c)[j].msg]
            /\ Carries(Tail(inbox), FromIn(b, c), (Sent(b, c) \ h[b]) \ {j}, Datagrams(b, c))
      BY <1>1, <1>2, <2>1, HeadIsNext
    <3> QED
      BY <1>1, <1>2, <3>1, RunOfCall DEF FlowInv
  <2>2. CASE Head(inbox).msg.callID # c
    BY <1>1, <1>2, <2>2, RunOfOther DEF FlowInv
  <2> QED
    BY <2>1, <2>2
<1>3. ASSUME NEW a \in Process, NEW d \in CallID, ScriptSend(a, d) PROVE FlowInv(c)'
  BY <1>1, <1>3, SendInCall, SendInOther DEF FlowInv
<1>4. ASSUME NEW a \in Process, ScriptReceive(a) PROVE FlowInv(c)'
  BY <1>1, <1>4, ReceiveInCall, ReceiveInOther DEF FlowInv
<1>5. CASE UNCHANGED vars
  <2>1. /\ inbox' = inbox /\ mailbox' = mailbox /\ m_sessions' = m_sessions
        /\ \A b \in Process : pos'[b][c] = pos[b][c]
    BY <1>5 DEF vars, serverVars
  <2>2. Causal(c, h)' /\ SessionThere(c, h)'
    BY <1>1, <2>1, SameLines, SameSession DEF Flow
  <2>3. Queues(c, h)'
    BY <1>1, <2>1, SameLines DEF Flow, Queues
  <2> QED
    BY <1>1, <2>2, <2>3 DEF Flow, FlowInv
<1> QED
  BY <1>2, <1>3, <1>4, <1>5 DEF Next, ScriptStep, Idle

\* When nothing is under way everything sent has been handled, everything that
\* arrived has been read, and nobody is at a line that sends.
LEMMA Settled ==
  ASSUME Quiet, NEW c, Fits(c), NEW h, Flow(c, h), NEW a \in Process
  PROVE  /\ \A k \in Says(a, c) : k < pos[a][c] => k \in h[a]
         /\ \A k \in Arrived(a, c, h) : k < pos[a][c]
         /\ pos[a][c] \notin Says(a, c)
<1>1. /\ Causal(c, h) /\ Queues(c, h) /\ c \in CallID
      /\ inbox = <<>> /\ mailbox[a] = <<>> /\ ~ Sending(a, c)
  BY DEF Flow, Fits, Quiet
<1>2. Sent(a, c) \ h[a] = {} /\ Arrived(a, c, h) \ Read(a, c) = {}
  <2>1. /\ Carries(inbox, FromIn(a, c), Sent(a, c) \ h[a], Datagrams(a, c))
        /\ Carries(mailbox[a], OfCall(c), Arrived(a, c, h) \ Read(a, c), Due(a, c))
    BY <1>1 DEF Queues
  <2>2. Sent(a, c) \ h[a] = {}
    BY <1>1, <2>1, CarriesNothing
  <2>3. Arrived(a, c, h) \ Read(a, c) = {}
    BY <1>1, <2>1, CarriesNothing
  <2> QED
    BY <2>2, <2>3
<1>3. pos[a][c] \notin Says(a, c)
  <2>1. ASSUME pos[a][c] \in Says(a, c) PROVE FALSE
    <3>1. pos[a][c] \in 1 .. Len(Script(a, c)) /\ Len(Script(a, c)) \in Nat
      BY <1>1, <2>1, LinesAreNumbers
    <3>2. Playing(a, c)
      BY <3>1 DEF Playing, AtEnd, GivenUp
    <3> QED
      BY <1>1, <2>1, <3>2 DEF Sending, Line, Says
  <2> QED
    BY <2>1
<1> QED
  BY <1>2, <1>3 DEF Sent, Read

\* From the first line on, what was sent was handled, so that it arrived and was
\* read, so that the reader went on to its next line, up to both ends.
LEMMA QuietCallIsOver ==
  ASSUME Quiet, NEW c, Fits(c), FlowInv(c)
  PROVE  ~ hasSession(c) /\ \A a \in Process : AtEnd(a, c)
<1>1. PICK h \in Handled : Flow(c, h)
  BY DEF FlowInv
<1>2. Causal(c, h) /\ SessionThere(c, h)
  BY <1>1 DEF Flow
<1> DEFINE p == pos[Caller][c]
           q == pos[Target][c]
           H == h[Caller]
           K == h[Target]
<1>3. /\ (\A k \in Says(Caller, c) : k < p => k \in H) /\ (\A k \in Says(Target, c) : k < q => k \in K)
      /\ (\A k \in Arrived(Caller, c, h) : k < p) /\ (\A k \in Arrived(Target, c, h) : k < q)
      /\ p \notin Says(Caller, c) /\ q \notin Says(Target, c)
  BY <1>1, Settled, PeerIs
<1>4. CASE Basic(c)
  <2>1. /\ Says(Caller, c) = {1, 5, 6} /\ Says(Target, c) = {2, 3, 6} /\ LastLine(c) = 6
        /\ Len(Script(Caller, c)) = 7 /\ Len(Script(Target, c)) = 6
    BY <1>4, BasicShape
  <2>2. p \in 1 .. 8 /\ q \in 1 .. 7
    BY <1>2, <1>4, BasicCausality
  <2>3. /\ (1 \in H => p > 2 /\ q > 1) /\ (2 \in K => p > 3) /\ (3 \in K => p > 4)
        /\ (5 \in H => q > 4) /\ (6 \in H => q > 5) /\ (6 \in K => p > 7)
    <3>1. /\ (1 \in H => 2 < p /\ 1 < q) /\ (2 \in K => 3 < p) /\ (3 \in K => 4 < p)
          /\ (5 \in H => 4 < q) /\ (6 \in H => 5 < q) /\ (6 \in K => 7 < p)
      BY <1>3, <1>4, BasicArrived
    <3> QED
      BY <2>2, <3>1
  <2>4. /\ (p > 1 => 1 \in H) /\ (p > 5 => 5 \in H) /\ (p > 6 => 6 \in H)
        /\ (q > 2 => 2 \in K) /\ (q > 3 => 3 \in K) /\ (q > 6 => 6 \in K)
        /\ p \notin {1, 5, 6} /\ q \notin {2, 3, 6}
    BY <1>3, <2>1, <2>2
  <2> HIDE DEF p, q, H, K
  <2>5. p = 8 /\ q = 7 /\ 6 \in K
    BY <2>2, <2>3, <2>4
  <2>6. ~ hasSession(c)
    BY <1>2, <2>1, <2>5 DEF SessionThere, K
  <2>7. AtEnd(Caller, c) /\ AtEnd(Target, c)
    BY <2>1, <2>5 DEF AtEnd, p, q
  <2> QED
    BY <2>6, <2>7, PeerIs
<1>5. CASE ~ Basic(c)
  <2>1. /\ Says(Caller, c) = {1, 4} /\ Says(Target, c) = {2, 4, 5} /\ LastLine(c) = 5
        /\ Len(Script(Caller, c)) = 7 /\ Len(Script(Target, c)) = 5
    BY <1>5, CancelShape
  <2>2. p \in 1 .. 8 /\ q \in 1 .. 6
    BY <1>2, <1>5, CancelCausality
  <2>3. /\ (1 \in H => p > 2 /\ q > 1) /\ (2 \in K => p > 3) /\ (4 \in H => p > 5 /\ q > 3)
        /\ (4 \in K => p > 6) /\ (5 \in K => p > 7)
    <3>1. /\ (1 \in H => 2 < p /\ 1 < q) /\ (2 \in K => 3 < p) /\ (4 \in H => 5 < p /\ 3 < q)
          /\ (4 \in K => 6 < p) /\ (5 \in K => 7 < p)
      BY <1>3, <1>5, CancelArrived
    <3> QED
      BY <2>2, <3>1
  <2>4. /\ (p > 1 => 1 \in H) /\ (p > 4 => 4 \in H)
        /\ (q > 2 => 2 \in K) /\ (q > 4 => 4 \in K) /\ (q > 5 => 5 \in K)
        /\ p \notin {1, 4} /\ q \notin {2, 4, 5}
    BY <1>3, <2>1, <2>2
  <2> HIDE DEF p, q, H, K
  <2>5. p = 8 /\ q = 6 /\ 5 \in K
    BY <2>2, <2>3, <2>4
  <2>6. ~ hasSession(c)
    BY <1>2, <2>1, <2>5 DEF SessionThere, K
  <2>7. AtEnd(Caller, c) /\ AtEnd(Target, c)
    BY <2>1, <2>5 DEF AtEnd, p, q
  <2> QED
    BY <2>6, <2>7, PeerIs
<1> QED
  BY <1>4, <1>5

\* Each datagram of a fitting call is handled, relayed and read once and in its
\* order, and its session is there while it has to be, whatever other calls do.
THEOREM CallsFlow == Spec => [](TypeOK /\ \A c \in CallID : Fits(c) => FlowInv(c))
<1>1. Init => \A c \in CallID : Fits(c) => FlowInv(c)
  BY FlowInit
<1>2. TypeOK /\ (\A c \in CallID : Fits(c) => FlowInv(c)) /\ [Next]_vars
        => (\A c \in CallID : Fits(c) => FlowInv(c))'
  BY FlowStep
<1> QED
  BY <1>1, <1>2, ScriptTyping, PTL DEF Spec

\* Whatever other calls of whatever scenarios go on at the same time, the two
\* processes of a fitting call only get messages their scripts provide for.
THEOREM FittingCallsAreExpected ==
  Spec => [](\A c \in CallID : Fits(c) => \A a \in Process : pos[a][c] # GivenUp)
<1>1. (\A c \in CallID : Fits(c) => FlowInv(c))
        => \A c \in CallID : Fits(c) => \A a \in Process : pos[a][c] # GivenUp
  <2>1. ASSUME NEW c, Fits(c), FlowInv(c), NEW a \in Process PROVE pos[a][c] # GivenUp
    <3>1. pos[a][c] \in 1 .. Len(Script(a, c)) + 1 /\ Len(Script(a, c)) \in Nat
      BY <2>1, LinesAreNumbers DEF FlowInv, Flow, Causal, Fits
    <3> QED
      BY <3>1 DEF GivenUp
  <2> QED
    BY <2>1
<1> QED
  BY <1>1, CallsFlow, PTL

\* When nothing is under way and nobody has anything to send, a fitting call is at
\* its end at both processes and has no session, even if other calls were given up.
THEOREM FittingCallsComplete ==
  Spec => [](\A c \in CallID : Fits(c) /\ Quiet => ~ hasSession(c) /\ \A a \in Process : AtEnd(a, c))
<1>1. (\A c \in CallID : Fits(c) => FlowInv(c))
        => \A c \in CallID : Fits(c) /\ Quiet => ~ hasSession(c) /\ \A a \in Process : AtEnd(a, c)
  BY QuietCallIsOver
<1> QED
  BY <1>1, CallsFlow, PTL

\* When all calls fit, nothing unexpected happens to anybody.
THEOREM NothingUnexpectedHappens ==
  ASSUME \A c \in CallID : Fits(c)
  PROVE  Spec => []NothingUnexpected
<1>1. (\A c \in CallID : Fits(c) => \A a \in Process : pos[a][c] # GivenUp) => NothingUnexpected
  BY DEF NothingUnexpected
<1> QED
  BY <1>1, FittingCallsAreExpected, PTL

\* When all calls fit, the system never comes to rest with a call half done.
THEOREM NobodyWaitsInVain ==
  ASSUME \A c \in CallID : Fits(c)
  PROVE  Spec => []QuietMeansComplete
<1>1. (\A c \in CallID : Fits(c) /\ Quiet => ~ hasSession(c) /\ \A a \in Process : AtEnd(a, c))
        => QuietMeansComplete
  BY DEF QuietMeansComplete
<1> QED
  BY <1>1, FittingCallsComplete, PTL

===============================================================================
