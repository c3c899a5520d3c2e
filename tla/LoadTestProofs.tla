----------------------------- MODULE LoadTestProofs -----------------------------
(***************************************************************************)
(* The load test, for any number of calls and any size of the socket: what  *)
(* is lost, repeated and answered again never makes a process give a call   *)
(* up, and the proxy keeps each call for as long as it is needed.           *)
(***************************************************************************)
EXTENDS LoadTest, CallScriptProofs

-------------------------------------------------------------------------------
(* Queues as sets. *)

LEMMA InRange ==
  ASSUME NEW f, NEW i \in DOMAIN f
  PROVE  f[i] \in Range(f)
BY DEF Range

LEMMA RangeIs ==
  ASSUME NEW f, NEW v \in Range(f)
  PROVE  \E i \in DOMAIN f : v = f[i]
BY DEF Range

LEMMA RangeOfTail ==
  ASSUME NEW S, NEW s \in Seq(S), s # <<>>
  PROVE  Range(s) \subseteq S /\ Range(s) = {Head(s)} \cup Range(Tail(s))
<1>1. /\ Len(s) \in Nat \ {0} /\ DOMAIN s = 1 .. Len(s)
      /\ Tail(s) \in Seq(S) /\ Len(Tail(s)) = Len(s) - 1 /\ DOMAIN Tail(s) = 1 .. Len(Tail(s))
      /\ \A i \in 1 .. Len(Tail(s)) : Tail(s)[i] = s[i + 1]
  BY LenProperties, EmptySeq, HeadTailProperties
<1>2. \A i \in 1 .. Len(s) : s[i] \in S
  BY ElementOfSeq
<1>3. Head(s) = s[1]
  OBVIOUS
<1>4. ASSUME NEW i \in DOMAIN s PROVE s[i] = Head(s) \/ \E j \in DOMAIN Tail(s) : s[i] = Tail(s)[j]
  <2>1. CASE i = 1
    BY <1>3, <2>1
  <2>2. CASE i # 1
    <3>1. i - 1 \in DOMAIN Tail(s) /\ s[i] = Tail(s)[i - 1]
      BY <1>1, <2>2
    <3> QED
      BY <3>1
  <2> QED
    BY <2>1, <2>2
<1>5. ASSUME NEW j \in DOMAIN Tail(s) PROVE j + 1 \in DOMAIN s /\ Tail(s)[j] = s[j + 1]
  BY <1>1
<1>6. 1 \in DOMAIN s
  BY <1>1
<1>7. ASSUME NEW v \in Range(s) PROVE v \in S /\ (v = Head(s) \/ v \in Range(Tail(s)))
  <2>1. PICK i \in DOMAIN s : v = s[i]
    BY RangeIs
  <2>2. ASSUME NEW j \in DOMAIN Tail(s) PROVE Tail(s)[j] \in Range(Tail(s))
    BY InRange
  <2> QED
    BY <1>1, <1>2, <1>4, <2>1, <2>2
<1>8. Head(s) \in Range(s)
  BY <1>3, <1>6, InRange
<1>9. ASSUME NEW v \in Range(Tail(s)) PROVE v \in Range(s)
  <2>1. PICK j \in DOMAIN Tail(s) : v = Tail(s)[j]
    BY RangeIs
  <2> QED
    BY <1>5, <2>1, InRange
<1> QED
  BY <1>7, <1>8, <1>9

LEMMA RangeOfConcat ==
  ASSUME NEW S, NEW s \in Seq(S), NEW t \in Seq(S)
  PROVE  Range(s \o t) = Range(s) \cup Range(t)
<1>1. /\ Len(s) \in Nat /\ DOMAIN s = 1 .. Len(s) /\ Len(t) \in Nat /\ DOMAIN t = 1 .. Len(t)
      /\ DOMAIN (s \o t) = 1 .. Len(s) + Len(t)
      /\ \A i \in 1 .. Len(s) + Len(t) : (s \o t)[i] = IF i <= Len(s) THEN s[i] ELSE t[i - Len(s)]
  BY LenProperties, ConcatProperties
<1>2. ASSUME NEW i \in DOMAIN (s \o t)
      PROVE  (\E j \in DOMAIN s : (s \o t)[i] = s[j]) \/ (\E j \in DOMAIN t : (s \o t)[i] = t[j])
  <2>1. CASE i <= Len(s)
    BY <1>1, <2>1
  <2>2. CASE ~ (i <= Len(s))
    <3>1. i - Len(s) \in DOMAIN t /\ (s \o t)[i] = t[i - Len(s)]
      BY <1>1, <2>2
    <3> QED
      BY <3>1
  <2> QED
    BY <2>1, <2>2
<1>3. ASSUME NEW j \in DOMAIN s PROVE j \in DOMAIN (s \o t) /\ (s \o t)[j] = s[j]
  BY <1>1
<1>4. ASSUME NEW j \in DOMAIN t PROVE j + Len(s) \in DOMAIN (s \o t) /\ (s \o t)[j + Len(s)] = t[j]
  BY <1>1
<1>5. ASSUME NEW v \in Range(s \o t) PROVE v \in Range(s) \/ v \in Range(t)
  <2>1. PICK i \in DOMAIN (s \o t) : v = (s \o t)[i]
    BY RangeIs
  <2>2. (\A j \in DOMAIN s : s[j] \in Range(s)) /\ (\A j \in DOMAIN t : t[j] \in Range(t))
    BY InRange
  <2> QED
    BY <1>2, <2>1, <2>2
<1>6. ASSUME NEW v \in Range(s) PROVE v \in Range(s \o t)
  <2>1. PICK j \in DOMAIN s : v = s[j]
    BY RangeIs
  <2> QED
    BY <1>3, <2>1, InRange
<1>7. ASSUME NEW v \in Range(t) PROVE v \in Range(s \o t)
  <2>1. PICK j \in DOMAIN t : v = t[j]
    BY RangeIs
  <2> QED
    BY <1>4, <2>1, InRange
<1> QED
  BY <1>5, <1>6, <1>7

LEMMA RangeOfAppend ==
  ASSUME NEW S, NEW s \in Seq(S), NEW e \in S
  PROVE  Range(Append(s, e)) = Range(s) \cup {e}
<1>1. << e >> \in Seq(S) /\ Append(s, e) = s \o << e >>
  <2>1. << e >> \in Seq(S)
    OBVIOUS
  <2> QED
    BY <2>1, AppendIsConcat
<1>2. Range(<< e >>) = {e}
  BY DEF Range
<1>3. Range(s \o << e >>) = Range(s) \cup Range(<< e >>)
  BY <1>1, RangeOfConcat
<1> QED
  BY <1>1, <1>2, <1>3

-------------------------------------------------------------------------------
(* The messages of an answered call. *)

\* What the script of the process at b sends, and what the process at a may get.
SaidBy(b, c) ==
  IF b = Caller THEN {Req(c, "INVITE"), Req(c, "ACK"), Req(c, "BYE")}
  ELSE {Resp(c, "180", "INVITE"), Resp(c, "200", "INVITE"), Resp(c, "200", "BYE")}

Trying(c) == Resp(c, "100", "INVITE")

ExpectedBy(a, c) == SaidBy(Peer(a), c) \cup IF a = Caller THEN {Trying(c)} ELSE {}

\* The line of its receiver's script a message is for.
Rank(m) ==
  IF IsResponse(m)
  THEN IF m.line = {"100"} THEN 2
       ELSE IF m.line = {"180"} THEN 3
       ELSE IF m.cseq = "INVITE" THEN 4 ELSE 7
  ELSE IF m.method = "INVITE" THEN 1
       ELSE IF m.method = "ACK" THEN 4 ELSE 5

LEMMA CodesDiffer ==
  {"100"} # {"180"} /\ {"100"} # {"200"} /\ {"180"} # {"200"}
OBVIOUS

LEMMA MessagesOfTheCall ==
  ASSUME NEW c
  PROVE  /\ SaidBy(Caller, c) = {Req(c, "INVITE"), Req(c, "ACK"), Req(c, "BYE")}
         /\ SaidBy(Target, c) = {Resp(c, "180", "INVITE"), Resp(c, "200", "INVITE"), Resp(c, "200", "BYE")}
         /\ ExpectedBy(Caller, c) = SaidBy(Target, c) \cup {Trying(c)}
         /\ ExpectedBy(Target, c) = SaidBy(Caller, c)
BY PeerIs DEF SaidBy, ExpectedBy

LEMMA RanksAre ==
  ASSUME NEW c
  PROVE  /\ Rank(Req(c, "INVITE")) = 1 /\ Rank(Req(c, "ACK")) = 4 /\ Rank(Req(c, "BYE")) = 5
         /\ Rank(Trying(c)) = 2 /\ Rank(Resp(c, "180", "INVITE")) = 3
         /\ Rank(Resp(c, "200", "INVITE")) = 4 /\ Rank(Resp(c, "200", "BYE")) = 7
BY CodesDiffer DEF Rank, Req, Resp, Trying, IsResponse

\* A message of the call is one of those listed, is of this call, and its rank tells which it is.
LEMMA ExpectedIs ==
  ASSUME NEW c \in CallID, NEW a \in Process, NEW m \in ExpectedBy(a, c)
  PROVE  /\ m \in Message /\ m.callID = c /\ Rank(m) \in Nat
         /\ a = Caller => /\ IsResponse(m)
                          /\ \/ Rank(m) = 2 /\ m.line = {"100"} /\ m = Trying(c)
                             \/ Rank(m) = 3 /\ m.line = {"180"} /\ m \in SaidBy(Target, c)
                             \/ Rank(m) \in {4, 7} /\ m.line = {"200"} /\ m \in SaidBy(Target, c)
         /\ a = Target => /\ ~ IsResponse(m) /\ m \in SaidBy(Caller, c)
                          /\ \/ Rank(m) = 1 /\ m.method = "INVITE"
                             \/ Rank(m) = 4 /\ m.method = "ACK"
                             \/ Rank(m) = 5 /\ m.method = "BYE"
<1>1. /\ "INVITE" \in Method /\ "ACK" \in Method /\ "BYE" \in Method
      /\ "100" \in Code /\ "180" \in Code /\ "200" \in Code
  BY DEF Method, Code
<1>2. CASE a = Caller
  <2>1. m \in {Resp(c, "180", "INVITE"), Resp(c, "200", "INVITE"), Resp(c, "200", "BYE"), Trying(c)}
    BY <1>2, MessagesOfTheCall
  <2>2. m \in Message /\ m.callID = c
    BY <1>1, <2>1, RespIsMessage DEF Trying
  <2>3. IsResponse(m)
    BY <2>1 DEF Trying, Resp, IsResponse
  <2>4. \/ Rank(m) = 2 /\ m.line = {"100"} /\ m = Trying(c)
        \/ Rank(m) = 3 /\ m.line = {"180"} /\ m \in SaidBy(Target, c)
        \/ Rank(m) \in {4, 7} /\ m.line = {"200"} /\ m \in SaidBy(Target, c)
    <3>1. /\ Resp(c, "180", "INVITE").line = {"180"} /\ Trying(c).line = {"100"}
          /\ Resp(c, "200", "INVITE").line = {"200"} /\ Resp(c, "200", "BYE").line = {"200"}
      BY DEF Resp, Trying
    <3> QED
      BY <2>1, <3>1, RanksAre, MessagesOfTheCall
  <2> QED
    BY <1>2, <2>2, <2>3, <2>4, PeerIs
<1>3. CASE a = Target
  <2>1. m \in {Req(c, "INVITE"), Req(c, "ACK"), Req(c, "BYE")} /\ m \in SaidBy(Caller, c)
    BY <1>3, MessagesOfTheCall
  <2>2. m \in Message /\ m.callID = c
    BY <1>1, <2>1, ReqIsMessage
  <2>3. ~ IsResponse(m)
    BY <1>1, <2>1, TellsApart
  <2>4. \/ Rank(m) = 1 /\ m.method = "INVITE"
        \/ Rank(m) = 4 /\ m.method = "ACK"
        \/ Rank(m) = 5 /\ m.method = "BYE"
    BY <1>1, <2>1, RanksAre, TellsApart
  <2> QED
    BY <1>3, <2>1, <2>2, <2>3, <2>4, PeerIs
<1> QED
  BY <1>2, <1>3, PeerIs

-------------------------------------------------------------------------------
(* Where the two processes are, and what is on its way. *)

\* The messages of call c that wait for the process at a, and those the process at
\* b has sent that wait for the proxy.
InMailbox(a, c) == {m \in Range(mailbox[a]) : m.callID = c}

InInbox(b, c)   == {m \in Message : m.callID = c /\ [src |-> b, msg |-> m] \in Range(inbox)}

\* Neither process has given up, and neither is ahead of what the other has sent.
PosInv(c) ==
  LET p == pos[Caller][c]
      q == pos[Target][c]
  IN  /\ p \in 1 .. 8 /\ q \in 1 .. 7
      /\ p > 3 => q >= 3
      /\ p > 4 => q >= 4
      /\ p = 8 => q = 7
      /\ q > 1 => p >= 2
      /\ q > 4 => p >= 6
      /\ q > 5 => p >= 7

\* The script line that sends m has been played.
WasSent(m) ==
  LET p == pos[Caller][m.callID]
      q == pos[Target][m.callID]
  IN  IF IsResponse(m)
      THEN /\ Rank(m) = 2 => p >= 2
           /\ Rank(m) = 3 => q >= 3
           /\ Rank(m) = 4 => q >= 4
           /\ Rank(m) = 7 => q >= 7
      ELSE /\ Rank(m) = 1 => p >= 2
           /\ Rank(m) = 4 => p >= 6
           /\ Rank(m) = 5 => p >= 7

SessionInv(c) == hasSession(c) => m_sessions[c].caller = Caller /\ m_sessions[c].target = Target

LEMMA PlayingIs ==
  ASSUME NEW c, Basic(c), PosInv(c)
  PROVE  /\ Playing(Caller, c) <=> pos[Caller][c] \in 1 .. 7
         /\ Playing(Target, c) <=> pos[Target][c] \in 1 .. 6
         /\ Sending(Caller, c) <=> pos[Caller][c] \in {1, 5, 6}
         /\ Sending(Target, c) <=> pos[Target][c] \in {2, 3, 6}
<1>1. pos[Caller][c] \in 1 .. 8 /\ pos[Target][c] \in 1 .. 7
  BY DEF PosInv
<1>0. Len(Script(Caller, c)) = 7 /\ Len(Script(Target, c)) = 6
  BY BasicScripts
<1>2. Playing(Caller, c) <=> pos[Caller][c] \in 1 .. 7
  BY <1>0, <1>1 DEF Playing, AtEnd, GivenUp
<1>3. Playing(Target, c) <=> pos[Target][c] \in 1 .. 6
  BY <1>0, <1>1 DEF Playing, AtEnd, GivenUp
<1>4. Sending(Caller, c) <=> pos[Caller][c] \in {1, 5, 6}
  <2>1. Line(Caller, c) = uac(c)[pos[Caller][c]]
    BY BasicScripts DEF Line
  <2> QED
    BY <1>1, <1>2, <2>1, OpsAre DEF Sending
<1>5. Sending(Target, c) <=> pos[Target][c] \in {2, 3, 6}
  <2>1. Line(Target, c) = uas(c)[pos[Target][c]]
    BY BasicScripts DEF Line
  <2> QED
    BY <1>1, <1>3, <2>1, OpsAre DEF Sending
<1> QED
  BY <1>2, <1>3, <1>4, <1>5

\* The line that is sent next.
LEMMA SaysIs ==
  ASSUME NEW c, Basic(c), PosInv(c), NEW a \in Process, Sending(a, c)
  PROVE  /\ Line(a, c).msg \in SaidBy(a, c)
         /\ a = Caller => \/ pos[a][c] = 1 /\ Line(a, c).msg = Req(c, "INVITE")
                          \/ pos[a][c] = 5 /\ Line(a, c).msg = Req(c, "ACK")
                          \/ pos[a][c] = 6 /\ Line(a, c).msg = Req(c, "BYE")
         /\ a = Target => \/ pos[a][c] = 2 /\ Line(a, c).msg = Resp(c, "180", "INVITE")
                          \/ pos[a][c] = 3 /\ Line(a, c).msg = Resp(c, "200", "INVITE")
                          \/ pos[a][c] = 6 /\ Line(a, c).msg = Resp(c, "200", "BYE")
<1>1. \A m : Send(m).msg = m
  BY DEF Send
<1>2. Line(Caller, c) = uac(c)[pos[Caller][c]] /\ Line(Target, c) = uas(c)[pos[Target][c]]
  BY BasicScripts DEF Line
<1>3. CASE a = Caller
  <2>1. pos[Caller][c] \in {1, 5, 6}
    BY <1>3, PlayingIs
  <2>2. /\ uac(c)[1].msg = Req(c, "INVITE") /\ uac(c)[5].msg = Req(c, "ACK")
        /\ uac(c)[6].msg = Req(c, "BYE")
    BY <1>1, LinesAre
  <2>3. \/ pos[a][c] = 1 /\ Line(a, c).msg = Req(c, "INVITE")
        \/ pos[a][c] = 5 /\ Line(a, c).msg = Req(c, "ACK")
        \/ pos[a][c] = 6 /\ Line(a, c).msg = Req(c, "BYE")
    BY <1>2, <1>3, <2>1, <2>2
  <2>4. Line(a, c).msg \in SaidBy(Caller, c)
    BY <2>3, MessagesOfTheCall
  <2>5. a # Target
    BY <1>3, PeerIs
  <2> QED
    BY <1>3, <2>3, <2>4, <2>5
<1>4. CASE a = Target
  <2>1. pos[Target][c] \in {2, 3, 6}
    BY <1>4, PlayingIs
  <2>2. /\ uas(c)[2].msg = Resp(c, "180", "INVITE") /\ uas(c)[3].msg = Resp(c, "200", "INVITE")
        /\ uas(c)[6].msg = Resp(c, "200", "BYE")
    BY <1>1, LinesAre
  <2>3. \/ pos[a][c] = 2 /\ Line(a, c).msg = Resp(c, "180", "INVITE")
        \/ pos[a][c] = 3 /\ Line(a, c).msg = Resp(c, "200", "INVITE")
        \/ pos[a][c] = 6 /\ Line(a, c).msg = Resp(c, "200", "BYE")
    BY <1>2, <1>4, <2>1, <2>2
  <2>4. Line(a, c).msg \in SaidBy(Target, c)
    BY <2>3, MessagesOfTheCall
  <2>5. a # Caller
    BY <1>4, PeerIs
  <2> QED
    BY <1>4, <2>3, <2>4, <2>5
<1> QED
  BY <1>3, <1>4, PeerIs

LEMMA CallerTakes ==
  ASSUME NEW c, Basic(c), PosInv(c), NEW m \in ExpectedBy(Caller, c), NEW i \in Nat,
         \/ pos[Caller][c] \in 2 .. 4 /\ Rank(m) \in pos[Caller][c] .. 4
         \/ pos[Caller][c] = 7 /\ Rank(m) = 7
  PROVE  i \in Takes(Caller, m) <=> i = Rank(m)
<1> DEFINE p == pos[Caller][c]
<1>1. /\ m.callID = c /\ IsResponse(m)
      /\ \/ Rank(m) = 2 /\ m.line = {"100"}
         \/ Rank(m) = 3 /\ m.line = {"180"}
         \/ Rank(m) \in {4, 7} /\ m.line = {"200"}
  BY ExpectedIs, PeerIs DEF Basic
<1>2. i \in Takes(Caller, m) <=>
        /\ i \in p .. 7 /\ uac(c)[i].op # "send"
        /\ \A j \in p .. i - 1 : uac(c)[j].op = "maybe"
        /\ m.line = {uac(c)[i].what}
  BY <1>1, BasicScripts DEF Takes, Candidates, Matches
<1>3. CASE p = 7
  <2>1. i \in p .. 7 <=> i = 7
    BY <1>3
  <2>2. Rank(m) = 7 /\ m.line = {"200"}
    BY <1>1, <1>3
  <2>3. \A j \in p .. 7 - 1 : FALSE
    BY <1>3
  <2> QED
    BY <1>2, <2>1, <2>2, <2>3, OpsAre
<1>4. CASE p \in 2 .. 4 /\ Rank(m) \in p .. 4
  <2>1. ASSUME i \in Takes(Caller, m) PROVE i = Rank(m)
    <3>1. i <= 4
      <4>1. CASE i > 4
        <5>1. 4 \in p .. i - 1
          BY <1>4, <4>1
        <5> QED
          BY <1>2, <2>1, <5>1, OpsAre
      <4> QED
        BY <4>1
    <3>2. i \in 2 .. 4 /\ m.line = {uac(c)[i].what}
      BY <1>2, <1>4, <2>1, <3>1
    <3>3. Rank(m) \in 2 .. 4
      BY <1>4
    <3> QED
      BY <1>1, <3>2, <3>3, OpsAre, CodesDiffer
  <2>2. ASSUME i = Rank(m) PROVE i \in Takes(Caller, m)
    <3>1. i \in 2 .. 4 /\ i \in p .. 7
      BY <1>4, <2>2
    <3>2. uac(c)[i].op # "send" /\ m.line = {uac(c)[i].what}
      BY <1>1, <2>2, <3>1, OpsAre
    <3>3. ASSUME NEW j \in p .. i - 1 PROVE uac(c)[j].op = "maybe"
      <4>1. j \in {2, 3}
        BY <1>4, <3>1
      <4> QED
        BY <4>1, OpsAre
    <3> QED
      BY <1>2, <3>1, <3>2, <3>3
  <2> QED
    BY <2>1, <2>2
<1> QED
  BY <1>3, <1>4

LEMMA CalleeTakes ==
  ASSUME NEW c, Basic(c), PosInv(c), NEW m \in ExpectedBy(Target, c), NEW i \in Nat,
         \/ pos[Target][c] = 1 /\ Rank(m) = 1
         \/ pos[Target][c] \in 4 .. 5 /\ Rank(m) \in pos[Target][c] .. 5
  PROVE  i \in Takes(Target, m) <=> i = Rank(m)
<1> DEFINE q == pos[Target][c]
<1>1. /\ m.callID = c /\ ~ IsResponse(m)
      /\ \/ Rank(m) = 1 /\ m.method = "INVITE"
         \/ Rank(m) = 4 /\ m.method = "ACK"
         \/ Rank(m) = 5 /\ m.method = "BYE"
  BY ExpectedIs, PeerIs DEF Basic
<1>2. i \in Takes(Target, m) <=>
        /\ i \in q .. 6 /\ uas(c)[i].op # "send"
        /\ \A j \in q .. i - 1 : uas(c)[j].op = "maybe"
        /\ m.method = uas(c)[i].what
  BY <1>1, BasicScripts DEF Takes, Candidates, Matches
<1>3. CASE q = 1
  <2>1. ASSUME i \in Takes(Target, m) PROVE i = 1
    <3>1. CASE i > 1
      <4>1. 1 \in q .. i - 1
        BY <1>3, <3>1
      <4> QED
        BY <1>2, <2>1, <4>1, OpsAre
    <3> QED
      BY <1>2, <1>3, <2>1, <3>1
  <2>2. 1 \in q .. 6 /\ \A j \in q .. 1 - 1 : FALSE
    BY <1>3
  <2>3. Rank(m) = 1 /\ m.method = "INVITE"
    BY <1>1, <1>3
  <2> QED
    BY <1>2, <2>1, <2>2, <2>3, OpsAre
<1>4. CASE q \in 4 .. 5 /\ Rank(m) \in q .. 5
  <2>1. ASSUME i \in Takes(Target, m) PROVE i = Rank(m)
    <3>1. i <= 5
      <4>1. CASE i > 5
        <5>1. 5 \in q .. i - 1
          BY <1>4, <4>1
        <5> QED
          BY <1>2, <2>1, <5>1, OpsAre
      <4> QED
        BY <4>1
    <3>2. i \in 4 .. 5 /\ m.method = uas(c)[i].what
      BY <1>2, <1>4, <2>1, <3>1
    <3>3. Rank(m) \in 4 .. 5
      BY <1>4
    <3> QED
      BY <1>1, <3>2, <3>3, OpsAre
  <2>2. ASSUME i = Rank(m) PROVE i \in Takes(Target, m)
    <3>1. i \in 4 .. 5 /\ i \in q .. 6
      BY <1>4, <2>2
    <3>2. uas(c)[i].op # "send" /\ m.method = uas(c)[i].what
      BY <1>1, <2>2, <3>1, OpsAre
    <3>3. ASSUME NEW j \in q .. i - 1 PROVE uas(c)[j].op = "maybe"
      <4>1. j = 4
        BY <1>4, <3>1
      <4> QED
        BY <4>1, OpsAre
    <3> QED
      BY <1>2, <3>1, <3>2, <3>3
  <2> QED
    BY <2>1, <2>2
<1> QED
  BY <1>3, <1>4

LEMMA ReceiveAdvances ==
  ASSUME TypeOK, NEW c, Basic(c), PosInv(c), NEW a \in Process, NEW m \in ExpectedBy(a, c),
         pos[a][c] <= Rank(m), WasSent(m), ~ Sending(a, c)
  PROVE  Playing(a, c) /\ PosAfter(a, m) = Rank(m) + 1
<1>1. m.callID = c /\ Rank(m) \in Nat /\ m \in Message
  BY ExpectedIs DEF Basic
<1>2. Playing(a, c) /\ \A i \in Nat : i \in Takes(a, m) <=> i = Rank(m)
  <2>1. CASE a = Caller
    <3>1. /\ IsResponse(m) /\ Rank(m) \in {2, 3, 4, 7}
          /\ pos[Caller][c] \in {2, 3, 4, 7}
      BY <2>1, ExpectedIs, PlayingIs DEF Basic, PosInv
    <3>2. \/ pos[Caller][c] \in 2 .. 4 /\ Rank(m) \in pos[Caller][c] .. 4
          \/ pos[Caller][c] = 7 /\ Rank(m) = 7
      BY <1>1, <2>1, <3>1 DEF WasSent, PosInv
    <3> QED
      BY <2>1, <3>1, <3>2, CallerTakes, PlayingIs
  <2>2. CASE a = Target
    <3>1. /\ ~ IsResponse(m) /\ Rank(m) \in {1, 4, 5}
          /\ pos[Target][c] \in {1, 4, 5}
      BY <2>2, ExpectedIs, PlayingIs DEF Basic, PosInv
    <3>2. \/ pos[Target][c] = 1 /\ Rank(m) = 1
          \/ pos[Target][c] \in 4 .. 5 /\ Rank(m) \in pos[Target][c] .. 5
      BY <1>1, <2>2, <3>1 DEF WasSent, PosInv
    <3> QED
      BY <2>2, <3>1, <3>2, CalleeTakes, PlayingIs
  <2> QED
    BY <2>1, <2>2, PeerIs
<1>3. Takes(a, m) # {} /\ PickLine(Takes(a, m)) = Rank(m)
  BY <1>1, <1>2, TakesIs
<1> QED
  BY <1>1, <1>2, <1>3 DEF PosAfter

\* What each handler sends, datagram by datagram.
LEMMA SendsExactly ==
  ASSUME NEW m \in Message, NEW a \in Addr, processSipMessage(m, a)
  PROVE  \/ IsRequest(m, "INVITE") /\ sent' = << To(a, build100Trying(m)), To(Target, m) >>
         \/ IsRequest(m, "CANCEL") /\ hasSession(m.callID)
         \/ /\ ~ IsRequest(m, "INVITE") /\ hasSession(m.callID)
            /\ sent' = << To(OtherParty(getSession(m.callID), a), m) >>
         \/ ~ IsRequest(m, "INVITE") /\ sent' = <<>>
BY DEF processSipMessage, processInviteMessage, processAckMessage, processByeMessage,
       processCancelMessage, processRinging, processEndOfCall, processCancelOk, processOk,
       processOtherResponse, ForwardResponse, ignoreMessage, IsRequest, IsResponse

LEMMA SaidIs ==
  ASSUME NEW c \in CallID, NEW b \in Process, NEW m \in SaidBy(b, c)
  PROVE  /\ m \in ExpectedBy(Peer(b), c) /\ ~ IsRequest(m, "CANCEL")
         /\ IsRequest(m, "INVITE") <=> b = Caller /\ m = Req(c, "INVITE")
         /\ IsRequest(m, "INVITE") => build100Trying(m) = Trying(c)
<1>1. m \in ExpectedBy(Peer(b), c)
  BY PeerIs DEF ExpectedBy
<1>2. CASE b = Caller
  <2>1. m \in {Req(c, "INVITE"), Req(c, "ACK"), Req(c, "BYE")}
    BY <1>2, MessagesOfTheCall
  <2> QED
    BY <1>1, <1>2, <2>1 DEF IsRequest, Req, build100Trying, Trying
<1>3. CASE b = Target
  <2>1. m \in {Resp(c, "180", "INVITE"), Resp(c, "200", "INVITE"), Resp(c, "200", "BYE")}
    BY <1>3, MessagesOfTheCall
  <2>2. m.kind = "response" /\ b # Caller
    BY <1>3, <2>1, PeerIs DEF Resp
  <2> QED
    BY <1>1, <2>2 DEF IsRequest
<1> QED
  BY <1>2, <1>3, PeerIs

\* Every message of the call that is put into a mailbox is the received one, for the
\* other process, or the 100 for the caller.
LEMMA Delivery ==
  ASSUME TypeOK, run, NEW c, Basic(c), SessionInv(c),
         Head(inbox).msg.callID = c => Head(inbox).msg \in SaidBy(Head(inbox).src, c),
         NEW a \in Process, NEW i \in {1, 2}, NEW y \in Range(ForProcess(sent', i, a)), y.callID = c
  PROVE  LET m == Head(inbox).msg
             b == Head(inbox).src
         IN  /\ m.callID = c
             /\ \/ y = m /\ a = Peer(b) /\ (i = 2 <=> m = Req(c, "INVITE"))
                \/ i = 1 /\ y = Trying(c) /\ a = Caller /\ m = Req(c, "INVITE") /\ b = Caller
<1> DEFINE m == Head(inbox).msg
           b == Head(inbox).src
<1>1. /\ m \in Message /\ b \in Process /\ b \in Addr /\ c \in CallID /\ ServerTypeOK
      /\ processSipMessage(m, b) /\ SendStep(m, b) /\ sent' \in Seq(Outgoing)
  BY RunStep DEF Basic, SendStep, TypeOK
<1>2. i \in DOMAIN sent' /\ sent'[i].dst = a /\ sent'[i].msg = y
  <2>1. ForProcess(sent', i, a) # <<>>
    BY RangeIs
  <2>2. i \in DOMAIN sent' /\ sent'[i].dst = a /\ ForProcess(sent', i, a) = << sent'[i].msg >>
    BY <1>1, <2>1, ForProcessIs
  <2> QED
    BY <2>2 DEF Range
<1>3. m.callID = c
  BY <1>1, <1>2, AnswersAreTyped DEF SendStep, To, IsRequest
<1>4. m \in SaidBy(b, c)
  BY <1>3
<1>5. CASE IsRequest(m, "INVITE")
  <2>1. b = Caller /\ m = Req(c, "INVITE") /\ build100Trying(m) = Trying(c)
    BY <1>1, <1>4, <1>5, SaidIs
  <2>2. sent' = << To(b, build100Trying(m)), To(Target, m) >>
    BY <1>1, <1>5, <2>1, SendsExactly DEF IsRequest
  <2>3. \/ i = 1 /\ a = b /\ y = Trying(c)
        \/ i = 2 /\ a = Target /\ y = m
    BY <1>2, <2>1, <2>2 DEF To
  <2> QED
    BY <1>3, <2>1, <2>3, PeerIs
<1>6. CASE ~ IsRequest(m, "INVITE")
  <2>1. sent' = << To(OtherParty(getSession(c), b), m) >> /\ hasSession(c)
    BY <1>1, <1>2, <1>3, <1>4, <1>6, SendsExactly, SaidIs
  <2>2. OtherParty(getSession(c), b) = Peer(b)
    BY <1>1, <2>1, PeerIs DEF SessionInv, OtherParty, isCaller, getSession
  <2>3. i = 1 /\ a = Peer(b) /\ y = m
    BY <1>2, <2>1, <2>2 DEF To
  <2>4. m # Req(c, "INVITE")
    BY <1>6 DEF IsRequest, Req
  <2> QED
    BY <1>3, <2>3, <2>4
<1> QED
  BY <1>5, <1>6

LEMMA RunMailbox ==
  ASSUME TypeOK, run, NEW a \in Process
  PROVE  LET one == ForProcess(sent', 1, a)
             two == ForProcess(sent', 2, a)
         IN  /\ mailbox'[a] = mailbox[a] \o one \o two
             /\ mailbox[a] \in Seq(Message) /\ one \in Seq(Message) /\ two \in Seq(Message)
             /\ Range(mailbox'[a]) = Range(mailbox[a]) \cup Range(one) \cup Range(two)
<1> DEFINE one == ForProcess(sent', 1, a)
           two == ForProcess(sent', 2, a)
<1>1. sent' \in Seq(Outgoing) /\ mailbox[a] \in Seq(Message)
  BY RunStep DEF SendStep, TypeOK
<1>2. one \in Seq(Message) /\ two \in Seq(Message)
  BY <1>1, ForProcessIs
<1>3. mailbox'[a] = mailbox[a] \o one \o two
  BY DEF run
<1>4. mailbox[a] \o one \in Seq(Message) /\ Range(mailbox[a] \o one) = Range(mailbox[a]) \cup Range(one)
  BY <1>1, <1>2, ConcatProperties, RangeOfConcat
<1>5. Range((mailbox[a] \o one) \o two) = Range(mailbox[a] \o one) \cup Range(two)
  <2> DEFINE u == mailbox[a] \o one
  <2>1. u \in Seq(Message)
    BY <1>4
  <2> HIDE DEF u, one, two
  <2>2. Range(u \o two) = Range(u) \cup Range(two)
    BY <1>2, <2>1, RangeOfConcat
  <2> QED
    BY <2>2 DEF u
<1>7. Range(mailbox'[a]) = Range(mailbox[a]) \cup Range(one) \cup Range(two)
  <2> HIDE DEF one, two
  <2> QED
    BY <1>3, <1>4, <1>5
<1> QED
  BY <1>1, <1>2, <1>3, <1>7

\* Where the two processes are in call c decides what has been sent in it.
LEMMA SamePosition ==
  ASSUME NEW c, pos'[Caller][c] = pos[Caller][c], pos'[Target][c] = pos[Target][c]
  PROVE  /\ PosInv(c) => PosInv(c)'
         /\ \A a \in Process : pos'[a][c] = pos[a][c]
         /\ \A m : m.callID = c /\ WasSent(m) => WasSent(m)'
<1>1. PosInv(c) => PosInv(c)'
  BY DEF PosInv
<1>2. \A a \in Process : pos'[a][c] = pos[a][c]
  BY PeerIs
<1>3. ASSUME NEW m, m.callID = c, WasSent(m) PROVE WasSent(m)'
  BY <1>3 DEF WasSent
<1> QED
  BY <1>1, <1>2, <1>3

-------------------------------------------------------------------------------
(* The inductive invariant.  To where the processes are (PosInv) and who the   *)
(* parties of a session are it adds the queues.  Those of CallScript keep what   *)
(* was sent in order and hold it once; with repeats and losses they are in no    *)
(* order any more and hold a message as often as it was repeated.               *)

\* Whatever is on its way was sent.
SentInv(c) ==
  \A a \in Process :
    /\ \A m \in InMailbox(a, c) : m \in ExpectedBy(a, c) /\ WasSent(m)
    /\ \A m \in InInbox(a, c) : m \in SaidBy(a, c) /\ WasSent(m)

\* What the caller remembers of the call: the 200 that its ACK answers.
CallerMemory(c) ==
  LET p == pos[Caller][c]
  IN  /\ p \in {1, 6} => last[Caller][c] = None
      /\ p = 5 => last[Caller][c] = Resp(c, "200", "INVITE")
      /\ answered[Caller][c] = IF p < 6 THEN None ELSE << Resp(c, "200", "INVITE"), 5 >>

\* What the callee remembers of the call: the request it answered last.
CalleeMemory(c) ==
  LET q == pos[Target][c]
  IN  /\ q \in {1, 3} => last[Target][c] = None
      /\ q = 2 => last[Target][c] = Req(c, "INVITE")
      /\ q = 6 => last[Target][c] = Req(c, "BYE")
      /\ answered[Target][c] = IF q < 3 THEN None
                               ELSE IF q < 7 THEN << Req(c, "INVITE"), 2 >>
                               ELSE << Req(c, "BYE"), 6 >>

\* Once the INVITE has been let through, the session is there until the answer to the
\* BYE is at the caller's door.
KeptInv(c) ==
  ~ hasSession(c) /\ (pos[Target][c] > 1 \/ Req(c, "INVITE") \in InMailbox(Target, c))
    => pos[Caller][c] = 8 \/ Resp(c, "200", "BYE") \in InMailbox(Caller, c)

LoadCallInv(c) ==
  PosInv(c) /\ SentInv(c) /\ CallerMemory(c) /\ CalleeMemory(c) /\ SessionInv(c) /\ KeptInv(c)

\* The types the steps need: LoadTypeOK but for what `answered' points to.
MemoryOK ==
  /\ TypeOK
  /\ Len(inbox) <= Capacity
  /\ last \in [Process -> [CallID -> Message \cup {None}]]
  /\ answered \in [Process -> [CallID -> (Message \X Nat) \cup {None}]]

LEMMA AllBasic ==
  ASSUME NEW c \in CallID
  PROVE  Basic(c)
BY BasicAssumption DEF Basic

LEMMA NoneIsNothing ==
  /\ \A m \in Message : m # None
  /\ \A m, i : << m, i >> # None
<1>1. ASSUME NEW m \in Message, m = None PROVE FALSE
  <2>1. "kind" \in DOMAIN m
    BY <1>1 DEF Message, Request, Response
  <2>2. DOMAIN None = {}
    BY DEF None
  <2> QED
    BY <1>1, <2>1, <2>2
<1>2. ASSUME NEW m, NEW i PROVE << m, i >> # None
  BY DEF None
<1> QED
  BY <1>1, <1>2

-------------------------------------------------------------------------------
(* Towards the proxy. *)

\* A datagram comes behind what waits for the proxy or is lost.
LEMMA ToProxyIs ==
  ASSUME TypeOK, Len(inbox) <= Capacity, NEW a \in Process, NEW m \in Message, ToProxy(a, m)
  PROVE  /\ inbox' \in Seq(Arrival) /\ Len(inbox') <= Capacity
         /\ m_sessions' = m_sessions /\ sent' = <<>>
         /\ \A b \in Process : \A c, n : n \in InInbox(b, c)' =>
              n \in InInbox(b, c) \/ (n = m /\ b = a /\ m.callID = c)
<1> DEFINE x == [src |-> a, msg |-> m]
<1>1. inbox \in Seq(Arrival) /\ x \in Arrival /\ Len(inbox) \in Nat /\ Capacity \in Nat
  BY CapacityAssumption, LenProperties DEF TypeOK, Arrival
<1>2. inbox' = inbox \/ (inbox' = Append(inbox, x) /\ Len(inbox) < Capacity)
  BY DEF ToProxy
<1>3. inbox' \in Seq(Arrival) /\ Len(inbox') <= Capacity
  <2> HIDE DEF x
  <2>1. Append(inbox, x) \in Seq(Arrival) /\ Len(Append(inbox, x)) = Len(inbox) + 1
    BY <1>1, AppendProperties
  <2> QED
    BY <1>1, <1>2, <2>1
<1>4. Range(inbox') \subseteq Range(inbox) \cup {x}
  <2> HIDE DEF x
  <2>1. Range(Append(inbox, x)) = Range(inbox) \cup {x}
    BY <1>1, RangeOfAppend
  <2> QED
    BY <1>2, <2>1
<1>5. ASSUME NEW b \in Process, NEW c, NEW n \in InInbox(b, c)'
      PROVE  n \in InInbox(b, c) \/ (n = m /\ b = a /\ m.callID = c)
  <2>1. n \in Message /\ n.callID = c /\ ([src |-> b, msg |-> n] \in Range(inbox) \/ [src |-> b, msg |-> n] = x)
    BY <1>4, <1>5 DEF InInbox
  <2>2. [src |-> b, msg |-> n] = x => b = a /\ n = m
    OBVIOUS
  <2> QED
    BY <2>1, <2>2 DEF InInbox
<1> QED
  BY <1>3, <1>5 DEF ToProxy

\* A process takes the first datagram out of its socket.
LEMMA TakeIs ==
  ASSUME TypeOK, NEW a \in Process, mailbox[a] # <<>>,
         mailbox' = [mailbox EXCEPT ![a] = Tail(mailbox[a])]
  PROVE  /\ mailbox' \in [Process -> Seq(Message)]
         /\ Head(mailbox[a]) \in Message /\ Head(mailbox[a]).callID \in CallID
         /\ Head(mailbox[a]) \in InMailbox(a, Head(mailbox[a]).callID)
         /\ \A b \in Process : \A c : InMailbox(b, c)' \subseteq InMailbox(b, c)
         /\ \A b \in Process : \A c, n : n \in InMailbox(b, c) =>
              n \in InMailbox(b, c)' \/ (b = a /\ n = Head(mailbox[a]))
<1>1. mailbox \in [Process -> Seq(Message)] /\ mailbox[a] \in Seq(Message)
  BY DEF TypeOK
<1>2. mailbox'[a] = Tail(mailbox[a]) /\ \A b \in Process : b # a => mailbox'[b] = mailbox[b]
  BY <1>1
<1>3. Range(mailbox[a]) = {Head(mailbox[a])} \cup Range(mailbox'[a]) /\ Range(mailbox[a]) \subseteq Message
  BY <1>1, <1>2, RangeOfTail
<1>4. mailbox' \in [Process -> Seq(Message)]
  BY <1>1
<1>5. Head(mailbox[a]) \in Message /\ Head(mailbox[a]).callID \in CallID
  BY <1>3, MessageIsTyped
<1>6. Head(mailbox[a]) \in InMailbox(a, Head(mailbox[a]).callID)
  BY <1>3 DEF InMailbox
<1>7. ASSUME NEW b \in Process, NEW c
      PROVE  /\ InMailbox(b, c)' \subseteq InMailbox(b, c)
             /\ \A n : n \in InMailbox(b, c) => n \in InMailbox(b, c)' \/ (b = a /\ n = Head(mailbox[a]))
  BY <1>2, <1>3 DEF InMailbox
<1> QED
  BY <1>4, <1>5, <1>6, <1>7

LEMMA TakesOne ==
  ASSUME TypeOK, NEW a \in Process, mailbox[a] # <<>>, NEW n, n = Head(mailbox[a]),
         mailbox' = [mailbox EXCEPT ![a] = Tail(mailbox[a])]
  PROVE  /\ n \in InMailbox(a, n.callID)
         /\ \A b \in Process : \A c : InMailbox(b, c)' \subseteq InMailbox(b, c)
         /\ \A b \in Process : \A c, k : k \in InMailbox(b, c) => k \in InMailbox(b, c)' \/ (b = a /\ k = n)
BY TakeIs

-------------------------------------------------------------------------------
(* Steps that leave a call where it is. *)

\* A call in which no line is played: its queues may shrink, but not by the answer
\* to the BYE, and grow by what has been sent before.
LEMMA CallStays ==
  ASSUME NEW c \in CallID, LoadCallInv(c), m_sessions' = m_sessions,
         \A b \in Process : /\ pos'[b][c] = pos[b][c]
                            /\ last'[b][c] = last[b][c] \/ pos[b][c] \in {4, 5, 7, 8}
                            /\ answered'[b][c] = answered[b][c]
                            /\ InMailbox(b, c)' \subseteq InMailbox(b, c)
                            /\ \A n \in InInbox(b, c)' : n \in InInbox(b, c) \/ (n \in SaidBy(b, c) /\ WasSent(n)),
         last'[Caller][c] = last[Caller][c] \/ pos[Caller][c] # 5,
         Resp(c, "200", "BYE") \in InMailbox(Caller, c) => \/ Resp(c, "200", "BYE") \in InMailbox(Caller, c)'
                                                           \/ pos[Caller][c] = 8
  PROVE  LoadCallInv(c)'
<1>1. PosInv(c) /\ SentInv(c) /\ CallerMemory(c) /\ CalleeMemory(c) /\ SessionInv(c) /\ KeptInv(c)
  BY DEF LoadCallInv
<1>2. pos'[Caller][c] = pos[Caller][c] /\ pos'[Target][c] = pos[Target][c]
  BY PeerIs
<1>3. PosInv(c)' /\ \A m : m.callID = c /\ WasSent(m) => WasSent(m)'
  BY <1>1, <1>2, SamePosition
<1>4. SentInv(c)'
  <2>1. ASSUME NEW a \in Process, NEW m \in InMailbox(a, c)' PROVE m \in ExpectedBy(a, c) /\ WasSent(m)'
    <3>1. m \in InMailbox(a, c) /\ m.callID = c
      BY <2>1 DEF InMailbox
    <3> QED
      BY <1>1, <1>3, <3>1 DEF SentInv
  <2>2. ASSUME NEW a \in Process, NEW m \in InInbox(a, c)' PROVE m \in SaidBy(a, c) /\ WasSent(m)'
    <3>1. m.callID = c
      BY <2>2 DEF InInbox
    <3>2. m \in SaidBy(a, c) /\ WasSent(m)
      BY <1>1, <2>2 DEF SentInv
    <3> QED
      BY <1>3, <3>1, <3>2
  <2> QED
    BY <2>1, <2>2 DEF SentInv
<1>5. CallerMemory(c)'
  BY <1>1, <1>2, PeerIs DEF CallerMemory
<1>6. CalleeMemory(c)'
  BY <1>1, <1>2, PeerIs DEF CalleeMemory
<1>7. SessionInv(c)' /\ KeptInv(c)'
  BY <1>1, <1>2, PeerIs DEF SessionInv, KeptInv, hasSession
<1> QED
  BY <1>3, <1>4, <1>5, <1>6, <1>7 DEF LoadCallInv

\* The lines that a retransmission or a second answer sends again.
LEMMA PlayedLines ==
  ASSUME NEW c \in CallID, PosInv(c)
  PROVE  /\ \A i \in {1, 5, 6} : i < pos[Caller][c] =>
              /\ Script(Caller, c)[i].msg \in SaidBy(Caller, c) /\ WasSent(Script(Caller, c)[i].msg)
         /\ \A i \in {2, 3, 6} : i < pos[Target][c] =>
              /\ Script(Target, c)[i].msg \in SaidBy(Target, c) /\ WasSent(Script(Target, c)[i].msg)
<1>1. /\ Script(Caller, c) = uac(c) /\ Script(Target, c) = uas(c)
  BY AllBasic, BasicScripts
<1>2. \A m : Send(m).msg = m
  BY DEF Send
<1>3. /\ uac(c)[1].msg = Req(c, "INVITE") /\ uac(c)[5].msg = Req(c, "ACK") /\ uac(c)[6].msg = Req(c, "BYE")
      /\ uas(c)[2].msg = Resp(c, "180", "INVITE") /\ uas(c)[3].msg = Resp(c, "200", "INVITE")
      /\ uas(c)[6].msg = Resp(c, "200", "BYE")
  BY <1>2, LinesAre
<1>4. /\ \A method : ~ IsResponse(Req(c, method)) /\ Req(c, method).callID = c
      /\ \A code, cs : IsResponse(Resp(c, code, cs)) /\ Resp(c, code, cs).callID = c
  BY DEF Req, Resp, IsResponse
<1>5. ASSUME NEW i \in {1, 5, 6}, i < pos[Caller][c]
      PROVE  uac(c)[i].msg \in SaidBy(Caller, c) /\ WasSent(uac(c)[i].msg)
  <2>1. /\ uac(c)[i].msg \in SaidBy(Caller, c) /\ ~ IsResponse(uac(c)[i].msg) /\ uac(c)[i].msg.callID = c
    BY <1>3, <1>4, MessagesOfTheCall
  <2>2. \/ i = 1 /\ Rank(uac(c)[i].msg) = 1
        \/ i = 5 /\ Rank(uac(c)[i].msg) = 4
        \/ i = 6 /\ Rank(uac(c)[i].msg) = 5
    BY <1>3, RanksAre
  <2> QED
    BY <1>5, <2>1, <2>2 DEF WasSent, PosInv
<1>6. ASSUME NEW i \in {2, 3, 6}, i < pos[Target][c]
      PROVE  uas(c)[i].msg \in SaidBy(Target, c) /\ WasSent(uas(c)[i].msg)
  <2>1. /\ uas(c)[i].msg \in SaidBy(Target, c) /\ IsResponse(uas(c)[i].msg) /\ uas(c)[i].msg.callID = c
    BY <1>3, <1>4, MessagesOfTheCall
  <2>2. \/ i = 2 /\ Rank(uas(c)[i].msg) = 3
        \/ i = 3 /\ Rank(uas(c)[i].msg) = 4
        \/ i = 6 /\ Rank(uas(c)[i].msg) = 7
    BY <1>3, RanksAre
  <2> QED
    BY <1>6, <2>1, <2>2 DEF WasSent, PosInv
<1> QED
  BY <1>1, <1>5, <1>6

\* What is sent again was sent before, in its own call.
LEMMA SaidIsTyped ==
  ASSUME NEW c \in CallID, NEW b \in Process, NEW m \in SaidBy(b, c)
  PROVE  m \in Message /\ m.callID = c
BY PeerIs, SaidIs, ExpectedIs

LEMMA SentAgain ==
  ASSUME MemoryOK, \A d \in CallID : LoadCallInv(d), NEW a \in Process, NEW d \in CallID,
         NEW m \in SaidBy(a, d), WasSent(m), ToProxy(a, m), UNCHANGED <<pos, last, answered>>,
         mailbox' \in [Process -> Seq(Message)],
         \A b \in Process, c \in CallID : InMailbox(b, c)' \subseteq InMailbox(b, c),
         \A c \in CallID : Resp(c, "200", "BYE") \in InMailbox(Caller, c)
                             => Resp(c, "200", "BYE") \in InMailbox(Caller, c)'
  PROVE  MemoryOK' /\ \A c \in CallID : LoadCallInv(c)'
<1>1. m \in Message /\ m.callID = d
  BY SaidIsTyped
<1>2. /\ m_sessions' = m_sessions
      /\ \A b \in Process : \A c, n : n \in InInbox(b, c)' =>
              n \in InInbox(b, c) \/ (n = m /\ b = a /\ m.callID = c)
  BY <1>1, ToProxyIs DEF MemoryOK
<1>3. ASSUME NEW c \in CallID PROVE LoadCallInv(c)'
  <2>1. ASSUME NEW b \in Process, NEW n \in InInbox(b, c)'
        PROVE  n \in InInbox(b, c) \/ (n \in SaidBy(b, c) /\ WasSent(n))
    BY <1>1, <1>2, <2>1
  <2> QED
    BY <1>2, <2>1, CallStays
<1>4. MemoryOK'
  <2>1. /\ inbox' \in Seq(Arrival) /\ Len(inbox') <= Capacity
        /\ m_sessions' = m_sessions /\ sent' = <<>>
    BY <1>1, ToProxyIs DEF MemoryOK
  <2>2. TypeOK'
    BY <2>1 DEF MemoryOK, TypeOK, ServerTypeOK, SessionsTypeOK, Arrival
  <2> QED
    BY <2>1, <2>2 DEF MemoryOK
<1> QED
  BY <1>3, <1>4

\* SIPp sends a message again after half a second without an answer.
LEMMA RetransmitStep ==
  ASSUME MemoryOK, \A c \in CallID : LoadCallInv(c), NEW a \in Process, NEW d \in CallID, Retransmit(a, d)
  PROVE  MemoryOK' /\ \A c \in CallID : LoadCallInv(c)'
<1>1. PosInv(d)
  BY DEF LoadCallInv
<1>2. PICK i \in Nat : i = pos[a][d] - 1
  BY <1>1, PeerIs DEF PosInv, Retransmit
<1> DEFINE m == Script(a, d)[i].msg
<1>3. /\ Playing(a, d) /\ ~ Sending(a, d) /\ Script(a, d)[i].op = "send" /\ ToProxy(a, m)
      /\ mailbox' = mailbox /\ UNCHANGED <<pos, last, answered>>
  BY <1>2 DEF Retransmit
<1>4. m \in SaidBy(a, d) /\ WasSent(m)
  <2>1. CASE a = Caller
    <3>1. Script(Caller, d) = uac(d) /\ i \in 1 .. 6
      BY <1>1, <1>2, <1>3, <2>1, AllBasic, BasicScripts, PlayingIs DEF PosInv, Retransmit
    <3>2. i \in {1, 5, 6}
      BY <1>3, <2>1, <3>1, OpsAre
    <3> QED
      BY <1>1, <1>2, <2>1, <3>2, PlayedLines DEF PosInv
  <2>2. CASE a = Target
    <3>1. Script(Target, d) = uas(d) /\ i \in 1 .. 5
      BY <1>1, <1>2, <1>3, <2>2, AllBasic, BasicScripts, PlayingIs DEF PosInv, Retransmit
    <3>2. i \in {2, 3}
      BY <1>3, <2>2, <3>1, OpsAre
    <3> QED
      BY <1>1, <1>2, <2>2, <3>2, PlayedLines DEF PosInv
  <2> QED
    BY <2>1, <2>2, PeerIs
<1>5. \A b \in Process, c \in CallID : InMailbox(b, c)' = InMailbox(b, c)
  BY <1>3 DEF InMailbox
<1>6. mailbox' \in [Process -> Seq(Message)]
  BY <1>3 DEF MemoryOK, TypeOK
<1> HIDE DEF m
<1> QED
  BY <1>3, <1>4, <1>5, <1>6, SentAgain, PeerIs

\* What a process has answered is never the answer to the BYE.
LEMMA AnsweredIs ==
  ASSUME NEW c \in CallID, LoadCallInv(c), NEW a \in Process, answered[a][c] # None
  PROVE  \/ a = Caller /\ pos[Caller][c] >= 6 /\ answered[a][c] = << Resp(c, "200", "INVITE"), 5 >>
         \/ a = Target /\ pos[Target][c] \in 3 .. 6 /\ answered[a][c] = << Req(c, "INVITE"), 2 >>
         \/ a = Target /\ pos[Target][c] = 7 /\ answered[a][c] = << Req(c, "BYE"), 6 >>
<1>1. PosInv(c) /\ CallerMemory(c) /\ CalleeMemory(c)
  BY DEF LoadCallInv
<1> QED
  BY <1>1, PeerIs DEF PosInv, CallerMemory, CalleeMemory

LEMMA AnswerAgainStep ==
  ASSUME MemoryOK, \A c \in CallID : LoadCallInv(c), NEW a \in Process, AnswerAgain(a)
  PROVE  MemoryOK' /\ \A c \in CallID : LoadCallInv(c)'
<1>1. PICK n \in Message : n = Head(mailbox[a]) /\ n.callID \in CallID
  BY TakeIs DEF MemoryOK, AnswerAgain
<1>2. PICK d \in CallID : d = n.callID
  BY <1>1
<1>3. PICK i : i = answered[a][d][2]
  OBVIOUS
<1> DEFINE m == Script(a, d)[i].msg
<1>4. /\ mailbox[a] # <<>> /\ answered[a][d] # None /\ answered[a][d][1] = n
      /\ ToProxy(a, m) /\ UNCHANGED <<pos, last, answered>>
      /\ mailbox' = [mailbox EXCEPT ![a] = Tail(mailbox[a])]
  BY <1>1, <1>2, <1>3 DEF AnswerAgain
<1>5. PosInv(d) /\ LoadCallInv(d)
  BY DEF LoadCallInv
<1>6. /\ m \in SaidBy(a, d) /\ WasSent(m)
      /\ n # Resp(d, "200", "BYE") \/ a # Caller
  <2>1. CASE a = Caller
    <3>1. pos[Caller][d] >= 6 /\ i = 5 /\ n = Resp(d, "200", "INVITE")
      BY <1>3, <1>4, <1>5, <2>1, AnsweredIs, PeerIs
    <3>2. n # Resp(d, "200", "BYE")
      BY <3>1 DEF Resp
    <3>3. Script(Caller, d)[5].msg \in SaidBy(Caller, d) /\ WasSent(Script(Caller, d)[5].msg)
      BY <1>5, <3>1, PlayedLines DEF PosInv
    <3> QED
      BY <2>1, <3>1, <3>2, <3>3
  <2>2. CASE a = Target
    <3>1. (pos[Target][d] \in 3 .. 6 /\ i = 2) \/ (pos[Target][d] = 7 /\ i = 6)
      BY <1>3, <1>4, <1>5, <2>2, AnsweredIs, PeerIs
    <3>2. Script(Target, d)[i].msg \in SaidBy(Target, d) /\ WasSent(Script(Target, d)[i].msg)
      BY <1>5, <3>1, PlayedLines DEF PosInv
    <3> QED
      BY <2>2, <3>2, PeerIs
  <2> QED
    BY <2>1, <2>2, PeerIs
<1>7. /\ \A b \in Process : \A c : InMailbox(b, c)' \subseteq InMailbox(b, c)
      /\ \A b \in Process : \A c, k : k \in InMailbox(b, c) => k \in InMailbox(b, c)' \/ (b = a /\ k = n)
  BY <1>1, <1>4, TakeIs DEF MemoryOK
<1>8. ASSUME NEW c \in CallID, Resp(c, "200", "BYE") \in InMailbox(Caller, c)
      PROVE  Resp(c, "200", "BYE") \in InMailbox(Caller, c)'
  <2>1. Resp(c, "200", "BYE").callID = c
    BY DEF Resp
  <2>2. ~ (Caller = a /\ Resp(c, "200", "BYE") = n)
    BY <1>2, <1>6, <2>1
  <2> QED
    BY <1>7, <1>8, <2>2, PeerIs
<1>9. mailbox' \in [Process -> Seq(Message)]
  BY <1>4, TakeIs DEF MemoryOK
<1> HIDE DEF m
<1> QED
  BY <1>4, <1>6, <1>7, <1>8, <1>9, SentAgain

LEMMA DropLateStep ==
  ASSUME MemoryOK, \A c \in CallID : LoadCallInv(c), NEW a \in Process, DropLate(a)
  PROVE  MemoryOK' /\ \A c \in CallID : LoadCallInv(c)'
<1>1. PICK n \in Message : n = Head(mailbox[a]) /\ n.callID \in CallID
  BY TakeIs DEF MemoryOK, DropLate
<1>2. PICK d \in CallID : d = n.callID
  BY <1>1
<1>3. /\ mailbox[a] # <<>> /\ Late(a, n) /\ UNCHANGED <<m_sessions, inbox, pos, last, answered>>
      /\ mailbox' = [mailbox EXCEPT ![a] = Tail(mailbox[a])]
  BY <1>1 DEF DropLate
<1>4. PosInv(d)
  BY DEF LoadCallInv
\* The answer to the BYE is not a message the script has optionally.
<1>5. ~ (a = Caller /\ n = Resp(d, "200", "BYE"))
  <2>1. SUFFICES ASSUME a = Caller, n = Resp(d, "200", "BYE") PROVE FALSE
    OBVIOUS
  <2>2. PICK i \in 1 .. pos[Caller][d] - 1 : uac(d)[i].op = "maybe" /\ Matches(n, uac(d)[i].what)
    BY <1>2, <1>3, <2>1, AllBasic, BasicScripts DEF Late
  <2>3. i \in 1 .. 7
    BY <1>4, <2>2 DEF PosInv
  <2>4. uac(d)[i].what \in {"100", "180"}
    BY <2>2, <2>3, OpsAre
  <2>5. IsResponse(n) /\ n.line = {"200"}
    BY <2>1 DEF Resp, IsResponse
  <2> QED
    BY <2>2, <2>4, <2>5 DEF Matches
<1>6. /\ \A b \in Process : \A c : InMailbox(b, c)' \subseteq InMailbox(b, c)
      /\ \A b \in Process : \A c, k : k \in InMailbox(b, c) => k \in InMailbox(b, c)' \/ (b = a /\ k = n)
  <2>1. TypeOK
    BY DEF MemoryOK
  <2> QED
    BY <1>1, <1>3, <2>1, TakeIs
<1>7. \A b \in Process, c \in CallID : InInbox(b, c)' = InInbox(b, c)
  BY <1>3 DEF InInbox
<1>8. ASSUME NEW c \in CallID, Resp(c, "200", "BYE") \in InMailbox(Caller, c)
      PROVE  Resp(c, "200", "BYE") \in InMailbox(Caller, c)'
  <2>1. Resp(c, "200", "BYE").callID = c
    BY DEF Resp
  <2>2. ~ (Caller = a /\ Resp(c, "200", "BYE") = n)
    BY <1>2, <1>5, <2>1
  <2> QED
    BY <1>6, <1>8, <2>2, PeerIs
<1>9. MemoryOK'
  <2>1. mailbox' \in [Process -> Seq(Message)] /\ sent' = <<>>
    BY <1>3, TakeIs DEF MemoryOK, DropLate
  <2>2. TypeOK'
    BY <1>3, <2>1 DEF MemoryOK, TypeOK, ServerTypeOK, SessionsTypeOK
  <2> QED
    BY <1>3, <2>2 DEF MemoryOK
<1> QED
  BY <1>3, <1>6, <1>7, <1>8, <1>9, CallStays

-------------------------------------------------------------------------------
(* Playing a line. *)

\* The messages that what a process remembers depends on.
LEMMA RanksTell ==
  ASSUME NEW c \in CallID, NEW a \in Process, NEW n \in ExpectedBy(a, c)
  PROVE  /\ a = Caller => /\ IsResponse(n) /\ Rank(n) \in {2, 3, 4, 7}
                          /\ Rank(n) = 4 <=> n = Resp(c, "200", "INVITE")
                          /\ Rank(n) = 7 <=> n = Resp(c, "200", "BYE")
         /\ a = Target => /\ ~ IsResponse(n) /\ Rank(n) \in {1, 4, 5}
                          /\ Rank(n) = 1 <=> n = Req(c, "INVITE")
                          /\ Rank(n) = 5 <=> n = Req(c, "BYE")
<1>1. CASE a = Caller
  <2>1. n \in {Resp(c, "180", "INVITE"), Resp(c, "200", "INVITE"), Resp(c, "200", "BYE"), Trying(c)}
    BY <1>1, MessagesOfTheCall
  <2> QED
    BY <1>1, <2>1, RanksAre, ExpectedIs, PeerIs
<1>2. CASE a = Target
  <2>1. n \in {Req(c, "INVITE"), Req(c, "ACK"), Req(c, "BYE")}
    BY <1>2, MessagesOfTheCall
  <2> QED
    BY <1>2, <2>1, RanksAre, ExpectedIs, PeerIs
<1> QED
  BY <1>1, <1>2, PeerIs

\* Nothing changes for another process and in other calls.
LEMMA LoadSendElsewhere ==
  ASSUME MemoryOK, NEW a \in Process, NEW d \in CallID, LoadSend(a, d),
         NEW b \in Process, NEW c \in CallID, b # a \/ c # d
  PROVE  pos'[b][c] = pos[b][c] /\ last'[b][c] = last[b][c] /\ answered'[b][c] = answered[b][c]
BY DEF LoadSend, MemoryOK, TypeOK

LEMMA LoadSendIs ==
  ASSUME MemoryOK, NEW a \in Process, NEW d \in CallID, LoadSend(a, d)
  PROVE  LET n == Line(a, d).msg IN
         /\ n \in Message /\ n.callID = d /\ Sending(a, d)
         /\ ToProxy(a, n) /\ mailbox' = mailbox /\ m_sessions' = m_sessions /\ sent' = <<>>
         /\ pos'[a][d] = pos[a][d] + 1 /\ last'[a][d] = None
         /\ answered'[a][d] = IF last[a][d] = None THEN answered[a][d] ELSE << last[a][d], pos[a][d] >>
         /\ TypeOK' /\ MemoryOK'
<1>1. TypeOK /\ pos \in [Process -> [CallID -> Nat]]
  BY DEF MemoryOK, TypeOK
<1>2. /\ pos[a][d] \in 1 .. Len(Script(a, d))
      /\ Line(a, d).msg \in Message /\ Line(a, d).msg.callID = d
  BY <1>1, LineIsTyped DEF LoadSend
<1>3. /\ ToProxy(a, Line(a, d).msg) /\ Sending(a, d)
      /\ mailbox' = mailbox /\ m_sessions' = m_sessions /\ sent' = <<>>
      /\ inbox' \in Seq(Arrival) /\ Len(inbox') <= Capacity
  BY <1>1, <1>2, ToProxyIs DEF LoadSend, MemoryOK
<1>4. /\ pos' = [pos EXCEPT ![a][d] = pos[a][d] + 1]
      /\ last' = [last EXCEPT ![a][d] = None]
      /\ answered' = IF last[a][d] = None THEN answered
                     ELSE [answered EXCEPT ![a][d] = << last[a][d], pos[a][d] >>]
  BY DEF LoadSend
<1>5. /\ last \in [Process -> [CallID -> Message \cup {None}]]
      /\ answered \in [Process -> [CallID -> (Message \X Nat) \cup {None}]]
  BY DEF MemoryOK
<1>6. /\ pos'[a][d] = pos[a][d] + 1 /\ last'[a][d] = None
      /\ answered'[a][d] = IF last[a][d] = None THEN answered[a][d] ELSE << last[a][d], pos[a][d] >>
  BY <1>1, <1>4, <1>5
<1>7. ASSUME NEW b \in Process, NEW c \in CallID, b # a \/ c # d
      PROVE  pos'[b][c] = pos[b][c] /\ last'[b][c] = last[b][c] /\ answered'[b][c] = answered[b][c]
  BY <1>7, LoadSendElsewhere
<1>8. pos' \in [Process -> [CallID -> Nat]] /\ last' \in [Process -> [CallID -> Message \cup {None}]]
  BY <1>1, <1>4, <1>5
<1>9. answered' \in [Process -> [CallID -> (Message \X Nat) \cup {None}]]
  <2>1. last[a][d] # None => << last[a][d], pos[a][d] >> \in (Message \X Nat) \cup {None}
    BY <1>1, <1>5
  <2> QED
    BY <1>4, <1>5, <2>1
<1>10. \A b \in Process, c \in CallID : pos'[b][c] <= Len(Script(b, c)) + 1
  <2>1. \A b \in Process, c \in CallID : Len(Script(b, c)) \in Nat
    BY ScriptIsTyped
  <2>2. ASSUME NEW b \in Process, NEW c \in CallID PROVE pos'[b][c] <= Len(Script(b, c)) + 1
    <3>1. CASE b = a /\ c = d
      BY <1>1, <1>2, <1>6, <2>1, <3>1
    <3>2. CASE ~ (b = a /\ c = d)
      BY <1>1, <1>7, <3>2 DEF TypeOK
    <3> QED
      BY <3>1, <3>2
  <2> QED
    BY <2>2
<1>11. TypeOK'
  BY <1>1, <1>3, <1>8, <1>10 DEF TypeOK, ServerTypeOK, SessionsTypeOK, Arrival
<1> QED
  BY <1>2, <1>3, <1>6, <1>7, <1>8, <1>9, <1>11 DEF MemoryOK

\* What other calls send leaves a call as it is.
LEMMA OtherLoadSend ==
  ASSUME MemoryOK, NEW c \in CallID, LoadCallInv(c), NEW a \in Process, NEW d \in CallID, d # c, LoadSend(a, d)
  PROVE  LoadCallInv(c)'
<1>1. PICK n \in Message : n = Line(a, d).msg /\ n.callID = d
  BY LoadSendIs
<1>2. /\ ToProxy(a, n) /\ mailbox' = mailbox /\ m_sessions' = m_sessions
      /\ \A b \in Process : pos'[b][c] = pos[b][c] /\ last'[b][c] = last[b][c] /\ answered'[b][c] = answered[b][c]
  <2>1. ToProxy(a, n) /\ mailbox' = mailbox /\ m_sessions' = m_sessions
    BY <1>1, LoadSendIs
  <2>2. ASSUME NEW b \in Process
        PROVE  pos'[b][c] = pos[b][c] /\ last'[b][c] = last[b][c] /\ answered'[b][c] = answered[b][c]
    BY LoadSendElsewhere
  <2> QED
    BY <2>1, <2>2
<1>3. \A b \in Process : \A k : k \in InInbox(b, c)' => k \in InInbox(b, c)
  BY <1>1, <1>2, ToProxyIs DEF MemoryOK
<1>4. \A b \in Process : InMailbox(b, c)' = InMailbox(b, c)
  BY <1>2 DEF InMailbox
<1> QED
  BY <1>2, <1>3, <1>4, CallStays, PeerIs

\* With the line a process sends it remembers what the line answers.
LEMMA OwnLoadSend ==
  ASSUME MemoryOK, NEW c \in CallID, LoadCallInv(c), NEW a \in Process, LoadSend(a, c)
  PROVE  LoadCallInv(c)'
<1>1. PosInv(c) /\ SentInv(c) /\ CallerMemory(c) /\ CalleeMemory(c) /\ SessionInv(c) /\ KeptInv(c)
  BY DEF LoadCallInv
<1>2. PICK n \in Message : n = Line(a, c).msg /\ n.callID = c
  BY LoadSendIs
<1>3. /\ Sending(a, c) /\ ToProxy(a, n) /\ mailbox' = mailbox /\ m_sessions' = m_sessions
      /\ pos'[a][c] = pos[a][c] + 1 /\ last'[a][c] = None
      /\ answered'[a][c] = IF last[a][c] = None THEN answered[a][c] ELSE << last[a][c], pos[a][c] >>
  BY <1>2, LoadSendIs
<1>4. /\ pos'[Peer(a)][c] = pos[Peer(a)][c] /\ last'[Peer(a)][c] = last[Peer(a)][c]
      /\ answered'[Peer(a)][c] = answered[Peer(a)][c]
  <2>1. PICK b \in Process : b = Peer(a) /\ b # a
    BY PeerIs
  <2>2. pos'[b][c] = pos[b][c] /\ last'[b][c] = last[b][c] /\ answered'[b][c] = answered[b][c]
    BY <2>1, LoadSendElsewhere
  <2> QED
    BY <2>1, <2>2
<1> DEFINE p == pos[Caller][c]
           q == pos[Target][c]
<1>5. /\ n \in SaidBy(a, c)
      /\ \/ a = Caller /\ p = 1 /\ n = Req(c, "INVITE")
         \/ a = Caller /\ p = 5 /\ n = Req(c, "ACK")
         \/ a = Caller /\ p = 6 /\ n = Req(c, "BYE")
         \/ a = Target /\ q = 2 /\ n = Resp(c, "180", "INVITE")
         \/ a = Target /\ q = 3 /\ n = Resp(c, "200", "INVITE")
         \/ a = Target /\ q = 6 /\ n = Resp(c, "200", "BYE")
  BY <1>1, <1>2, <1>3, AllBasic, SaysIs, PeerIs
<1>6. /\ a = Caller => pos'[Caller][c] = p + 1 /\ pos'[Target][c] = q
      /\ a = Target => pos'[Caller][c] = p /\ pos'[Target][c] = q + 1
  BY <1>3, <1>4, PeerIs
<1>7. PosInv(c)'
  BY <1>1, <1>5, <1>6 DEF PosInv
<1>8. ASSUME NEW m, m.callID = c, WasSent(m) PROVE WasSent(m)'
  BY <1>1, <1>5, <1>6, <1>8 DEF WasSent, PosInv
<1>9. WasSent(n)'
  <2>1. /\ a = Caller => ~ IsResponse(n)
        /\ a = Target => IsResponse(n)
    BY <1>5, SaidIs, RanksTell, PeerIs
  <2>2. /\ p = 1 /\ a = Caller => Rank(n) = 1
        /\ p = 5 /\ a = Caller => Rank(n) = 4
        /\ p = 6 /\ a = Caller => Rank(n) = 5
        /\ q = 2 /\ a = Target => Rank(n) = 3
        /\ q = 3 /\ a = Target => Rank(n) = 4
        /\ q = 6 /\ a = Target => Rank(n) = 7
    BY <1>5, RanksAre, PeerIs
  <2>3. \/ a = Caller /\ p \in {1, 5, 6}
        \/ a = Target /\ q \in {2, 3, 6}
    BY <1>5
  <2> HIDE DEF p, q
  <2>4. WasSent(n)' = LET p1 == pos'[Caller][c]
                          q1 == pos'[Target][c]
                      IN  IF IsResponse(n)
                          THEN /\ Rank(n) = 2 => p1 >= 2
                               /\ Rank(n) = 3 => q1 >= 3
                               /\ Rank(n) = 4 => q1 >= 4
                               /\ Rank(n) = 7 => q1 >= 7
                          ELSE /\ Rank(n) = 1 => p1 >= 2
                               /\ Rank(n) = 4 => p1 >= 6
                               /\ Rank(n) = 5 => p1 >= 7
    BY <1>2 DEF WasSent
  <2> QED
    BY <1>6, <2>1, <2>2, <2>3, <2>4, PeerIs
<1>10. \A b \in Process : InMailbox(b, c)' = InMailbox(b, c)
  BY <1>3 DEF InMailbox
<1>11. SentInv(c)'
  <2>1. ASSUME NEW b \in Process, NEW m \in InMailbox(b, c) PROVE m \in ExpectedBy(b, c) /\ WasSent(m)'
    <3>1. m.callID = c
      BY <2>1 DEF InMailbox
    <3> QED
      BY <1>1, <1>8, <2>1, <3>1 DEF SentInv
  <2>2. ASSUME NEW b \in Process, NEW m \in InInbox(b, c)' PROVE m \in SaidBy(b, c) /\ WasSent(m)'
    <3>1. m \in InInbox(b, c) \/ (m = n /\ b = a)
      BY <1>3, <2>2, ToProxyIs DEF MemoryOK
    <3>2. CASE m \in InInbox(b, c)
      <4>1. m \in SaidBy(b, c) /\ WasSent(m) /\ m.callID = c
        BY <1>1, <3>2 DEF SentInv, InInbox
      <4> QED
        BY <1>8, <4>1
    <3> QED
      BY <1>5, <1>9, <3>1, <3>2
  <2> QED
    BY <1>10, <2>1, <2>2 DEF SentInv
<1>12. CallerMemory(c)'
  <2>1. CASE a = Caller
    <3>1. Resp(c, "200", "INVITE") # None
      BY RespIsMessage, NoneIsNothing DEF Code, Method
    <3>2. p \in {1, 5, 6}
      BY <1>5, <2>1, PeerIs
    <3> QED
      BY <1>1, <1>3, <1>6, <2>1, <3>1, <3>2 DEF CallerMemory
  <2>2. CASE a = Target
    BY <1>1, <1>4, <1>6, <2>2, PeerIs DEF CallerMemory
  <2> QED
    BY <2>1, <2>2, PeerIs
<1>13. CalleeMemory(c)'
  <2>1. CASE a = Target
    <3>1. Req(c, "INVITE") # None /\ Req(c, "BYE") # None
      BY ReqIsMessage, NoneIsNothing DEF Method
    <3>2. q \in {2, 3, 6}
      BY <1>5, <2>1, PeerIs
    <3> QED
      BY <1>1, <1>3, <1>6, <2>1, <3>1, <3>2 DEF CalleeMemory
  <2>2. CASE a = Caller
    BY <1>1, <1>4, <1>6, <2>2, PeerIs DEF CalleeMemory
  <2> QED
    BY <2>1, <2>2, PeerIs
<1>14. SessionInv(c)'
  BY <1>1, <1>3 DEF SessionInv, hasSession
<1>15. KeptInv(c)'
  <2>1. q > 1 <=> pos'[Target][c] > 1
    BY <1>1, <1>5, <1>6 DEF PosInv
  <2>2. p = 8 => pos'[Caller][c] = 8
    BY <1>5, <1>6
  <2> QED
    BY <1>1, <1>3, <1>10, <2>1, <2>2, PeerIs DEF KeptInv, hasSession
<1> QED
  BY <1>7, <1>11, <1>12, <1>13, <1>14, <1>15 DEF LoadCallInv

-------------------------------------------------------------------------------
(* Receiving. *)

LEMMA LoadReceiveIs ==
  ASSUME MemoryOK, NEW a \in Process, LoadReceive(a)
  PROVE  LET n == Head(mailbox[a]) IN
         /\ n \in Message /\ n.callID \in CallID /\ mailbox[a] # <<>>
         /\ ~ Sending(a, n.callID) /\ ~ Late(a, n)
         /\ answered[a][n.callID] # None => answered[a][n.callID][1] # n
         /\ pos' = [pos EXCEPT ![a][n.callID] = PosAfter(a, n)]
         /\ last' = [last EXCEPT ![a][n.callID] = n]
         /\ answered' = answered /\ m_sessions' = m_sessions /\ inbox' = inbox
         /\ mailbox' = [mailbox EXCEPT ![a] = Tail(mailbox[a])]
<1>1. TypeOK /\ ScriptReceive(a)
  BY DEF MemoryOK, LoadReceive
<1>2. PICK n \in Message : n = Head(mailbox[a])
  BY <1>1, ReceiveIs
<1>3. /\ n.callID \in CallID /\ mailbox[a] # <<>> /\ ~ Sending(a, n.callID)
      /\ pos' = [pos EXCEPT ![a][n.callID] = PosAfter(a, n)]
      /\ m_sessions' = m_sessions /\ inbox' = inbox
      /\ mailbox' = [mailbox EXCEPT ![a] = Tail(mailbox[a])]
  BY <1>1, <1>2, ReceiveIs, MessageIsTyped
<1>4. /\ ~ Late(a, n) /\ last' = [last EXCEPT ![a][n.callID] = n] /\ answered' = answered
      /\ answered[a][n.callID] # None => answered[a][n.callID][1] # n
  BY <1>2 DEF LoadReceive
<1> QED
  BY <1>2, <1>3, <1>4

LEMMA OtherLoadReceive ==
  ASSUME MemoryOK, NEW c \in CallID, LoadCallInv(c), NEW a \in Process, LoadReceive(a),
         Head(mailbox[a]).callID # c
  PROVE  LoadCallInv(c)'
<1>1. PICK n \in Message : n = Head(mailbox[a])
  BY LoadReceiveIs
<1>2. /\ n.callID # c /\ n.callID \in CallID /\ mailbox[a] # <<>>
      /\ pos' = [pos EXCEPT ![a][n.callID] = PosAfter(a, n)]
      /\ last' = [last EXCEPT ![a][n.callID] = n]
      /\ answered' = answered /\ m_sessions' = m_sessions /\ inbox' = inbox
      /\ mailbox' = [mailbox EXCEPT ![a] = Tail(mailbox[a])]
  BY <1>1, LoadReceiveIs
<1>3. TypeOK /\ last \in [Process -> [CallID -> Message \cup {None}]]
  BY DEF MemoryOK
<1>4. \A b \in Process : pos'[b][c] = pos[b][c] /\ last'[b][c] = last[b][c] /\ answered'[b][c] = answered[b][c]
  BY <1>2, <1>3 DEF TypeOK
<1>5. /\ \A b \in Process : \A e : InMailbox(b, e)' \subseteq InMailbox(b, e)
      /\ \A b \in Process : \A e, k : k \in InMailbox(b, e) => k \in InMailbox(b, e)' \/ (b = a /\ k = n)
  BY <1>1, <1>2, <1>3, TakesOne
<1>6. ASSUME Resp(c, "200", "BYE") \in InMailbox(Caller, c) PROVE Resp(c, "200", "BYE") \in InMailbox(Caller, c)'
  <2>1. Resp(c, "200", "BYE").callID = c
    BY DEF Resp
  <2> QED
    BY <1>2, <1>5, <1>6, <2>1, PeerIs
<1>7. \A b \in Process : InInbox(b, c)' = InInbox(b, c)
  BY <1>2 DEF InInbox
<1> QED
  BY <1>2, <1>4, <1>5, <1>6, <1>7, CallStays, PeerIs

\* What a process takes is not for a line it has passed: a message it has answered is
\* answered again, and an optional one it has passed is dropped.
LEMMA TakenIsAhead ==
  ASSUME NEW c \in CallID, LoadCallInv(c), NEW a \in Process, NEW n \in ExpectedBy(a, c), WasSent(n),
         Playing(a, c), ~ Sending(a, c), ~ Late(a, n),
         answered[a][c] # None => answered[a][c][1] # n
  PROVE  pos[a][c] <= Rank(n)
<1>1. PosInv(c) /\ CallerMemory(c) /\ CalleeMemory(c) /\ n.callID = c
  BY ExpectedIs DEF LoadCallInv
<1>2. \A m, i : << m, i >> # None /\ << m, i >>[1] = m
  BY NoneIsNothing
<1>3. CASE a = Caller
  <2>1. pos[Caller][c] \in {2, 3, 4, 7} /\ IsResponse(n) /\ Rank(n) \in {2, 3, 4, 7}
    BY <1>1, <1>3, AllBasic, PlayingIs, RanksTell
  <2>2. ASSUME NEW i \in {2, 3}, i < pos[Caller][c] PROVE Rank(n) # i
    <3>1. SUFFICES ASSUME Rank(n) = i PROVE Late(a, n)
      OBVIOUS
    <3>2. n.line = {uac(c)[i].what} /\ uac(c)[i].op = "maybe"
      BY <1>3, <3>1, ExpectedIs, OpsAre
    <3>3. Script(Caller, c)[i].op = "maybe" /\ Matches(n, Script(Caller, c)[i].what)
      BY <2>1, <3>2, AllBasic, BasicScripts DEF Matches
    <3>4. i \in 1 .. pos[Caller][c] - 1
      BY <2>1, <2>2
    <3> QED
      BY <1>1, <1>3, <3>3, <3>4 DEF Late
  <2>3. pos[Caller][c] = 7 => Rank(n) # 4
    <3>1. SUFFICES ASSUME pos[Caller][c] = 7 PROVE n # Resp(c, "200", "INVITE")
      BY <1>3, RanksTell
    <3>2. answered[Caller][c] = << Resp(c, "200", "INVITE"), 5 >>
      BY <1>1, <3>1 DEF CallerMemory
    <3> QED
      BY <1>2, <1>3, <3>2
  <2> QED
    BY <1>3, <2>1, <2>2, <2>3
<1>4. CASE a = Target
  <2>1. pos[Target][c] \in {1, 4, 5} /\ ~ IsResponse(n) /\ Rank(n) \in {1, 4, 5}
    BY <1>1, <1>4, AllBasic, PlayingIs, RanksTell
  <2>2. pos[Target][c] = 5 => Rank(n) # 4
    <3>1. SUFFICES ASSUME pos[Target][c] = 5, Rank(n) = 4 PROVE Late(a, n)
      OBVIOUS
    <3>2. n.method = uas(c)[4].what /\ uas(c)[4].op = "maybe"
      BY <1>4, <3>1, ExpectedIs, OpsAre
    <3>3. Script(Target, c)[4].op = "maybe" /\ Matches(n, Script(Target, c)[4].what)
      BY <2>1, <3>2, AllBasic, BasicScripts DEF Matches
    <3> QED
      BY <1>1, <1>4, <3>1, <3>3 DEF Late
  <2>3. pos[Target][c] \in {4, 5} => Rank(n) # 1
    BY <1>1, <1>2, <1>4, RanksTell DEF CalleeMemory
  <2> QED
    BY <1>4, <2>1, <2>2, <2>3
<1> QED
  BY <1>3, <1>4, PeerIs

LEMMA OwnLoadReceive ==
  ASSUME MemoryOK, NEW c \in CallID, LoadCallInv(c), NEW a \in Process, LoadReceive(a),
         Head(mailbox[a]).callID = c
  PROVE  LoadCallInv(c)'
<1>1. PosInv(c) /\ SentInv(c) /\ CallerMemory(c) /\ CalleeMemory(c) /\ SessionInv(c) /\ KeptInv(c)
  BY DEF LoadCallInv
<1>2. PICK n \in Message : n = Head(mailbox[a]) /\ n.callID = c
  BY LoadReceiveIs
<1>3. /\ mailbox[a] # <<>> /\ ~ Sending(a, c) /\ ~ Late(a, n)
      /\ answered[a][c] # None => answered[a][c][1] # n
      /\ pos' = [pos EXCEPT ![a][c] = PosAfter(a, n)]
      /\ last' = [last EXCEPT ![a][c] = n]
      /\ answered' = answered /\ m_sessions' = m_sessions /\ inbox' = inbox
      /\ mailbox' = [mailbox EXCEPT ![a] = Tail(mailbox[a])]
  BY <1>2, LoadReceiveIs
<1>4. TypeOK /\ last \in [Process -> [CallID -> Message \cup {None}]]
  BY DEF MemoryOK
<1>5. /\ \A b \in Process : \A e : InMailbox(b, e)' \subseteq InMailbox(b, e)
      /\ \A b \in Process : \A e, k : k \in InMailbox(b, e) => k \in InMailbox(b, e)' \/ (b = a /\ k = n)
      /\ n \in InMailbox(a, c)
  BY <1>2, <1>3, <1>4, TakesOne
<1>6. n \in ExpectedBy(a, c) /\ WasSent(n)
  BY <1>1, <1>5 DEF SentInv
<1>7. \A b \in Process : InInbox(b, c)' = InInbox(b, c)
  BY <1>3 DEF InInbox
<1>8. /\ pos'[a][c] = PosAfter(a, n) /\ last'[a][c] = n
      /\ \A b \in Process : b # a => pos'[b][c] = pos[b][c] /\ last'[b][c] = last[b][c]
  BY <1>3, <1>4 DEF TypeOK
\* The process is at the end of its script.
<1>9. CASE ~ Playing(a, c)
  <2>1. pos'[a][c] = pos[a][c]
    BY <1>2, <1>8, <1>9 DEF PosAfter
  <2>2. (a = Caller /\ pos[Caller][c] = 8) \/ (a = Target /\ pos[Target][c] = 7)
    BY <1>1, <1>9, AllBasic, PlayingIs, PeerIs DEF PosInv
  <2>3. Resp(c, "200", "BYE") \in InMailbox(Caller, c) =>
          Resp(c, "200", "BYE") \in InMailbox(Caller, c)' \/ pos[Caller][c] = 8
    BY <1>5, <2>2, PeerIs
  <2>4. /\ \A b \in Process : /\ pos'[b][c] = pos[b][c]
                              /\ last'[b][c] = last[b][c] \/ pos[b][c] \in {4, 5, 7, 8}
                              /\ answered'[b][c] = answered[b][c]
        /\ last'[Caller][c] = last[Caller][c] \/ pos[Caller][c] # 5
    BY <1>3, <1>8, <2>1, <2>2, PeerIs
  <2> QED
    BY <1>3, <1>5, <1>7, <2>3, <2>4, CallStays
\* The message takes it to the line behind the one it is for.
<1>10. CASE Playing(a, c)
  <2>1. pos[a][c] <= Rank(n)
    BY <1>3, <1>6, <1>10, TakenIsAhead
  <2>2. pos'[a][c] = Rank(n) + 1
    BY <1>1, <1>3, <1>4, <1>6, <1>8, <2>1, AllBasic, ReceiveAdvances
  <2> DEFINE p == pos[Caller][c]
             q == pos[Target][c]
  <2>3. \/ /\ a = Caller /\ IsResponse(n) /\ Rank(n) \in {2, 3, 4, 7} /\ p \in {2, 3, 4, 7} /\ p <= Rank(n)
           /\ pos'[Caller][c] = Rank(n) + 1 /\ pos'[Target][c] = q
           /\ last'[Caller][c] = n /\ last'[Target][c] = last[Target][c]
        \/ /\ a = Target /\ ~ IsResponse(n) /\ Rank(n) \in {1, 4, 5} /\ q \in {1, 4, 5} /\ q <= Rank(n)
           /\ pos'[Caller][c] = p /\ pos'[Target][c] = Rank(n) + 1
           /\ last'[Target][c] = n /\ last'[Caller][c] = last[Caller][c]
    <3>1. CASE a = Caller
      <4>1. p \in {2, 3, 4, 7} /\ IsResponse(n) /\ Rank(n) \in {2, 3, 4, 7}
        BY <1>1, <1>3, <1>6, <1>10, <3>1, AllBasic, PlayingIs, RanksTell
      <4> QED
        BY <1>8, <2>1, <2>2, <3>1, <4>1, PeerIs
    <3>2. CASE a = Target
      <4>1. q \in {1, 4, 5} /\ ~ IsResponse(n) /\ Rank(n) \in {1, 4, 5}
        BY <1>1, <1>3, <1>6, <1>10, <3>2, AllBasic, PlayingIs, RanksTell
      <4> QED
        BY <1>8, <2>1, <2>2, <3>2, <4>1, PeerIs
    <3> QED
      BY <3>1, <3>2, PeerIs
  <2>4. PosInv(c)'
    BY <1>1, <1>2, <1>6, <2>3 DEF PosInv, WasSent
  <2>5. ASSUME NEW m, m.callID = c, WasSent(m) PROVE WasSent(m)'
    BY <1>1, <2>3, <2>5 DEF WasSent, PosInv
  <2>6. SentInv(c)'
    <3>1. ASSUME NEW b \in Process, NEW m \in InMailbox(b, c) PROVE m \in ExpectedBy(b, c) /\ WasSent(m)'
      <4>1. m.callID = c
        BY <3>1 DEF InMailbox
      <4> QED
        BY <1>1, <2>5, <3>1, <4>1 DEF SentInv
    <3>2. ASSUME NEW b \in Process, NEW m \in InInbox(b, c) PROVE m \in SaidBy(b, c) /\ WasSent(m)'
      <4>1. m \in SaidBy(b, c) /\ WasSent(m) /\ m.callID = c
        BY <1>1, <3>2 DEF SentInv, InInbox
      <4> QED
        BY <2>5, <4>1
    <3> QED
      BY <1>5, <1>7, <3>1, <3>2 DEF SentInv
  <2>7. CallerMemory(c)'
    <3>1. a = Caller => (Rank(n) = 4 => n = Resp(c, "200", "INVITE")) /\ (Rank(n) = 7 => p = 7)
      BY <1>1, <1>2, <1>6, <2>3, RanksTell DEF WasSent, PosInv
    <3> QED
      BY <1>1, <1>3, <2>3, <3>1, PeerIs DEF CallerMemory
  <2>8. CalleeMemory(c)'
    <3>1. a = Target => /\ Rank(n) = 1 => n = Req(c, "INVITE") /\ q = 1
                        /\ Rank(n) = 5 => n = Req(c, "BYE")
                        /\ Rank(n) \in {4, 5} => q \in {4, 5}
      BY <1>1, <1>2, <1>6, <2>3, RanksTell DEF WasSent, PosInv
    <3> QED
      BY <1>1, <1>3, <2>3, <3>1, PeerIs DEF CalleeMemory
  <2>9. SessionInv(c)'
    BY <1>1, <1>3 DEF SessionInv, hasSession
  <2>10. KeptInv(c)'
    <3>1. SUFFICES ASSUME ~ hasSession(c), pos'[Target][c] > 1 \/ Req(c, "INVITE") \in InMailbox(Target, c)'
                   PROVE  pos'[Caller][c] = 8 \/ Resp(c, "200", "BYE") \in InMailbox(Caller, c)'
      BY <1>3 DEF KeptInv, hasSession
    <3>2. q > 1 \/ Req(c, "INVITE") \in InMailbox(Target, c)
      <4>1. a = Target /\ q = 1 => n = Req(c, "INVITE")
        BY <1>1, <1>2, <1>6, <2>3, RanksTell DEF WasSent, PosInv
      <4> QED
        BY <1>1, <1>5, <2>3, <3>1, <4>1, PeerIs DEF PosInv
    <3>3. p = 8 \/ Resp(c, "200", "BYE") \in InMailbox(Caller, c)
      BY <1>1, <3>1, <3>2 DEF KeptInv
    <3>4. a = Caller /\ n = Resp(c, "200", "BYE") => pos'[Caller][c] = 8
      BY <2>3, RanksAre
    <3> QED
      BY <1>5, <2>3, <3>3, <3>4, PeerIs
  <2> QED
    BY <2>4, <2>6, <2>7, <2>8, <2>9, <2>10 DEF LoadCallInv
<1> QED
  BY <1>9, <1>10

-------------------------------------------------------------------------------
(* A pass of the worker. *)

\* The datagram at the head of the inbox, when it is of call c.
LEMMA LoadHeadIs ==
  ASSUME MemoryOK, run, NEW c \in CallID, SentInv(c), Head(inbox).msg.callID = c
  PROVE  LET m == Head(inbox).msg
             b == Head(inbox).src
         IN  /\ b \in Process /\ b \in Addr /\ m \in Message
             /\ m \in SaidBy(b, c) /\ m \in ExpectedBy(Peer(b), c) /\ WasSent(m)
<1> DEFINE m == Head(inbox).msg
           b == Head(inbox).src
<1>1. inbox # <<>> /\ m \in Message /\ b \in Process /\ b \in Addr /\ inbox \in Seq(Arrival)
  BY RunStep DEF MemoryOK, TypeOK, Arrival
<1>2. Head(inbox) \in Range(inbox) /\ Head(inbox) \in Arrival
  BY <1>1, RangeOfTail
<1>3. Head(inbox) = [src |-> b, msg |-> m]
  BY <1>2 DEF Arrival
<1>4. m \in InInbox(b, c)
  BY <1>1, <1>2, <1>3 DEF InInbox
<1>5. m \in SaidBy(b, c) /\ WasSent(m)
  BY <1>1, <1>4 DEF SentInv
<1> QED
  BY <1>1, <1>5, SaidIs

\* What comes into a mailbox of the call: the forwarded message or the 100.
LEMMA LoadMail ==
  ASSUME MemoryOK, run, NEW c \in CallID, LoadCallInv(c), NEW a \in Process, NEW y \in InMailbox(a, c)'
  PROVE  \/ y \in InMailbox(a, c)
         \/ /\ Head(inbox).msg.callID = c
            /\ \/ y = Head(inbox).msg /\ a = Peer(Head(inbox).src)
               \/ y = Trying(c) /\ a = Caller /\ Head(inbox).msg = Req(c, "INVITE")
<1>1. TypeOK /\ SentInv(c) /\ SessionInv(c)
  BY DEF MemoryOK, LoadCallInv
<1>2. y \in Range(mailbox'[a]) /\ y.callID = c
  BY DEF InMailbox
<1>3. CASE y \in Range(mailbox[a])
  BY <1>2, <1>3 DEF InMailbox
<1>4. ASSUME NEW i \in {1, 2}, y \in Range(ForProcess(sent', i, a))
      PROVE  /\ Head(inbox).msg.callID = c
             /\ \/ y = Head(inbox).msg /\ a = Peer(Head(inbox).src)
                \/ y = Trying(c) /\ a = Caller /\ Head(inbox).msg = Req(c, "INVITE")
  <2>1. Head(inbox).msg.callID = c => Head(inbox).msg \in SaidBy(Head(inbox).src, c)
    BY <1>1, LoadHeadIs
  <2> QED
    BY <1>1, <1>2, <1>4, <2>1, AllBasic, Delivery
<1> QED
  BY <1>1, <1>2, <1>3, <1>4, RunMailbox

\* The session of a call is closed with its answer to the BYE on its way to the caller.
LEMMA LoadClose ==
  ASSUME MemoryOK, run, NEW c \in CallID, LoadCallInv(c), hasSession(c), ~ hasSession(c)'
  PROVE  Resp(c, "200", "BYE") \in InMailbox(Caller, c)'
<1> DEFINE m == Head(inbox).msg
           b == Head(inbox).src
<1>1. TypeOK /\ SentInv(c) /\ SessionInv(c) /\ ServerTypeOK
  BY DEF MemoryOK, TypeOK, LoadCallInv
<1>2. m \in Message /\ b \in Process /\ b \in Addr /\ processSipMessage(m, b) /\ SessionStep(m, b, c)
  BY <1>1, RunStep, TableStep
<1>3. m.callID = c /\ IsResponse(m) /\ EndsCall(m)
  BY <1>2, NoSessionAssumption DEF SessionStep, hasSession, CallSession
<1>4. m \in SaidBy(b, c)
  BY <1>1, <1>3, LoadHeadIs
<1>5. b = Target /\ m = Resp(c, "200", "BYE")
  <2>1. b # Caller
    BY <1>2, <1>3, <1>4, RanksTell, SaidIs, PeerIs
  <2>2. m \in {Resp(c, "180", "INVITE"), Resp(c, "200", "INVITE"), Resp(c, "200", "BYE")}
    BY <1>2, <1>4, <2>1, MessagesOfTheCall, PeerIs
  <2> QED
    BY <1>2, <1>3, <2>1, <2>2, PeerIs DEF EndsCall, Resp
<1>6. sent' = << To(Caller, m) >>
  <2>1. ~ IsRequest(m, "INVITE") /\ ~ IsRequest(m, "CANCEL")
    BY <1>3 DEF IsRequest, IsResponse
  <2>2. sent' = << To(OtherParty(getSession(c), b), m) >>
    BY <1>2, <1>3, <2>1 DEF processSipMessage, processInviteMessage, processAckMessage, processByeMessage,
       processCancelMessage, processRinging, processEndOfCall, processCancelOk, processOk,
       processOtherResponse, ForwardResponse, ignoreMessage, IsRequest, IsResponse
  <2>3. OtherParty(getSession(c), b) = Caller
    BY <1>1, <1>5, PeerIs DEF SessionInv, OtherParty, isCaller, getSession
  <2> QED
    BY <2>2, <2>3
<1>7. ForProcess(sent', 1, Caller) = << m >>
  BY <1>6 DEF ForProcess, To
<1>8. m \in Range(ForProcess(sent', 1, Caller))
  BY <1>7 DEF Range
<1>9. m \in Range(mailbox'[Caller])
  BY <1>1, <1>8, RunMailbox, PeerIs
<1> QED
  BY <1>3, <1>5, <1>9 DEF InMailbox

LEMMA LoadRunStep ==
  ASSUME MemoryOK, LoadRun, NEW c \in CallID, LoadCallInv(c)
  PROVE  LoadCallInv(c)'
<1> DEFINE m == Head(inbox).msg
           b == Head(inbox).src
<1>1. PosInv(c) /\ SentInv(c) /\ CallerMemory(c) /\ CalleeMemory(c) /\ SessionInv(c) /\ KeptInv(c)
  BY DEF LoadCallInv
<1>2. TypeOK /\ ServerTypeOK /\ run /\ pos' = pos /\ last' = last /\ answered' = answered /\ inbox' = Tail(inbox)
  BY DEF MemoryOK, TypeOK, LoadRun, run
<1>3. m \in Message /\ b \in Process /\ b \in Addr /\ processSipMessage(m, b) /\ SessionStep(m, b, c)
  BY <1>2, RunStep, TableStep
<1>4. \A n : n.callID = c /\ WasSent(n) => WasSent(n)'
  BY <1>2, SamePosition
<1>5. PosInv(c)' /\ CallerMemory(c)' /\ CalleeMemory(c)'
  BY <1>1, <1>2 DEF PosInv, CallerMemory, CalleeMemory
<1>6. SessionInv(c)'
  <2>1. m.callID = c /\ IsRequest(m, "INVITE") => b = Caller
    BY <1>1, <1>2, <1>3, LoadHeadIs, SaidIs
  <2> QED
    BY <1>1, <1>3, <2>1, NoSessionAssumption DEF SessionStep, SessionInv, hasSession
<1>7. SentInv(c)'
  <2>1. ASSUME NEW a \in Process, NEW n \in InInbox(a, c)' PROVE n \in SaidBy(a, c) /\ WasSent(n)'
    <3>1. inbox # <<>> /\ inbox \in Seq(Arrival)
      BY <1>2, RunStep DEF TypeOK, Arrival
    <3>2. Range(inbox') \subseteq Range(inbox)
      BY <1>2, <3>1, RangeOfTail
    <3>3. n \in InInbox(a, c) /\ n.callID = c
      BY <2>1, <3>2 DEF InInbox
    <3> QED
      BY <1>1, <1>4, <3>3 DEF SentInv
  <2>2. ASSUME NEW a \in Process, NEW n \in InMailbox(a, c)' PROVE n \in ExpectedBy(a, c) /\ WasSent(n)'
    <3>1. n.callID = c
      BY <2>2 DEF InMailbox
    <3>2. n \in ExpectedBy(a, c) /\ WasSent(n)
      <4>1. CASE n \in InMailbox(a, c)
        BY <1>1, <4>1 DEF SentInv
      <4>2. CASE m.callID = c /\ n = m /\ a = Peer(b)
        BY <1>1, <1>2, <4>2, LoadHeadIs
      <4>3. CASE m.callID = c /\ n = Trying(c) /\ a = Caller /\ m = Req(c, "INVITE")
        <5>1. WasSent(m) /\ ~ IsResponse(m) /\ Rank(m) = 1
          <6>1. WasSent(m)
            BY <1>1, <1>2, <4>3, LoadHeadIs
          <6>2. ~ IsResponse(Req(c, "INVITE")) /\ Rank(Req(c, "INVITE")) = 1
            BY RanksAre DEF Req, IsResponse
          <6> QED
            BY <4>3, <6>1, <6>2
        <5>2. pos[Caller][c] >= 2
          BY <4>3, <5>1 DEF WasSent
        <5>3. n \in ExpectedBy(a, c) /\ IsResponse(n) /\ Rank(n) = 2
          BY <4>3, MessagesOfTheCall, RanksAre DEF Trying, Resp, IsResponse
        <5> QED
          BY <3>1, <5>2, <5>3 DEF WasSent
      <4> QED
        BY <1>2, <2>2, <4>1, <4>2, <4>3, LoadMail
    <3> QED
      BY <1>4, <3>1, <3>2
  <2> QED
    BY <2>1, <2>2 DEF SentInv
<1>8. KeptInv(c)'
  <2>1. SUFFICES ASSUME ~ hasSession(c)',
                        pos[Target][c] > 1 \/ Req(c, "INVITE") \in InMailbox(Target, c)'
                 PROVE  pos[Caller][c] = 8 \/ Resp(c, "200", "BYE") \in InMailbox(Caller, c)'
    BY <1>2 DEF KeptInv
  <2>2. CASE hasSession(c)
    BY <1>2, <2>1, <2>2, LoadClose
  <2>3. CASE ~ hasSession(c)
    \* An INVITE that is let through opens the session.
    <3>1. Req(c, "INVITE") \in InMailbox(Target, c)' => Req(c, "INVITE") \in InMailbox(Target, c)
      <4>1. SUFFICES ASSUME Req(c, "INVITE") \in InMailbox(Target, c)', m = Req(c, "INVITE"), m.callID = c
                     PROVE  FALSE
        BY <1>2, LoadMail, PeerIs
      <4>2. m_sessions' = [m_sessions EXCEPT ![c] = [caller |-> b, target |-> Target, state |-> "INVITE_SENT"]]
        BY <1>3, <2>3, <4>1 DEF processSipMessage, processInviteMessage, addSession, processAckMessage,
           processByeMessage, processCancelMessage, processRinging, processEndOfCall, processCancelOk,
           processOk, processOtherResponse, ForwardResponse, ignoreMessage, IsRequest, IsResponse, Req
      <4>3. [caller |-> b, target |-> Target, state |-> "INVITE_SENT"] \in CallSession
        BY <1>3, TargetAssumption DEF CallSession, SessionState
      <4>4. m_sessions'[c] \in CallSession
        BY <1>2, <4>2, <4>3 DEF ServerTypeOK, SessionsTypeOK
      <4> QED
        BY <2>1, <4>4, NoSessionAssumption DEF hasSession
    <3>2. pos[Caller][c] = 8 \/ Resp(c, "200", "BYE") \in InMailbox(Caller, c)
      BY <1>1, <2>1, <2>3, <3>1 DEF KeptInv
    <3>3. InMailbox(Caller, c) \subseteq InMailbox(Caller, c)'
      BY <1>2, RunMailbox, PeerIs DEF InMailbox
    <3> QED
      BY <3>2, <3>3
  <2> QED
    BY <2>2, <2>3
<1> QED
  BY <1>5, <1>6, <1>7, <1>8 DEF LoadCallInv

-------------------------------------------------------------------------------
(* The invariant of the load test. *)

LEMMA MemoryStep ==
  ASSUME MemoryOK, \A c \in CallID : LoadCallInv(c), [LoadNext]_loadVars
  PROVE  MemoryOK'
<1>1. /\ TypeOK /\ Len(inbox) <= Capacity /\ Capacity \in Nat
      /\ last \in [Process -> [CallID -> Message \cup {None}]]
      /\ answered \in [Process -> [CallID -> (Message \X Nat) \cup {None}]]
  BY CapacityAssumption DEF MemoryOK
<1>2. CASE LoadRun
  <2>1. TypeOK' /\ last' = last /\ answered' = answered
    BY <1>1, <1>2, TypeStep DEF LoadRun, Next
  <2>2. Len(inbox') <= Capacity
    <3>1. inbox # <<>> /\ inbox \in Seq(Arrival) /\ inbox' = Tail(inbox)
      BY <1>1, <1>2 DEF LoadRun, run, TypeOK, Arrival
    <3>2. Len(inbox') = Len(inbox) - 1 /\ Len(inbox) \in Nat
      BY <3>1, HeadTailProperties, LenProperties
    <3> QED
      BY <1>1, <3>2
  <2> QED
    BY <1>1, <2>1, <2>2 DEF MemoryOK
<1>3. ASSUME NEW a \in Process, LoadReceive(a) PROVE MemoryOK'
  <2>1. TypeOK'
    BY <1>1, <1>3, TypeStep DEF LoadReceive, Next, ScriptStep
  <2>2. PICK n \in Message : n = Head(mailbox[a])
    BY <1>3, LoadReceiveIs
  <2>3. /\ n.callID \in CallID /\ last' = [last EXCEPT ![a][n.callID] = n]
        /\ answered' = answered /\ inbox' = inbox
    BY <1>3, <2>2, LoadReceiveIs
  <2>4. last' \in [Process -> [CallID -> Message \cup {None}]]
    BY <1>1, <2>3
  <2> QED
    BY <1>1, <2>1, <2>3, <2>4 DEF MemoryOK
<1>4. ASSUME NEW a \in Process, AnswerAgain(a) \/ DropLate(a) PROVE MemoryOK'
  BY <1>4, AnswerAgainStep, DropLateStep
<1>5. ASSUME NEW a \in Process, NEW d \in CallID, Retransmit(a, d) PROVE MemoryOK'
  BY <1>5, RetransmitStep
<1>6. ASSUME NEW a \in Process, NEW d \in CallID, LoadSend(a, d) PROVE MemoryOK'
  BY <1>6, LoadSendIs
<1>7. CASE UNCHANGED loadVars
  BY <1>1, <1>7 DEF loadVars, vars, serverVars, MemoryOK, TypeOK, ServerTypeOK, SessionsTypeOK
<1> QED
  BY <1>2, <1>3, <1>4, <1>5, <1>6, <1>7 DEF LoadNext, Play, LoadOver

LEMMA LoadCallStep ==
  ASSUME MemoryOK, \A c \in CallID : LoadCallInv(c), [LoadNext]_loadVars
  PROVE  \A c \in CallID : LoadCallInv(c)'
<1>1. CASE LoadRun
  BY <1>1, LoadRunStep
<1>2. ASSUME NEW a \in Process, LoadReceive(a) PROVE \A c \in CallID : LoadCallInv(c)'
  BY <1>2, OwnLoadReceive, OtherLoadReceive
<1>3. ASSUME NEW a \in Process, AnswerAgain(a) \/ DropLate(a) PROVE \A c \in CallID : LoadCallInv(c)'
  BY <1>3, AnswerAgainStep, DropLateStep
<1>4. ASSUME NEW a \in Process, NEW d \in CallID, Retransmit(a, d) PROVE \A c \in CallID : LoadCallInv(c)'
  BY <1>4, RetransmitStep
<1>5. ASSUME NEW a \in Process, NEW d \in CallID, LoadSend(a, d) PROVE \A c \in CallID : LoadCallInv(c)'
  BY <1>5, OwnLoadSend, OtherLoadSend
<1>6. CASE UNCHANGED loadVars
  <2>1. ASSUME NEW c \in CallID PROVE LoadCallInv(c)'
    <3>1. \A b \in Process : InMailbox(b, c)' = InMailbox(b, c) /\ InInbox(b, c)' = InInbox(b, c)
      BY <1>6 DEF loadVars, vars, InMailbox, InInbox
    <3>2. pos' = pos /\ last' = last /\ answered' = answered /\ m_sessions' = m_sessions
      BY <1>6 DEF loadVars, vars, serverVars
    <3> QED
      BY <3>1, <3>2, CallStays, PeerIs
  <2> QED
    BY <2>1
<1> QED
  BY <1>1, <1>2, <1>3, <1>4, <1>5, <1>6 DEF LoadNext, Play, LoadOver

LEMMA LoadStart ==
  ASSUME LoadInit
  PROVE  MemoryOK /\ \A c \in CallID : LoadCallInv(c)
<1>1. TypeOK
  <2>1. ASSUME NEW a \in Process, NEW c \in CallID PROVE Len(Script(a, c)) \in Nat
    BY ScriptIsTyped
  <2> QED
    BY <2>1 DEF LoadInit, Init, ServerInit, SessionsInit, TypeOK, ServerTypeOK, SessionsTypeOK
<1>2. MemoryOK
  BY <1>1, CapacityAssumption DEF LoadInit, Init, MemoryOK
<1>3. ASSUME NEW c \in CallID PROVE LoadCallInv(c)
  <2>1. /\ inbox = <<>> /\ \A a \in Process : mailbox[a] = <<>>
        /\ pos[Caller][c] = 1 /\ pos[Target][c] = 1 /\ ~ hasSession(c)
        /\ last[Caller][c] = None /\ last[Target][c] = None
        /\ answered[Caller][c] = None /\ answered[Target][c] = None
    BY PeerIs DEF LoadInit, Init, ServerInit, SessionsInit, hasSession
  <2>2. Range(<<>>) = {}
    BY DEF Range
  <2>3. \A a \in Process : InMailbox(a, c) = {} /\ InInbox(a, c) = {}
    BY <2>1, <2>2 DEF InMailbox, InInbox
  <2>4. PosInv(c) /\ CallerMemory(c) /\ CalleeMemory(c)
    BY <2>1 DEF PosInv, CallerMemory, CalleeMemory
  <2>5. SentInv(c) /\ SessionInv(c) /\ KeptInv(c)
    BY <2>1, <2>3, PeerIs DEF SentInv, SessionInv, KeptInv
  <2> QED
    BY <2>4, <2>5 DEF LoadCallInv
<1> QED
  BY <1>2, <1>3

LoadInv == MemoryOK /\ \A c \in CallID : LoadCallInv(c)

LEMMA LoadInvariance == LoadSpec => []LoadInv
<1>1. LoadInit => LoadInv
  BY LoadStart DEF LoadInv
<1>2. LoadInv /\ [LoadNext]_loadVars => LoadInv'
  BY MemoryStep, LoadCallStep DEF LoadInv
<1> QED
  BY <1>1, <1>2, PTL DEF LoadSpec

\* The socket never holds more than it can, and what a process remembers to have
\* answered is a line of its script that it has sent.
THEOREM LoadTyping == LoadSpec => []LoadTypeOK
<1>1. ASSUME LoadInv PROVE LoadTypeOK
  <2>1. MemoryOK /\ \A c \in CallID : LoadCallInv(c)
    BY <1>1 DEF LoadInv
  <2>2. ASSUME NEW a \in Process, NEW c \in CallID, answered[a][c] # None
        PROVE  /\ answered[a][c][1] \in Message
               /\ answered[a][c][2] \in 1 .. pos[a][c] - 1
               /\ Script(a, c)[answered[a][c][2]].op = "send"
    <3>1. Req(c, "INVITE") \in Message /\ Req(c, "BYE") \in Message /\ Resp(c, "200", "INVITE") \in Message
      BY ReqIsMessage, RespIsMessage DEF Method, Code
    <3>2. uac(c)[5].op = "send" /\ uas(c)[2].op = "send" /\ uas(c)[6].op = "send"
      BY OpsAre
    <3>3. Script(Caller, c) = uac(c) /\ Script(Target, c) = uas(c)
      BY AllBasic, BasicScripts
    <3>4. pos[Caller][c] \in 1 .. 8 /\ pos[Target][c] \in 1 .. 7
      BY <2>1 DEF LoadCallInv, PosInv
    <3>5. CASE a = Caller /\ pos[Caller][c] >= 6 /\ answered[a][c] = << Resp(c, "200", "INVITE"), 5 >>
      BY <3>1, <3>2, <3>3, <3>4, <3>5
    <3>6. CASE a = Target /\ pos[Target][c] \in 3 .. 6 /\ answered[a][c] = << Req(c, "INVITE"), 2 >>
      BY <3>1, <3>2, <3>3, <3>4, <3>6
    <3>7. CASE a = Target /\ pos[Target][c] = 7 /\ answered[a][c] = << Req(c, "BYE"), 6 >>
      BY <3>1, <3>2, <3>3, <3>4, <3>7
    <3> QED
      BY <2>1, <2>2, <3>5, <3>6, <3>7, AnsweredIs
  <2> QED
    BY <2>1, <2>2 DEF LoadTypeOK, MemoryOK
<1> QED
  BY <1>1, LoadInvariance, PTL

\* Whatever the socket loses and SIPp repeats, no process gets a message that its
\* script does not provide for.
THEOREM NothingUnexpectedUnderLoad == LoadSpec => []NothingUnexpected
<1>1. ASSUME LoadInv PROVE NothingUnexpected
  BY <1>1, PeerIs DEF LoadInv, LoadCallInv, PosInv, NothingUnexpected, GivenUp
<1> QED
  BY <1>1, LoadInvariance, PTL

\* The proxy forgets a call only when the answer to the BYE is at the caller's door,
\* whatever was lost and repeated before.
THEOREM SessionsOutliveCalls == LoadSpec => []SessionOutlivesCall
<1>1. ASSUME LoadInv PROVE SessionOutlivesCall
  <2>1. SUFFICES ASSUME NEW c \in CallID, pos[Target][c] > 1, ~ hasSession(c)
                 PROVE  \/ AtEnd(Caller, c)
                        \/ \E i \in DOMAIN mailbox[Caller] : mailbox[Caller][i] = Resp(c, "200", "BYE")
    BY DEF SessionOutlivesCall
  <2>2. pos[Caller][c] = 8 \/ Resp(c, "200", "BYE") \in InMailbox(Caller, c)
    BY <1>1, <2>1 DEF LoadInv, LoadCallInv, KeptInv
  <2>3. CASE pos[Caller][c] = 8
    <3>1. Len(Script(Caller, c)) = 7
      BY AllBasic, BasicScripts
    <3> QED
      BY <2>3, <3>1 DEF AtEnd
  <2>4. CASE Resp(c, "200", "BYE") \in InMailbox(Caller, c)
    <3>1. Resp(c, "200", "BYE") \in Range(mailbox[Caller])
      BY <2>4 DEF InMailbox
    <3>2. PICK i \in DOMAIN mailbox[Caller] : Resp(c, "200", "BYE") = mailbox[Caller][i]
      BY <3>1, RangeIs
    <3> QED
      BY <3>2
  <2> QED
    BY <2>2, <2>3, <2>4
<1> QED
  BY <1>1, LoadInvariance, PTL

===============================================================================
