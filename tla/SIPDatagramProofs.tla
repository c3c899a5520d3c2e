--------------------------- MODULE SIPDatagramProofs ---------------------------
(***************************************************************************)
(* The worker over text implements the worker over messages, for any set of *)
(* texts, so that what SIPServerProofs shows of messages holds of text too; *)
(* the answers it builds mean to a parser what the handlers meant; and what *)
(* a sender wrote means to the worker what the sender meant.                *)
(***************************************************************************)
EXTENDS SIPSender, SIPServerProofs, SIPParserProofs

\* The worker has a datagram in its hands or none.
RawTypeOK == raw \in Datagram \cup {<<>>}

LEMMA HeardIsTyped ==
  ASSUME NEW d \in Datagram
  PROVE  Heard[d] \in Message
BY DatagramAssumption

\* The pause is a step of the server over messages: it looks like a message for which
\* there is no handler.
LEMMA SleepIsIgnoring ==
  ASSUME RawTypeOK, sleep
  PROVE  ServerNext
<1>1. raw \in Datagram
  BY DEF RawTypeOK, sleep
<1>2. Heard[raw].callID \in CallID
  BY <1>1, HeardIsTyped, MessageIsTyped
<1> DEFINE m == Req(Heard[raw].callID, "OTHER")
<1>3. m \in Message
  BY <1>2 DEF Req, Message, Request, Method
<1>4. IsRequest(m, "OTHER")
  BY DEF Req, IsRequest
<1>5. ignoreMessage(m)
  BY <1>4 DEF ignoreMessage, sleep
<1>6. processSipMessage(m, Target)
  BY <1>5 DEF processSipMessage
<1> QED
  BY <1>3, <1>6, TargetAssumption DEF ServerNext

LEMMA RawStep ==
  ASSUME RawTypeOK, [RawNext]_rawVars
  PROVE  RawTypeOK' /\ [ServerNext]_serverVars
<1>1. CASE \E d \in Datagram, a \in Addr : receive(d, a)
  BY <1>1, HeardIsTyped DEF receive, RawTypeOK, ServerNext
<1>2. CASE sleep
  BY <1>2, SleepIsIgnoring DEF sleep, RawTypeOK
<1>3. CASE UNCHANGED rawVars
  BY <1>3 DEF rawVars, RawTypeOK
<1> QED
  BY <1>1, <1>2, <1>3 DEF RawNext

\* Whatever text arrives, the worker does what the handlers do with some message: the
\* buffer, the cut and the parser add nothing to what SIPServer allows.
THEOREM TextIsHandledAsMessages == RawSpec => ServerSpec
<1>1. RawInit => ServerInit /\ RawTypeOK
  BY DEF RawInit, RawTypeOK
<1>2. RawTypeOK /\ [RawNext]_rawVars => RawTypeOK' /\ [ServerNext]_serverVars
  BY RawStep
<1> QED
  BY <1>1, <1>2, PTL DEF RawSpec, ServerSpec

\* So the parties of a live call stay the same whatever text arrives.
THEOREM TextLeavesParties == RawSpec => PartiesFixed
BY TextIsHandledAsMessages, PartiesStayFixed

\* And what one text does it does to one call.
THEOREM TextTouchesOneCall == RawSpec => OneCallPerStep
BY TextIsHandledAsMessages, CallsDoNotInterfere

\* No text, cut or malformed, leaves anything in the table that is not a session.
THEOREM TextKeepsTableTyped == RawSpec => []ServerTypeOK
BY TextIsHandledAsMessages, ServerTyping

\* A session ends only with a text that ends its call and is passed on to a party of it.
THEOREM TextEndsByForwarding == RawSpec => ClosedByForwarding
BY TextIsHandledAsMessages, SessionsEndByForwarding

-------------------------------------------------------------------------------
(* The answers. *)

FieldName == {"Via", "From", "To", "Call-ID", "CSeq"}

\* The line of a header the answer copies.
FieldLine(s, name) == << name, ":", " " >> \o getHeader(s, name) \o << "\r" >>

LEMMA FieldLineIs ==
  ASSUME NEW s \in Text, NEW field \in FieldName
  PROVE  /\ FieldLine(s, field) \in Text /\ OneLine(FieldLine(s, field))
         /\ \A name : IsHeader(FieldLine(s, field), name) <=> name = field
         /\ trim(SubSeq(FieldLine(s, field), 3, Len(FieldLine(s, field)))) = getHeader(s, field)
<1> DEFINE h == getHeader(s, field)
           B == << Space >>
           E == << "\r" >>
           rest == B \o h \o E
<1>1. h \in Text /\ Trimmed(h) /\ OneLine(h)
  BY HeaderReturns
<1>2. field \in Token /\ field # "\n" /\ ":" \in Token /\ Space \in Token /\ "\r" \in Token
  BY SpaceIs, Zenon DEF FieldName, Token
<1>3. /\ B \in Text /\ OneLine(B) /\ \A k \in DOMAIN B : B[k] \in Blank
      /\ E \in Text /\ OneLine(E) /\ \A k \in DOMAIN E : E[k] \in Blank
  BY <1>2, SpaceIs DEF Text, OneLine
<1>4. FieldLine(s, field) = (<< field, ":", Space >> \o h) \o << "\r" >>
  BY Zenon DEF FieldLine, Space
<1>5. FieldLine(s, field) = << field, ":" >> \o rest
  <2>1. h \in Seq(Token)
    BY <1>1 DEF Text
  <2> HIDE DEF h
  <2> QED
    BY <1>2, <1>4, <2>1
<1> HIDE DEF h, B, E
<1>6. B \o h \in Text /\ OneLine(B \o h)
  BY <1>1, <1>3, ConcatIs, OneLineParts
<1>7. rest \in Text /\ OneLine(rest) /\ trim(rest) = h
  BY <1>1, <1>3, <1>6, ConcatIs, OneLineParts, TrimPadded
<1> HIDE DEF rest
<1> DEFINE L == << field, ":" >> \o rest
<1>8. /\ L \in Text /\ OneLine(L) /\ SubSeq(L, 3, Len(L)) = rest
      /\ \A x : IsHeader(L, x) <=> x = field
  BY <1>2, <1>7, HeaderLineIs
<1>9. FieldLine(s, field) = L
  BY <1>5
<1> HIDE DEF L
<1> QED
  BY <1>7, <1>8, <1>9 DEF h

\* A header copied behind finished lines is a finished line: it gives the header of
\* its name, where there was none, and no other.
LEMMA FieldAdded ==
  ASSUME NEW P \in Text, EndsLine(P), P # <<>>, NEW s \in Text, NEW field \in FieldName,
         NEW name, name # "\n"
  PROVE  LET Q == P \o Field(s, field) IN
         /\ Q \in Text /\ Q # <<>> /\ EndsLine(Q)
         /\ Line(Q, 1) = Line(P, 1)
         /\ HeaderLines(P, name) = {} /\ name # field => HeaderLines(Q, name) = {}
         /\ HeaderLines(P, name) = {} /\ name = field =>
              HeaderLines(Q, name) # {} /\ getHeader(Q, name) = getHeader(s, name)
         /\ HeaderLines(P, name) # {} =>
              HeaderLines(Q, name) # {} /\ getHeader(Q, name) = getHeader(P, name)
<1> DEFINE L == FieldLine(s, field)
           R == Field(s, field)
           h == getHeader(s, field)
<1>1. /\ L \in Text /\ OneLine(L) /\ \A x : IsHeader(L, x) <=> x = field
      /\ trim(SubSeq(L, 3, Len(L))) = h
  BY FieldLineIs
<1>2. h \in Seq(Token) /\ field \in Token /\ Space \in Token /\ ":" \in Token /\ "\r" \in Token /\ "\n" \in Token
  BY HeaderReturns, SpaceIs, Zenon DEF Text, FieldName, Token
<1>3. P \in Seq(Token)
  BY DEF Text
<1>4. R = (<< field, ":", Space >> \o h) \o << "\r", "\n" >>
  BY Zenon DEF Field, Space, CRLF
<1>5. L = (<< field, ":", Space >> \o h) \o << "\r" >>
  BY Zenon DEF FieldLine, Space
<1> HIDE DEF L, R, h
<1>6. R \in Text /\ R = L \o << "\n" >>
  BY <1>2, <1>4, <1>5 DEF Text
<1>7. P \o R = Then(P, L)
  <2>1. L \in Seq(Token)
    BY <1>1 DEF Text
  <2> QED
    BY <1>2, <1>3, <1>6, <2>1 DEF Then
<1>8. Then(P, L) \in Text /\ Then(P, L) # <<>> /\ EndsLine(Then(P, L))
  BY <1>1, ThenIs
<1>9. Line(P \o R, 1) = Line(P, 1)
  <2>1. 1 \in DOMAIN P
    BY LenProperties, EmptySeq DEF Text
  <2> QED
    BY <1>6, <2>1, LineKept
<1>10. HeaderLines(P, name) = {} =>
         /\ HeaderLines(Then(P, L), name) = IF name = field THEN {Len(P) + 1} ELSE {}
         /\ name = field => getHeader(Then(P, L), name) = h
  BY <1>1, HeaderFound
<1>11. HeaderLines(P, name) # {} =>
         HeaderLines(P \o R, name) # {} /\ getHeader(P \o R, name) = getHeader(P, name)
  BY <1>6, HeaderKept
<1> QED
  BY <1>7, <1>8, <1>9, <1>10, <1>11 DEF R, h

\* Status line, Call-ID and CSeq of an answer built from any text.
LEMMA AnswerIs ==
  ASSUME NEW s \in Text, NEW code \in {"100", "200"}, NEW reason \in {"Trying", "OK"}
  PROVE  LET A == AnswerText(s, code, reason) IN
         /\ getRequestLine(A) = << "SIP/2.0", Space, code, Space, reason >>
         /\ getCallID(A) = getCallID(s)
         /\ getCSeq(A) = getCSeq(s)
<1> DEFINE S  == << "SIP/2.0", Space, code, Space, reason >>
           L0 == S \o << "\r" >>
           A0 == S \o CRLF
           A1 == A0 \o Field(s, "Via")
           A2 == A1 \o Field(s, "From")
           A3 == A2 \o Field(s, "To")
           A4 == A3 \o Field(s, "Call-ID")
           A5 == A4 \o Field(s, "CSeq")
           CL == << "Content-Length", ":", Space, "0" >>
           R  == (CL \o CRLF) \o CRLF
           A  == AnswerText(s, code, reason)
<1>1. A = ((A5 \o CL) \o CRLF) \o CRLF
  BY Zenon DEF AnswerText, Space
<1>2. /\ "SIP/2.0" \in Token /\ Space \in Token /\ code \in Token /\ reason \in Token
      /\ "\r" \in Token /\ "\n" \in Token /\ "Content-Length" \in Token /\ ":" \in Token /\ "0" \in Token
  BY SpaceIs, Zenon DEF Token
<1>3. S \in Text /\ L0 \in Text /\ A0 \in Text /\ A0 = Then(<<>>, L0) /\ CL \in Text /\ R \in Text /\ CRLF \in Text
  BY <1>2 DEF Text, Then, CRLF
<1>4. OneLine(L0) /\ L0[1] = "SIP/2.0" /\ Trimmed(S)
  <2>1. << "\r" >> \in Text /\ Len(<< "\r" >>) = 1 /\ << "\r" >>[1] = "\r"
    BY <1>2 DEF Text
  <2>2. /\ Len(S) = 5 /\ S[1] = "SIP/2.0" /\ S[2] = Space /\ S[3] = code /\ S[4] = Space
        /\ S[5] = reason /\ reason \notin Blank
    BY SpaceIs
  <2> HIDE DEF S
  <2>3. /\ DOMAIN L0 = 1 .. Len(S) + Len(<< "\r" >>)
        /\ \A k \in 1 .. Len(S) : L0[k] = S[k]
        /\ \A k \in 1 .. Len(<< "\r" >>) : L0[Len(S) + k] = << "\r" >>[k]
    BY <1>3, <2>1, ConcatIs
  <2>4. DOMAIN L0 = 1 .. 6 /\ L0[6] = "\r" /\ \A k \in 1 .. 5 : L0[k] = S[k]
    BY <2>1, <2>2, <2>3
  <2> HIDE DEF L0
  <2>5. \A k \in 1 .. 6 : L0[k] # "\n"
    BY <2>2, <2>4, SpaceIs
  <2> QED
    BY <2>2, <2>4, <2>5, SpaceIs DEF OneLine, Trimmed
<1>5. trim(L0) = S
  <2>1. << "\r" >> \in Text
    BY <1>2 DEF Text
  <2>2. \A k \in DOMAIN << "\r" >> : << "\r" >>[k] \in Blank
    BY SpaceIs
  <2> HIDE DEF S
  <2> QED
    BY <1>3, <1>4, <2>1, <2>2, TrimBehind
<1> HIDE DEF L0, A0, S, R, CL, A
<1>6. A0 \in Text /\ A0 # <<>> /\ EndsLine(A0) /\ Line(A0, 1) = L0
  <2>1. PICK P \in Text : P = <<>> /\ Len(P) = 0 /\ EndsLine(P)
    BY EmptySeq DEF Text, EndsLine
  <2>2. A0 = Then(P, L0)
    BY <1>3, <2>1
  <2>3. Then(P, L0) # <<>> /\ EndsLine(Then(P, L0))
    BY <1>3, ThenIs
  <2>4. Line(Then(P, L0), Len(P) + 1) = L0
    BY <1>3, <1>4, <2>1, LineBehind
  <2> QED
    BY <1>3, <2>1, <2>2, <2>3, <2>4
<1>7. HeaderLines(A0, "Call-ID") = {} /\ HeaderLines(A0, "CSeq") = {}
  <2> SUFFICES ASSUME NEW name \in {"Call-ID", "CSeq"} PROVE HeaderLines(A0, name) = {}
    OBVIOUS
  <2>1. <<>> \in Text /\ EndsLine(<<>>) /\ HeaderLines(<<>>, name) = {}
    BY EmptySeq DEF Text, EndsLine, HeaderLines, LineStarts
  <2>2. ~ IsHeader(L0, name) /\ name # "\n"
    BY <1>4 DEF IsHeader
  <2> QED
    BY <1>3, <1>4, <2>1, <2>2, HeaderFound
<1>8. /\ "Via" \in FieldName /\ "From" \in FieldName /\ "To" \in FieldName
      /\ "Call-ID" \in FieldName /\ "CSeq" \in FieldName
  BY DEF FieldName
<1> USE <1>8
<1>9. /\ A1 \in Text /\ A1 # <<>> /\ EndsLine(A1) /\ Line(A1, 1) = L0
      /\ HeaderLines(A1, "Call-ID") = {} /\ HeaderLines(A1, "CSeq") = {}
  BY <1>6, <1>7, FieldAdded, SMTT(30)
<1> HIDE DEF A1
<1>10. /\ A2 \in Text /\ A2 # <<>> /\ EndsLine(A2) /\ Line(A2, 1) = L0
       /\ HeaderLines(A2, "Call-ID") = {} /\ HeaderLines(A2, "CSeq") = {}
  BY <1>9, FieldAdded, SMTT(30)
<1> HIDE DEF A2
<1>11. /\ A3 \in Text /\ A3 # <<>> /\ EndsLine(A3) /\ Line(A3, 1) = L0
       /\ HeaderLines(A3, "Call-ID") = {} /\ HeaderLines(A3, "CSeq") = {}
  BY <1>10, FieldAdded, SMTT(30)
<1> HIDE DEF A3
<1>12. /\ A4 \in Text /\ A4 # <<>> /\ EndsLine(A4) /\ Line(A4, 1) = L0
       /\ HeaderLines(A4, "Call-ID") # {} /\ HeaderLines(A4, "CSeq") = {}
       /\ getHeader(A4, "Call-ID") = getHeader(s, "Call-ID")
  BY <1>11, FieldAdded, SMTT(30)
<1> HIDE DEF A4
<1>13. /\ A5 \in Text /\ A5 # <<>> /\ EndsLine(A5) /\ Line(A5, 1) = L0
       /\ HeaderLines(A5, "Call-ID") # {} /\ HeaderLines(A5, "CSeq") # {}
       /\ getHeader(A5, "Call-ID") = getHeader(s, "Call-ID")
       /\ getHeader(A5, "CSeq") = getHeader(s, "CSeq")
  BY <1>12, FieldAdded, SMTT(30)
<1> HIDE DEF A5
<1>14. A = A5 \o R
  <2>1. A5 \in Seq(Token) /\ CL \in Seq(Token) /\ CRLF \in Seq(Token)
    BY <1>3, <1>13 DEF Text
  <2> QED
    BY <1>1, <2>1 DEF R
<1>15. 1 \in DOMAIN A5
  BY <1>13, LenProperties, EmptySeq DEF Text
<1>16. Line(A, 1) = L0
  BY <1>3, <1>13, <1>14, <1>15, LineKept
<1>17. getHeader(A, "Call-ID") = getHeader(s, "Call-ID") /\ getHeader(A, "CSeq") = getHeader(s, "CSeq")
  BY <1>3, <1>13, <1>14, HeaderKept
<1> QED
  BY <1>5, <1>16, <1>17 DEF getRequestLine, getCallID, getCSeq, A, S

\* What an answer means to a parser: a response with its code, in the call and to the
\* CSeq of the text it answers.
LEMMA AnswerMeans ==
  ASSUME NEW s \in Text, NEW code \in {"100", "200"}, NEW reason \in {"Trying", "OK"}
  PROVE  Parsed(AnswerText(s, code, reason)) =
           [kind |-> "response", callID |-> getCallID(s), cseq |-> CSeqOf(getCSeqMethod(s)),
            line |-> {code}]
<1> DEFINE A == AnswerText(s, code, reason)
           first == << "SIP/2.0", Space, code, Space, reason >>
<1>1. getRequestLine(A) = first /\ getCallID(A) = getCallID(s) /\ getCSeq(A) = getCSeq(s)
  BY AnswerIs
<1> HIDE DEF A
<1>2. getCSeqMethod(A) = getCSeqMethod(s)
  BY <1>1 DEF getCSeqMethod
<1>3. first # <<>> /\ first[1] = "SIP/2.0"
  OBVIOUS
<1>4. {c \in Code : \E i \in DOMAIN first : first[i] = c} = {code}
  <2>1. Space \notin Code /\ code \in Code /\ "SIP/2.0" \notin Code /\ reason \notin Code
    BY Zenon DEF Space, Code
  <2>2. DOMAIN first = 1 .. 5 /\ first[3] = code
    OBVIOUS
  <2>3. \A i \in 1 .. 5 : first[i] \in {"SIP/2.0", Space, code, reason}
    OBVIOUS
  <2> HIDE DEF first
  <2> QED
    BY <2>1, <2>2, <2>3
<1> HIDE DEF first
<1> QED
  BY <1>1, <1>2, <1>3, <1>4 DEF Parsed, A

\* What recvfrom and the C string leave of a datagram is text.
LEMMA ReceivedIsText ==
  ASSUME NEW d \in Datagram
  PROVE  Received(d) \in Text
<1> DEFINE ends == {i \in DOMAIN d : d[i] = "NUL" \/ i > Limit}
<1>1. d \in Text
  BY TextAssumption, SeqMonotonic DEF Text, Token
<1>2. Len(d) \in Nat /\ DOMAIN d = 1 .. Len(d)
  BY <1>1, LenProperties DEF Text
<1>3. CASE ends = {}
  BY <1>1, <1>3 DEF Received
<1>4. CASE ends # {}
  <2>1. ends \in SUBSET Nat
    BY <1>2
  <2>2. Min(ends) \in ends
    BY <1>4, <2>1, MinIs
  <2>3. PICK i \in 1 .. Len(d) : i = Min(ends)
    BY <1>2, <2>2
  <2>4. 1 \in 1 .. Len(d) + 1 /\ i - 1 \in 0 .. Len(d)
    BY <1>2
  <2>5. Received(d) = SubSeq(d, 1, i - 1)
    BY <1>4, <2>3 DEF Received
  <2> QED
    BY <1>1, <2>4, <2>5, PartIsText
<1> QED
  BY <1>3, <1>4

\* The answers to a request, as text, are the answers the handlers meant.
LEMMA TextMeans ==
  ASSUME NEW d \in Datagram, NEW m,
         \/ m = Heard[d]
         \/ Heard[d].kind = "request" /\ m \in {build100Trying(Heard[d]), build_200_OK(Heard[d])}
  PROVE  Parsed(TextOf(m, d)) = m
<1> DEFINE s == Received(d)
<1>1. Heard[d] = Parsed(s) /\ s \in Text
  BY ReceivedIsText DEF Heard
<1>2. CASE m = Heard[d]
  BY <1>1, <1>2 DEF TextOf
<1>3. CASE m # Heard[d]
  <2>1. Heard[d].callID = getCallID(s) /\ Heard[d].cseq = CSeqOf(getCSeqMethod(s))
    BY <1>1 DEF Parsed
  <2> HIDE DEF s
  <2>2. PICK code \in {"100", "200"}, reason \in {"Trying", "OK"} :
          /\ m = Resp(getCallID(s), code, CSeqOf(getCSeqMethod(s)))
          /\ TextOf(m, d) = AnswerText(s, code, reason)
    <3>1. CASE m = build100Trying(Heard[d])
      <4>1. m = Resp(getCallID(s), "100", CSeqOf(getCSeqMethod(s))) /\ m.line = {"100"}
        BY <2>1, <3>1 DEF build100Trying, Resp
      <4>2. TextOf(m, d) = AnswerText(s, "100", "Trying")
        BY <1>3, <4>1 DEF TextOf, s
      <4> QED
        BY <4>1, <4>2
    <3>2. CASE m = build_200_OK(Heard[d])
      <4>1. m = Resp(getCallID(s), "200", CSeqOf(getCSeqMethod(s))) /\ m.line # {"100"}
        BY <2>1, <3>2 DEF build_200_OK, Resp
      <4>2. TextOf(m, d) = AnswerText(s, "200", "OK")
        BY <1>3, <4>1 DEF TextOf, s
      <4> QED
        BY <4>1, <4>2
    <3> QED
      BY <1>3, <3>1, <3>2
  <2> QED
    BY <1>1, <2>2, AnswerMeans DEF Resp, s
<1> QED
  BY <1>2, <1>3

LEMMA ReceiveWritesWhatIsMeant ==
  ASSUME ServerTypeOK, NEW d \in Datagram, NEW a \in Addr, receive(d, a)
  PROVE  WireMeansSent'
<1> DEFINE m == Heard[d]
<1>1. m \in Message /\ processSipMessage(m, a)
  BY HeardIsTyped DEF receive
<1>2. SendStep(m, a)
  BY <1>1, SendsStep
<1>3. wire' = [i \in DOMAIN sent' |-> [dst |-> sent'[i].dst, text |-> TextOf(sent'[i].msg, d)]]
  BY DEF receive
<1>4. ASSUME NEW i \in DOMAIN sent' PROVE Parsed(TextOf(sent'[i].msg, d)) = sent'[i].msg
  <2>1. \/ sent'[i].msg = m
        \/ m.kind = "request" /\ sent'[i].msg \in {build100Trying(m), build_200_OK(m)}
    BY <1>2, <1>4 DEF SendStep, To, IsRequest
  <2> QED
    BY <2>1, TextMeans
<1> QED
  BY <1>3, <1>4 DEF WireMeansSent

\* Whatever datagrams arrive, of whatever length and however laid out, cut or malformed,
\* what the proxy puts on the wire is parsed as what its handlers meant to send.
THEOREM WireIsWhatWasMeant == RawSpec => []WireMeansSent
<1>1. RawInit => WireMeansSent
  BY DEF RawInit, ServerInit, WireMeansSent
<1>2. ServerTypeOK /\ WireMeansSent /\ [RawNext]_rawVars => WireMeansSent'
  <2> SUFFICES ASSUME ServerTypeOK, WireMeansSent, [RawNext]_rawVars PROVE WireMeansSent'
    OBVIOUS
  <2>1. CASE \E d \in Datagram, a \in Addr : receive(d, a)
    BY <2>1, ReceiveWritesWhatIsMeant
  <2>2. CASE sleep
    BY <2>2 DEF sleep, WireMeansSent
  <2>3. CASE UNCHANGED rawVars
    BY <2>3 DEF rawVars, serverVars, WireMeansSent
  <2> QED
    BY <2>1, <2>2, <2>3 DEF RawNext
<1> QED
  BY <1>1, <1>2, TextKeepsTableTyped, PTL DEF RawSpec
-------------------------------------------------------------------------------
\* A sender writes, the worker reads.

\* What is written down is text for the lemmas of SIPParserProofs.
LEMMA StringsAreText == Seq(STRING) \subseteq Text
BY SeqMonotonic DEF Text, Token

LEMMA PlainIs ==
  ASSUME NEW s, Plain(s)
  PROVE  s \in Text /\ Trimmed(s) /\ OneLine(s)
BY StringsAreText, TrimReturns DEF Plain, OneLine

LEMMA BlanksAre ==
  ASSUME NEW s \in Seq(Gap)
  PROVE  s \in Text /\ \A k \in DOMAIN s : s[k] \in Blank
<1>1. Gap \subseteq Blank /\ Gap \subseteq Token
  BY Zenon DEF Gap, Blank, Token
<1>2. s \in Seq(Blank) /\ s \in Seq(Token)
  BY <1>1, SeqMonotonic
<1>3. \A k \in DOMAIN s : s[k] \in Blank
  BY <1>2, ElementOfSeq, LenProperties
<1> QED
  BY <1>2, <1>3 DEF Text

LEMMA LayoutIs ==
  ASSUME NEW l \in Layout
  PROVE  /\ l.gap \in Text /\ \A k \in DOMAIN l.gap : l.gap[k] \in Blank
         /\ l.tail \in Text /\ \A k \in DOMAIN l.tail : l.tail[k] \in Blank
         /\ l.top \in Text /\ EndsLine(l.top) /\ l.between \in Text /\ EndsLine(l.between)
         /\ l.body \in Text
         /\ \E cr \in Text : /\ \A k \in DOMAIN cr : cr[k] \in Blank
                             /\ l.eol = cr \o << "\n" >>
<1>1. /\ l.gap \in Seq(Gap) /\ l.tail \in Seq(Gap)
      /\ Lines(l.top) /\ Lines(l.between) /\ l.body \in Seq(STRING)
      /\ l.eol \in {CRLF, << "\n" >>}
  BY LayoutAssumption
<1>2. /\ l.gap \in Text /\ \A k \in DOMAIN l.gap : l.gap[k] \in Blank
      /\ l.tail \in Text /\ \A k \in DOMAIN l.tail : l.tail[k] \in Blank
  BY <1>1, BlanksAre
<1>3. l.top \in Text /\ EndsLine(l.top) /\ l.between \in Text /\ EndsLine(l.between) /\ l.body \in Text
  BY <1>1, StringsAreText DEF Lines, EndsLine
<1>4. \E cr \in Text : (\A k \in DOMAIN cr : cr[k] \in Blank) /\ l.eol = cr \o << "\n" >>
  <2>1. CASE l.eol = CRLF
    <3>1. "\r" \in Token
      BY Zenon DEF Token
    <3>2. << "\r" >> \in Text /\ \A k \in DOMAIN << "\r" >> : << "\r" >>[k] \in Blank
      BY <3>1, SpaceIs DEF Text
    <3>3. CRLF = << "\r" >> \o << "\n" >>
      BY DEF CRLF
    <3> QED
      BY <2>1, <3>2, <3>3
  <2>2. CASE l.eol = << "\n" >>
    <3>1. <<>> \in Text /\ << "\n" >> = <<>> \o << "\n" >>
      BY EmptySeq DEF Text
    <3> QED
      BY <2>2, <3>1
  <2> QED
    BY <1>1, <2>1, <2>2
<1> QED
  BY <1>2, <1>3, <1>4

\* The words that name methods are told apart and are no blanks.
LEMMA NamesAre ==
  /\ \A method \in Method :
       /\ Name(method) \in Token /\ Name(method) \notin Blank
       /\ Name(method) # "SIP/2.0" /\ Name(method) # "\n"
       /\ MethodOf(<< Name(method) >>) = method /\ CSeqOf(<< Name(method) >>) = method
  /\ "1" \in Token /\ "1" \notin Blank /\ " " \in Blank
<1>1. \A method \in Method : Name(method) \in {"INVITE", "ACK", "BYE", "CANCEL", "OPTIONS"}
  BY DEF Method, Name
<1>2. \A x \in {"INVITE", "ACK", "BYE", "CANCEL", "OPTIONS", "1"} :
        x \in Token /\ x \notin Blank /\ x # "SIP/2.0" /\ x # "\n"
  BY Zenon DEF Token, Blank
<1>3. " " \in Blank
  BY Zenon DEF Blank
<1>4. ASSUME NEW method \in Method PROVE MethodOf(<< Name(method) >>) = method
  <2>1. CASE method = "OTHER"
    BY <2>1 DEF MethodOf, Name, Method
  <2>2. CASE method # "OTHER"
    BY <2>2 DEF MethodOf, Name, Method
  <2> QED
    BY <2>1, <2>2
<1>5. ASSUME NEW method \in Method PROVE CSeqOf(<< Name(method) >>) = method
  <2> DEFINE w == << Name(method) >>
  <2>1. DOMAIN w = {1} /\ w[1] = Name(method)
    OBVIOUS
  <2>2. MethodOf(w) = method
    BY <1>4
  <2> HIDE DEF w
  <2>3. (\E i \in DOMAIN w : w[i] = "BYE") <=> method = "BYE"
    BY <2>1 DEF Method, Name
  <2>4. (\E i \in DOMAIN w : w[i] = "CANCEL") <=> method = "CANCEL"
    BY <2>1 DEF Method, Name
  <2> QED
    BY <2>2, <2>3, <2>4 DEF CSeqOf, w
<1> QED
  BY <1>1, <1>2, <1>3, <1>4, <1>5

\* A name that getHeader looks for, as a text.
LEMMA ExactlyIs ==
  ASSUME NEW name \in {"Call-ID", "CSeq"}
  PROVE  Exactly(name) \in Text
<1>1. name \in Token /\ ":" \in Token
  BY Zenon DEF Token
<1> QED
  BY <1>1 DEF Text, Exactly

\* Another spelling does not begin with the name and the colon.
LEMMA SpellingIs ==
  ASSUME NEW h, Spelling(h), NEW name
  PROVE  /\ h \in Text /\ OneLine(h) /\ Len(h) \in Nat /\ Len(h) > 1
         /\ h # Exactly(name) => h[1] # name \/ h[2] # ":"
<1>1. h \in Text /\ h \in Seq(STRING) /\ Len(h) \in Nat /\ DOMAIN h = 1 .. Len(h)
  BY StringsAreText, LenProperties DEF Spelling
<1>2. \A b \in Gap : b # ":" /\ b # "\n"
  BY Zenon DEF Gap
<1>3. ":" # "\n"
  BY Zenon
<1>4. ASSUME NEW k \in 1 .. Len(h) PROVE h[k] # "\n"
  <2>1. Len(h) \in Nat
    BY <1>1
  <2>2. k = 1 \/ k = Len(h) \/ k \in 2 .. Len(h) - 1
    BY <2>1
  <2> QED
    BY <1>2, <1>3, <2>2 DEF Spelling
<1>5. ASSUME h[1] = name, h[2] = ":" PROVE h = Exactly(name)
  <2>1. Len(h) = 2
    <3>1. 2 \notin 2 .. Len(h) - 1
      BY <1>2, <1>5 DEF Spelling
    <3> QED
      BY <1>1, <3>1 DEF Spelling
  <2> QED
    BY <1>1, <1>5, <2>1 DEF Exactly
<1> QED
  BY <1>1, <1>4, <1>5 DEF OneLine, Spelling

LEMMA HeaderLineIsText ==
  ASSUME NEW h \in Text, NEW v \in Text, NEW l \in Layout
  PROVE  HeaderLine(h, v, l) \in Text
<1>1. PICK cr \in Text : l.eol = cr \o << "\n" >>
  BY LayoutIs
<1>2. l.gap \in Text /\ l.tail \in Text /\ l.eol \in Text
  BY <1>1, LayoutIs, LineEndIsText, ConcatIs
<1> DEFINE b == l.gap \o v
           c == b \o l.tail
           d == h \o c
<1>3. b \in Text
  BY <1>2, ConcatIs
<1> HIDE DEF b
<1>4. c \in Text
  BY <1>2, <1>3, ConcatIs
<1> HIDE DEF c
<1>5. d \in Text
  BY <1>4, ConcatIs
<1> HIDE DEF d
<1>6. d \o l.eol \in Text
  BY <1>2, <1>5, ConcatIs
<1> QED
  BY <1>6 DEF HeaderLine, d, c, b

\* What stands before the end of a line.
BeforeEnd(cr, l) == cr \in Text /\ (\A k \in DOMAIN cr : cr[k] \in Blank) /\ l.eol = cr \o << "\n" >>

\* The line of a header without its end.
LineOf(h, v, l, cr) == h \o (l.gap \o v \o (l.tail \o cr))

\* A header line behind a text is a line and its end.
AddsLine(P, h, v, l, cr) == P \o HeaderLine(h, v, l) = Then(P, LineOf(h, v, l, cr))

LEMMA HeaderLineThen ==
  ASSUME NEW P \in Text, NEW h \in Text, NEW v \in Text, NEW l \in Layout,
         NEW cr, BeforeEnd(cr, l)
  PROVE  AddsLine(P, h, v, l, cr)
<1> DEFINE w == l.gap \o v \o (l.tail \o cr)
           e == << "\n" >>
           u == l.gap \o v
           b == u \o l.tail
           Q == P \o HeaderLine(h, v, l)
           L == h \o w
<1>1. Q = P \o (h \o b \o (cr \o e)) /\ Then(P, L) = (P \o (h \o w)) \o e
  BY DEF HeaderLine, Then, BeforeEnd
<1>2. e \in Text /\ l.gap \in Text /\ l.tail \in Text /\ cr \in Text
  BY LineEndIsText, LayoutIs DEF BeforeEnd
<1>3. u \in Text
  BY <1>2, ConcatIs
<1> HIDE DEF e, u
<1>4. b \in Text
  BY <1>2, <1>3, ConcatIs
<1>5. b \o cr = w
  BY <1>2, <1>3, Regrouped DEF u
<1> HIDE DEF b, w, Q, L
<1>6. h \o b \o (cr \o e) = h \o (b \o cr) \o e
  <2> DEFINE x == h \o b
  <2>1. x \in Text
    BY <1>4, ConcatIs
  <2>2. x \o cr = h \o (b \o cr)
    <3> HIDE DEF x
    <3>1. (h \o b) \o cr = h \o (b \o cr)
      BY <1>2, <1>4, Regrouped, SMTT(30)
    <3> QED
      BY <3>1 DEF x
  <2> HIDE DEF x
  <2>3. x \o (cr \o e) = (x \o cr) \o e
    BY <1>2, <2>1, Regrouped
  <2> QED
    BY <2>2, <2>3 DEF x
<1> DEFINE y == h \o (b \o cr)
<1>7. y \in Text
  <2>1. b \o cr \in Text
    BY <1>2, <1>4, ConcatIs
  <2> QED
    BY <2>1, ConcatIs
<1>8. Q = P \o (y \o e) /\ Then(P, L) = (P \o y) \o e
  BY <1>1, <1>5, <1>6
<1> HIDE DEF y
<1>9. P \o (y \o e) = (P \o y) \o e
  <2>1. e \in Text
    BY <1>2
  <2> QED
    BY <1>7, <2>1, Regrouped, Zenon
<1>10. Q = Then(P, L)
  BY <1>8, <1>9
<1> QED
  BY <1>10 DEF Q, L, w, LineOf, AddsLine

\* What is behind the name, up to the end of the line.
LEMMA BehindName ==
  ASSUME NEW v \in Text, OneLine(v), Trimmed(v), NEW l \in Layout,
         NEW cr, BeforeEnd(cr, l)
  PROVE  LET post == l.tail \o cr
             w    == l.gap \o v \o post IN
         /\ post \in Text /\ \A k \in DOMAIN post : post[k] \in Blank
         /\ w \in Text /\ OneLine(w)
<1>1. /\ l.gap \in Text /\ \A k \in DOMAIN l.gap : l.gap[k] \in Blank
      /\ l.tail \in Text /\ \A k \in DOMAIN l.tail : l.tail[k] \in Blank
  BY LayoutIs
<1>0. cr \in Text /\ \A k \in DOMAIN cr : cr[k] \in Blank
  BY DEF BeforeEnd
<1> DEFINE post == l.tail \o cr
           w == l.gap \o v \o post
<1>2. post \in Text /\ \A k \in DOMAIN post : post[k] \in Blank
  <2>1. /\ post \in Text /\ DOMAIN post = 1 .. Len(l.tail) + Len(cr)
        /\ DOMAIN l.tail = 1 .. Len(l.tail) /\ DOMAIN cr = 1 .. Len(cr)
        /\ Len(l.tail) \in Nat /\ Len(cr) \in Nat
        /\ \A k \in 1 .. Len(l.tail) : post[k] = l.tail[k]
        /\ \A k \in 1 .. Len(cr) : post[Len(l.tail) + k] = cr[k]
    BY <1>0, <1>1, ConcatIs
  <2> HIDE DEF post
  <2>2. ASSUME NEW k \in DOMAIN post, k \notin DOMAIN l.tail PROVE post[k] \in Blank
    <3>1. k - Len(l.tail) \in 1 .. Len(cr) /\ Len(l.tail) + (k - Len(l.tail)) = k
      BY <2>1, <2>2
    <3> QED
      BY <1>0, <2>1, <3>1
  <2> QED
    BY <1>1, <2>1, <2>2
<1> HIDE DEF post
<1>3. w \in Text /\ OneLine(w)
  <2>1. "\n" \notin Blank
    BY Zenon DEF Blank
  <2>2. OneLine(l.gap) /\ OneLine(post)
    BY <1>1, <1>2, <2>1 DEF OneLine
  <2>3. l.gap \o v \in Text /\ OneLine(l.gap \o v)
    BY <1>1, <2>2, ConcatIs, OneLineParts
  <2> QED
    BY <1>2, <2>2, <2>3, ConcatIs, OneLineParts
<1> QED
  BY <1>2, <1>3 DEF post, w

\* A header line behind finished lines gives its header, where there was none, and no other.
LEMMA HeaderLineAdded ==
  ASSUME NEW P \in Text, EndsLine(P), NEW name \in {"Call-ID", "CSeq"},
         NEW v \in Text, OneLine(v), Trimmed(v), NEW l \in Layout
  PROVE  LET Q == P \o HeaderLine(Exactly(name), v, l) IN
         /\ Q \in Text /\ EndsLine(Q)
         /\ HeaderLines(P, name) = {} => \A R \in Text : getHeader(Q \o R, name) = v
         /\ \A x : x # name /\ x # "\n" /\ HeaderLines(P, x) = {} => HeaderLines(Q, x) = {}
<1>1. PICK cr : BeforeEnd(cr, l)
  BY LayoutIs DEF BeforeEnd
<1>2. l.gap \in Text /\ \A k \in DOMAIN l.gap : l.gap[k] \in Blank
  BY LayoutIs
<1> DEFINE post == l.tail \o cr
           w == l.gap \o v \o post
           L == << name, ":" >> \o w
           Q == P \o HeaderLine(Exactly(name), v, l)
<1>3. post \in Text /\ (\A k \in DOMAIN post : post[k] \in Blank) /\ w \in Text /\ OneLine(w)
  BY <1>1, BehindName
<1>4. Q = Then(P, L)
  <2> DEFINE h == Exactly(name)
  <2>1. h \in Text
    BY ExactlyIs
  <2> HIDE DEF h
  <2>2. AddsLine(P, h, v, l, cr)
    BY <1>1, <2>1, HeaderLineThen
  <2> QED
    BY <2>2 DEF AddsLine, h, Exactly, LineOf
<1>5. name \in Token /\ name # "\n"
  BY Zenon DEF Token
<1> HIDE DEF post
<1>6. L \in Text /\ OneLine(L) /\ \A x : IsHeader(L, x) <=> x = name
  <2> HIDE DEF w
  <2> QED
    BY <1>3, <1>5, HeaderLineIs
<1>7. ASSUME HeaderLines(P, name) = {}, NEW R \in Text
      PROVE  getHeader(Then(P, L) \o R, name) = v
  BY <1>2, <1>3, <1>5, <1>7, HeaderIsUnderstood
<1> HIDE DEF L, Q
<1>8. Then(P, L) \in Text /\ EndsLine(Then(P, L))
  BY <1>6, ThenIs
<1>9. ASSUME NEW x, x # name, x # "\n", HeaderLines(P, x) = {} PROVE HeaderLines(Then(P, L), x) = {}
  BY <1>6, <1>9, HeaderFound
<1> QED
  BY <1>4, <1>7, <1>8, <1>9 DEF Q

\* A line with another spelling of the name does not give the header.
LEMMA HeaderLineMissed ==
  ASSUME NEW P \in Text, EndsLine(P), NEW name, name # "\n", HeaderLines(P, name) = {},
         NEW h, Spelling(h), h # Exactly(name),
         NEW v \in Text, OneLine(v), Trimmed(v), NEW l \in Layout
  PROVE  LET Q == P \o HeaderLine(h, v, l) IN
         Q \in Text /\ EndsLine(Q) /\ HeaderLines(Q, name) = {}
<1>1. PICK cr : BeforeEnd(cr, l)
  BY LayoutIs DEF BeforeEnd
<1> DEFINE w == l.gap \o v \o (l.tail \o cr)
           L == h \o w
           Q == P \o HeaderLine(h, v, l)
<1>2. w \in Text /\ OneLine(w)
  BY <1>1, BehindName
<1>3. /\ h \in Text /\ OneLine(h) /\ Len(h) \in Nat /\ Len(h) > 1
      /\ h[1] # name \/ h[2] # ":"
  BY SpellingIs
<1>4. Q = Then(P, L)
  <2>1. h \in Text
    BY <1>3
  <2>2. AddsLine(P, h, v, l, cr)
    BY <1>1, <2>1, HeaderLineThen
  <2> QED
    BY <2>2 DEF AddsLine, LineOf
<1> HIDE DEF w
<1>5. L \in Text /\ OneLine(L) /\ L[1] = h[1] /\ L[2] = h[2]
  <2>1. L \in Text /\ \A k \in 1 .. Len(h) : L[k] = h[k]
    BY <1>2, <1>3, ConcatIs
  <2>2. OneLine(L)
    BY <1>2, <1>3, OneLineParts
  <2>3. 1 \in 1 .. Len(h) /\ 2 \in 1 .. Len(h)
    BY <1>3
  <2> QED
    BY <2>1, <2>2, <2>3
<1>6. ~ IsHeader(L, name)
  BY <1>3, <1>5 DEF IsHeader
<1> HIDE DEF L, Q
<1>7. Then(P, L) \in Text /\ EndsLine(Then(P, L)) /\ HeaderLines(Then(P, L), name) = {}
  BY <1>5, <1>6, ThenIs, HeaderFound
<1> QED
  BY <1>4, <1>7 DEF Q

\* The first line as the parser finds it.
LEMMA FirstLineIs ==
  ASSUME NEW m \in Meant, NEW l \in Layout
  PROVE  LET F == FirstLine[m] \o l.eol IN
         /\ F \in Text /\ EndsLine(F) /\ 1 \in DOMAIN F
         /\ trim(Line(F, 1)) = FirstLine[m]
         /\ HeaderLines(F, "Call-ID") = {} /\ HeaderLines(F, "CSeq") = {}
<1>1. PICK cr \in Text : (\A k \in DOMAIN cr : cr[k] \in Blank) /\ l.eol = cr \o << "\n" >>
  BY LayoutIs
<1> DEFINE S == FirstLine[m]
           L == S \o cr
           F == S \o l.eol
<1>2. S \in Text /\ Trimmed(S) /\ OneLine(S)
  BY MeantAssumption, PlainIs
<1>3. Len(S) > 0 /\ S[1] \notin {"Call-ID", "CSeq"}
  <2>1. Name(m.method) \notin {"Call-ID", "CSeq"} \/ IsResponse(m)
    <3>1. m \in Message
      BY MeantAssumption
    <3> QED
      BY <3>1 DEF Message, Request, Response, IsResponse, Method, Name
  <2>2. CASE IsResponse(m)
    <3>1. S # <<>> /\ S[1] = "SIP/2.0"
      BY <2>2, MeantAssumption
    <3> QED
      BY <1>2, <3>1, LenProperties, EmptySeq DEF Text
  <2>3. CASE ~ IsResponse(m)
    <3>1. Len(S) > 1 /\ S[1] = Name(m.method)
      BY <2>3, MeantAssumption
    <3>2. Len(S) > 0
      BY <1>2, <3>1, LenProperties DEF Text
    <3> QED
      BY <2>1, <2>3, <3>1, <3>2
  <2> QED
    BY <2>2, <2>3
<1>4. F = Then(<<>>, L)
  <2>1. "\n" \in Token
    BY Zenon DEF Token
  <2>2. S \in Seq(Token) /\ cr \in Seq(Token) /\ << "\n" >> \in Seq(Token)
    BY <1>2, <2>1 DEF Text
  <2> HIDE DEF S
  <2>3. F = S \o (cr \o << "\n" >>)
    BY <1>1
  <2> QED
    BY <2>2, <2>3 DEF Then
<1> HIDE DEF S, F
<1>5. L \in Text /\ OneLine(L) /\ trim(L) = S /\ L[1] = S[1]
  <2>1. "\n" \notin Blank
    BY Zenon DEF Blank
  <2>2. OneLine(cr)
    BY <1>1, <2>1 DEF OneLine
  <2>3. L \in Text /\ OneLine(L) /\ trim(L) = S
    BY <1>1, <1>2, <2>2, ConcatIs, OneLineParts, TrimBehind
  <2>4. Len(S) \in Nat /\ \A k \in 1 .. Len(S) : L[k] = S[k]
    BY <1>2, ConcatIs
  <2>5. 1 \in 1 .. Len(S)
    BY <1>3, <2>4
  <2> QED
    BY <2>3, <2>4, <2>5
<1> HIDE DEF L
<1>6. <<>> \in Text /\ EndsLine(<<>>) /\ Len(<<>>) = 0 /\ \A name : HeaderLines(<<>>, name) = {}
  BY EmptySeq DEF Text, EndsLine, HeaderLines, LineStarts
<1>7. F \in Text /\ F # <<>> /\ EndsLine(F)
  BY <1>4, <1>5, <1>6, ThenIs
<1>8. 1 \in DOMAIN F
  BY <1>7, LenProperties, EmptySeq DEF Text
<1>9. Line(F, 1) = L
  <2>1. PICK E \in Text : E = <<>> /\ EndsLine(E) /\ Len(E) = 0
    BY <1>6
  <2>2. Line(Then(E, L), Len(E) + 1) = L
    BY <1>5, <2>1, LineBehind
  <2> QED
    BY <1>4, <2>1, <2>2
<1>10. ASSUME NEW name \in {"Call-ID", "CSeq"} PROVE HeaderLines(F, name) = {}
  <2>1. ~ IsHeader(L, name) /\ name # "\n"
    BY <1>3, <1>5 DEF IsHeader
  <2>2. HeaderLines(Then(<<>>, L), name) = {}
    BY <1>5, <1>6, <2>1, HeaderFound
  <2> QED
    BY <1>4, <2>2
<1> QED
  BY <1>5, <1>7, <1>8, <1>9, <1>10 DEF F, S

\* What comes before the Call-ID: the first line, and lines that give neither header.
LEMMA BeforeCallIDIs ==
  ASSUME NEW m \in Meant, NEW l \in Layout
  PROVE  LET G == FirstLine[m] \o l.eol \o l.top IN
         /\ G \in Text /\ EndsLine(G)
         /\ HeaderLines(G, "Call-ID") = {} /\ HeaderLines(G, "CSeq") = {}
         /\ \A R \in Text : trim(Line(G \o R, 1)) = FirstLine[m]
<1> DEFINE F == FirstLine[m] \o l.eol
           G == F \o l.top
<1>1. /\ F \in Text /\ EndsLine(F) /\ 1 \in DOMAIN F /\ trim(Line(F, 1)) = FirstLine[m]
      /\ HeaderLines(F, "Call-ID") = {} /\ HeaderLines(F, "CSeq") = {}
  BY FirstLineIs
<1>2. l.top \in Text /\ EndsLine(l.top)
  BY LayoutIs
<1> HIDE DEF F
<1>3. G \in Text /\ EndsLine(G) /\ 1 \in DOMAIN G
  <2>1. G \in Text /\ Len(G) = Len(F) + Len(l.top) /\ DOMAIN G = 1 .. Len(G)
    BY <1>1, <1>2, ConcatIs
  <2>2. Len(F) \in Nat /\ Len(l.top) \in Nat /\ Len(F) > 0
    BY <1>1, <1>2, LenProperties DEF Text
  <2>3. EndsLine(G)
    BY <1>1, <1>2, EndsLineParts
  <2> QED
    BY <2>1, <2>2, <2>3
<1>4. HeaderLines(G, "Call-ID") = {} /\ HeaderLines(G, "CSeq") = {}
  <2>1. HeaderLines(l.top, "Call-ID") = {} /\ HeaderLines(l.top, "CSeq") = {}
    BY LayoutAssumption
  <2> QED
    BY <1>1, <1>2, <2>1, NoHeaderInBoth
<1>5. ASSUME NEW R \in Text PROVE Line(G \o R, 1) = Line(F, 1)
  <2>1. Line(G, 1) = Line(F, 1)
    BY <1>1, <1>2, LineKept
  <2> HIDE DEF G
  <2> QED
    BY <1>3, <2>1, LineKept
<1> HIDE DEF G
<1> QED
  BY <1>1, <1>3, <1>4, <1>5 DEF G, F

\* Up to its Call-ID a message says all but its CSeq, whatever follows; without the name
\* that getHeader looks for, it does not say the Call-ID either.
LEMMA UpToCallIDIs ==
  ASSUME NEW m \in Meant, m.callID # <<>>, NEW l \in Layout
  PROVE  LET U == UpToCallID(m, l) IN
         /\ U \in Text /\ EndsLine(U)
         /\ \A R \in Text : trim(Line(U \o R, 1)) = FirstLine[m]
         /\ l.callID = Exactly("Call-ID") =>
              HeaderLines(U, "CSeq") = {} /\ \A R \in Text : getCallID(U \o R) = m.callID
         /\ l.callID # Exactly("Call-ID") => HeaderLines(U, "Call-ID") = {}
<1> DEFINE G == FirstLine[m] \o l.eol \o l.top
           v == m.callID
           H == HeaderLine(l.callID, v, l)
           U == UpToCallID(m, l)
<1>1. /\ G \in Text /\ EndsLine(G)
      /\ HeaderLines(G, "Call-ID") = {} /\ HeaderLines(G, "CSeq") = {}
      /\ \A R \in Text : trim(Line(G \o R, 1)) = FirstLine[m]
  BY BeforeCallIDIs
<1>2. v \in Text /\ OneLine(v) /\ Trimmed(v)
  BY MeantAssumption, PlainIs
<1>3. Spelling(l.callID) /\ l.callID \in Text
  BY LayoutAssumption, SpellingIs
<1>4. U = G \o H
  BY DEF UpToCallID
<1> HIDE DEF G, U, v
<1>5. H \in Text
  BY <1>2, <1>3, HeaderLineIsText
<1>6. ASSUME l.callID = Exactly("Call-ID")
      PROVE  /\ U \in Text /\ EndsLine(U) /\ HeaderLines(U, "CSeq") = {}
             /\ \A R \in Text : getCallID(U \o R) = v
  <2> DEFINE Q == G \o HeaderLine(Exactly("Call-ID"), v, l)
  <2>1. /\ Q \in Text /\ EndsLine(Q)
        /\ HeaderLines(G, "Call-ID") = {} => \A R \in Text : getHeader(Q \o R, "Call-ID") = v
        /\ \A x : x # "Call-ID" /\ x # "\n" /\ HeaderLines(G, x) = {} => HeaderLines(Q, x) = {}
    BY <1>1, <1>2, HeaderLineAdded
  <2>2. Q = U
    BY <1>4, <1>6
  <2> HIDE DEF Q
  <2>3. HeaderLines(Q, "CSeq") = {}
    BY <1>1, <2>1
  <2> QED
    BY <1>1, <1>6, <2>1, <2>2, <2>3 DEF getCallID
<1>7. ASSUME l.callID # Exactly("Call-ID")
      PROVE  U \in Text /\ EndsLine(U) /\ HeaderLines(U, "Call-ID") = {}
  <2> DEFINE h == l.callID
             Q == G \o HeaderLine(h, v, l)
  <2>1. Spelling(h) /\ h # Exactly("Call-ID")
    BY <1>3, <1>7
  <2>2. Q = U
    BY <1>4
  <2> HIDE DEF h
  <2>3. Q \in Text /\ EndsLine(Q) /\ HeaderLines(Q, "Call-ID") = {}
    BY <1>1, <1>2, <2>1, HeaderLineMissed
  <2> HIDE DEF Q
  <2> QED
    BY <1>7, <2>2, <2>3
<1>8. ASSUME NEW R \in Text PROVE trim(Line(U \o R, 1)) = FirstLine[m]
  <2> HIDE DEF H
  <2>1. H \o R \in Text
    BY <1>5, ConcatIs
  <2>2. U \o R = G \o (H \o R)
    BY <1>1, <1>4, <1>5, Regrouped
  <2> QED
    BY <1>1, <2>1, <2>2
<1>9. U \in Text /\ EndsLine(U)
  BY <1>6, <1>7
<1> QED
  BY <1>6, <1>7, <1>8, <1>9 DEF U, v

\* The first line decides what a text is, up to its Call-ID and CSeq.
LEMMA KindIs ==
  ASSUME NEW m \in Meant, NEW s, trim(Line(s, 1)) = FirstLine[m]
  PROVE  /\ Parsed(s).cseq = CSeqOf(getCSeqMethod(s))
         /\ Parsed(s).callID = getCallID(s)
         /\ Alike(m, Parsed(s))
         /\ Parsed(s).callID = m.callID /\ Parsed(s).cseq = m.cseq => Parsed(s) = m
<1> DEFINE first == FirstLine[m]
           cseq == CSeqOf(getCSeqMethod(s))
           id == getCallID(s)
<1>1. m \in Message /\ first \in Text
  BY MeantAssumption, PlainIs
<1>2. getRequestLine(s) = first
  BY DEF getRequestLine
<1>3. CASE IsResponse(m)
  <2>1. /\ first # <<>> /\ first[1] = "SIP/2.0"
        /\ m.line = {code \in Code : \E i \in DOMAIN first : first[i] = code}
    BY <1>3, MeantAssumption
  <2>2. m \in Response
    BY <1>1, <1>3 DEF Message, Request, IsResponse
  <2> HIDE DEF first
  <2>3. Parsed(s) = [kind |-> "response", callID |-> id, cseq |-> cseq, line |-> m.line]
    BY <1>2, <2>1 DEF Parsed
  <2> HIDE DEF cseq, id
  <2>4. m = [kind |-> "response", callID |-> m.callID, cseq |-> m.cseq, line |-> m.line]
    BY <2>2 DEF Response
  <2>5. Parsed(s).cseq = cseq /\ Parsed(s).callID = id /\ Alike(m, Parsed(s))
    BY <1>3, <2>3 DEF IsResponse, Alike
  <2>6. Parsed(s).callID = m.callID /\ Parsed(s).cseq = m.cseq => Parsed(s) = m
    BY <2>3, <2>4, <2>5
  <2> QED
    BY <2>5, <2>6 DEF cseq, id
<1>4. CASE ~ IsResponse(m)
  <2>0. Len(first) > 1
    BY <1>4, MeantAssumption, Zenon
  <2>1. Len(first) > 1 /\ first[1] = Name(m.method) /\ first[2] = " "
    BY <1>4, MeantAssumption
  <2>2. m \in Request /\ m.method \in Method
    BY <1>1, <1>4 DEF Message, Request, Response, IsResponse
  <2>3. first # <<>>
    <3>1. first \in Seq(Token)
      BY <1>1 DEF Text
    <3> HIDE DEF first
    <3>2. Len(first) \in Nat
      BY <3>1, LenProperties
    <3>3. Len(first) # 0
      BY <2>0, <3>2
    <3> QED
      BY <3>1, <3>3, EmptySeq
  <2>4. /\ Name(m.method) # "SIP/2.0" /\ Name(m.method) \notin Blank /\ " " \in Blank
        /\ MethodOf(<< Name(m.method) >>) = m.method
    BY <2>2, NamesAre
  <2>5. getMethod(s) = << Name(m.method) >>
    <3>1. FirstWord(Line(s, 1)) = << first[1] >>
      <4> HIDE DEF first
      <4>1. trim(Line(s, 1)) = first
        BY DEF first
      <4> QED
        BY <1>1, <2>1, <2>4, <4>1, FirstWordIs
    <3> QED
      BY <2>1, <3>1 DEF getMethod
  <2> HIDE DEF first
  <2>6. Parsed(s) = [kind |-> "request", callID |-> id, cseq |-> cseq, method |-> m.method]
    BY <1>2, <2>1, <2>4, <2>5 DEF Parsed
  <2> HIDE DEF cseq, id
  <2>7. m = [kind |-> "request", callID |-> m.callID, cseq |-> m.cseq, method |-> m.method]
    BY <2>2 DEF Request
  <2>8. Parsed(s).cseq = cseq /\ Parsed(s).callID = id /\ Alike(m, Parsed(s))
    <3>1. m.kind = "request"
      BY <2>7
    <3> QED
      BY <1>4, <2>6, <3>1 DEF Alike
  <2>9. Parsed(s).callID = m.callID /\ Parsed(s).cseq = m.cseq => Parsed(s) = m
    BY <2>6, <2>7, <2>8
  <2> QED
    BY <2>8, <2>9 DEF cseq, id
<1> QED
  BY <1>3, <1>4

\* What follows the Call-ID is text.
LEMMA RestIs ==
  ASSUME NEW m \in Meant, NEW l \in Layout
  PROVE  LET v == << "1", Space, Name(m.cseq) >>
             H == HeaderLine(l.cseq, v, l)
             R == l.eol \o l.body IN
         /\ v \in Text /\ OneLine(v) /\ Trimmed(v)
         /\ FirstWord(AfterFirstWord(v)) = << Name(m.cseq) >>
         /\ CSeqOf(<< Name(m.cseq) >>) = m.cseq
         /\ H \in Text /\ R \in Text
         /\ Rest(m, l) \in Text /\ Rest(m, l) = l.between \o (H \o R)
<1> DEFINE x == Name(m.cseq)
           v == << "1", Space, x >>
           H == HeaderLine(l.cseq, v, l)
           R == l.eol \o l.body
<1>1. l.between \in Text /\ l.eol \in Text /\ l.body \in Text
  <2>1. PICK cr \in Text : l.eol = cr \o << "\n" >>
    BY LayoutIs
  <2>2. l.eol \in Text
    BY <2>1, LineEndIsText, ConcatIs
  <2> QED
    BY <2>2, LayoutIs
<1>2. m.cseq \in Method
  BY MeantAssumption DEF Message, Request, Response
<1>3. /\ x \in Token /\ x \notin Blank /\ x # "\n" /\ CSeqOf(<< x >>) = m.cseq
      /\ "1" \in Token /\ "1" \notin Blank
  BY <1>2, NamesAre
<1> HIDE DEF x
<1>4. v \in Text /\ OneLine(v) /\ Trimmed(v) /\ FirstWord(AfterFirstWord(v)) = << x >>
  BY <1>3, SecondWordIs
<1>5. l.cseq \in Text
  BY LayoutAssumption, SpellingIs
<1>6. Rest(m, l) = l.between \o H \o l.eol \o l.body
  BY Zenon DEF Rest, Space, x
<1> HIDE DEF v
<1>7. H \in Text
  BY <1>4, <1>5, HeaderLineIsText
<1>8. R \in Text
  BY <1>1, ConcatIs
<1> HIDE DEF H
<1>9. H \o R \in Text
  <2> HIDE DEF R
  <2> QED
    BY <1>7, <1>8, ConcatIs
<1> DEFINE W == l.between \o H
<1>10. W \in Text
  BY <1>1, <1>7, ConcatIs
<1> HIDE DEF W
<1>11. W \o l.eol \o l.body = W \o R
  BY <1>1, <1>10, Regrouped
<1>12. W \o R = l.between \o (H \o R)
  <2> HIDE DEF R
  <2> QED
    BY <1>1, <1>7, <1>8, Regrouped DEF W
<1>13. Rest(m, l) = l.between \o (H \o R)
  BY <1>6, <1>11, <1>12 DEF W
<1> HIDE DEF R
<1>14. l.between \o (H \o R) \in Text
  <2> DEFINE T == H \o R
  <2> HIDE DEF T
  <2>1. T \in Text
    BY <1>9 DEF T
  <2> QED
    BY <1>1, <2>1, ConcatIs DEF T
<1> QED
  BY <1>3, <1>4, <1>7, <1>8, <1>13, <1>14 DEF x, v, H, R

\* The CSeq of a text that nobody cut, with the names getHeader looks for.
LEMMA CSeqIs ==
  ASSUME NEW m \in Meant, m.callID # <<>>, NEW l \in Layout,
         l.callID = Exactly("Call-ID"), l.cseq = Exactly("CSeq")
  PROVE  CSeqOf(getCSeqMethod(Written(m, l))) = m.cseq
<1> DEFINE U == UpToCallID(m, l)
           x == Name(m.cseq)
           v == << "1", Space, x >>
           H == HeaderLine(l.cseq, v, l)
           V == U \o l.between
           W == V \o H
           R == l.eol \o l.body
<1>1. U \in Text /\ EndsLine(U) /\ HeaderLines(U, "CSeq") = {}
  BY UpToCallIDIs
<1>2. l.between \in Text /\ EndsLine(l.between) /\ HeaderLines(l.between, "CSeq") = {}
  BY LayoutIs, LayoutAssumption
<1>3. /\ v \in Text /\ OneLine(v) /\ Trimmed(v)
      /\ FirstWord(AfterFirstWord(v)) = << x >> /\ CSeqOf(<< x >>) = m.cseq
      /\ H \in Text /\ R \in Text
      /\ Rest(m, l) = l.between \o (H \o R)
  BY RestIs
<1>4. Written(m, l) = U \o (l.between \o (H \o R))
  BY <1>3 DEF Written
<1> HIDE DEF U, x, v, R
<1>5. V \in Text /\ EndsLine(V) /\ HeaderLines(V, "CSeq") = {}
  BY <1>1, <1>2, ConcatIs, EndsLineParts, NoHeaderInBoth
<1>6. W \in Text /\ \A T \in Text : getHeader(W \o T, "CSeq") = v
  <2> HIDE DEF V
  <2> DEFINE Q == V \o HeaderLine(Exactly("CSeq"), v, l)
  <2>1. /\ Q \in Text
        /\ HeaderLines(V, "CSeq") = {} => \A T \in Text : getHeader(Q \o T, "CSeq") = v
    BY <1>3, <1>5, HeaderLineAdded
  <2>2. Q = W
    OBVIOUS
  <2> HIDE DEF Q, W
  <2> QED
    BY <1>5, <2>1, <2>2
<1> HIDE DEF H
<1>7. W \o R = U \o (l.between \o (H \o R))
  <2>1. H \o R \in Text
    BY <1>3, ConcatIs
  <2>2. V \o (H \o R) = U \o (l.between \o (H \o R))
    BY <1>1, <1>2, <2>1, Regrouped
  <2> HIDE DEF V
  <2> QED
    BY <1>3, <1>5, <2>2, Regrouped
<1> HIDE DEF W
<1>8. getCSeqMethod(Written(m, l)) = << x >>
  BY <1>3, <1>4, <1>6, <1>7 DEF getCSeqMethod, getCSeq
<1> QED
  BY <1>3, <1>8

\* What recvfrom and the C string leave of a text is its beginning.
LEMMA ReceivedIsBeginning ==
  ASSUME NEW d \in Text
  PROVE  \E n \in 0 .. Len(d) : Received(d) = SubSeq(d, 1, n)
<1> DEFINE ends == {i \in DOMAIN d : d[i] = "NUL" \/ i > Limit}
<1>1. Len(d) \in Nat /\ DOMAIN d = 1 .. Len(d)
  BY LenProperties DEF Text
<1>2. CASE ends = {}
  <2>1. Received(d) = d
    BY <1>2 DEF Received
  <2>2. SubSeq(d, 1, Len(d)) = d
    <3> DEFINE u == SubSeq(d, 1, Len(d))
    <3>1. u \in Text /\ Len(u) = Len(d) /\ \A k \in 1 .. Len(d) : u[k] = d[k]
      BY <1>1, BeginningIs
    <3> HIDE DEF u
    <3>2. u = d
      BY <3>1, SeqEqual DEF Text
    <3> QED
      BY <3>2 DEF u
  <2>3. Len(d) \in 0 .. Len(d)
    BY <1>1
  <2> QED
    BY <2>1, <2>2, <2>3, Zenon
<1>3. CASE ends # {}
  <2>1. Min(ends) \in ends
    BY <1>1, <1>3, MinIs
  <2>2. PICK i \in 1 .. Len(d) : i = Min(ends)
    BY <1>1, <2>1
  <2>3. Received(d) = SubSeq(d, 1, i - 1)
    BY <1>3, <2>2 DEF Received
  <2>4. i - 1 \in 0 .. Len(d)
    BY <1>1
  <2> QED
    BY <2>3, <2>4, Zenon
<1> QED
  BY <1>2, <1>3

\* What a sender wrote with the names getHeader looks for is understood; cut behind its
\* Call-ID, all but the CSeq; with another name for the Call-ID, it is a message without.
LEMMA WrittenIsUnderstood ==
  ASSUME NEW d \in Datagram, NEW m \in Meant, NEW l \in Layout, m.callID # <<>>, d = Written(m, l)
  PROVE  /\ l.callID = Exactly("Call-ID") /\ l.cseq = Exactly("CSeq") /\ Received(d) = d =>
              Heard[d] = m
         /\ l.callID = Exactly("Call-ID") /\ Len(Received(d)) >= Len(UpToCallID(m, l)) =>
              Alike(m, Heard[d]) /\ Heard[d].callID = m.callID
         /\ /\ l.callID # Exactly("Call-ID") /\ HeaderLines(Rest(m, l), "Call-ID") = {}
            /\ Received(d) = d
            => Alike(m, Heard[d]) /\ Heard[d].callID = <<>>
<1> DEFINE U == UpToCallID(m, l)
           R == Rest(m, l)
<1>1. /\ U \in Text /\ EndsLine(U)
      /\ \A T \in Text : trim(Line(U \o T, 1)) = FirstLine[m]
      /\ l.callID = Exactly("Call-ID") => \A T \in Text : getCallID(U \o T) = m.callID
      /\ l.callID # Exactly("Call-ID") => HeaderLines(U, "Call-ID") = {}
  BY UpToCallIDIs
<1>2. d = U \o R /\ R \in Text
  BY RestIs DEF Written
<1>3. Heard[d] = Parsed(Received(d))
  BY DEF Heard
<1> HIDE DEF U, R
<1>4. ASSUME l.callID = Exactly("Call-ID"), l.cseq = Exactly("CSeq"), Received(d) = d
      PROVE  Heard[d] = m
  <2>1. CSeqOf(getCSeqMethod(d)) = m.cseq
    BY <1>4, CSeqIs
  <2>2. trim(Line(d, 1)) = FirstLine[m] /\ getCallID(d) = m.callID
    BY <1>1, <1>2, <1>4
  <2>3. Parsed(d) = m
    BY <2>1, <2>2, KindIs
  <2> QED
    BY <1>3, <1>4, <2>3
<1>5. ASSUME l.callID = Exactly("Call-ID"), Len(Received(d)) >= Len(U)
      PROVE  Alike(m, Heard[d]) /\ Heard[d].callID = m.callID
  <2>1. d \in Text
    BY <1>1, <1>2, ConcatIs
  <2>2. PICK n \in 0 .. Len(d) : Received(d) = SubSeq(d, 1, n)
    BY <2>1, ReceivedIsBeginning
  <2>3. Len(SubSeq(d, 1, n)) = n
    BY <2>1, BeginningIs
  <2>4. n >= Len(U)
    BY <1>5, <2>2, <2>3
  <2>5. PICK T \in Text : Received(d) = U \o T
    <3>1. n \in 0 .. Len(U \o R)
      BY <1>2
    <3>2. \E T \in Text : SubSeq(U \o R, 1, n) = U \o T
      BY <1>1, <1>2, <2>4, <3>1, CutBehind
    <3> QED
      BY <1>2, <2>2, <3>2, Zenon
  <2> DEFINE s == Received(d)
  <2>6. trim(Line(s, 1)) = FirstLine[m] /\ getCallID(s) = m.callID
    BY <1>1, <1>5, <2>5
  <2> HIDE DEF s
  <2>7. Alike(m, Parsed(s)) /\ Parsed(s).callID = m.callID
    BY <2>6, KindIs
  <2> QED
    BY <1>3, <2>7 DEF s
<1>6. ASSUME l.callID # Exactly("Call-ID"), HeaderLines(R, "Call-ID") = {}, Received(d) = d
      PROVE  Alike(m, Heard[d]) /\ Heard[d].callID = <<>>
  <2>1. HeaderLines(d, "Call-ID") = {}
    BY <1>1, <1>2, <1>6, NoHeaderInBoth
  <2>2. getCallID(d) = <<>>
    BY <2>1 DEF getCallID, getHeader
  <2>3. trim(Line(d, 1)) = FirstLine[m]
    BY <1>1, <1>2
  <2>4. Alike(m, Parsed(d)) /\ Parsed(d).callID = <<>>
    BY <2>2, <2>3, KindIs
  <2> QED
    BY <1>3, <1>6, <2>4
<1> QED
  BY <1>4, <1>5, <1>6 DEF U, R

\* For any messages, any size of the buffer, any line ends, blanks, other lines and
\* bodies: with the names "Call-ID:" and "CSeq:", which are the only ones getHeader
\* looks for, the proxy understands what the sender meant.  That is not so for the other
\* names SIP allows: whichever the sender takes for its Call-ID, the message is handled
\* as one without Call-ID.
THEOREM SendersAreUnderstood == RawSpec => []AgreesWithSender
<1>1. Misread = {}
  <2> SUFFICES ASSUME NEW d \in Misread PROVE FALSE
    OBVIOUS
  <2>1. PICK m \in Meant, l \in Layout :
          /\ m.callID # <<>> /\ d = Written(m, l) /\ d \in Datagram
          /\ \/ /\ l.callID = Exactly("Call-ID") /\ l.cseq = Exactly("CSeq")
                /\ Received(d) = d
                /\ Heard[d] # m
             \/ /\ l.callID = Exactly("Call-ID")
                /\ Len(Received(d)) >= Len(UpToCallID(m, l))
                /\ ~ (Alike(m, Heard[d]) /\ Heard[d].callID = m.callID)
             \/ /\ l.callID # Exactly("Call-ID") /\ HeaderLines(Rest(m, l), "Call-ID") = {}
                /\ Received(d) = d
                /\ ~ (Alike(m, Heard[d]) /\ Heard[d].callID = <<>>)
    BY Zenon DEF Misread
  <2> QED
    BY <2>1, WrittenIsUnderstood
<1>2. RawInit => AgreesWithSender
  BY <1>1 DEF AgreesWithSender
<1>3. AgreesWithSender /\ [RawNext]_rawVars => AgreesWithSender'
  BY <1>1 DEF AgreesWithSender
<1> QED
  BY <1>2, <1>3, PTL DEF RawSpec
===============================================================================
