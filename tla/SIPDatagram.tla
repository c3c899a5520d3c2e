------------------------------ MODULE SIPDatagram ------------------------------
(***************************************************************************)
(* SIPServer over text: the worker's loop from recvfrom, which fills a      *)
(* buffer of fixed size that is then read as a C string, through SIPParser  *)
(* to the handlers, and what these hand to sendto.                          *)
(***************************************************************************)
EXTENDS SIPServer, SIPParser

CONSTANTS
  Datagram, \* the texts that may arrive
  Limit     \* sizeof(buffer) - 1, in tokens

ASSUME TextAssumption == \A d \in Datagram : d \in Seq(STRING)

VARIABLES
  raw,  \* the datagram the worker has in its hands, <<>> when it has none
  wire  \* sent, as text: [dst, text]

rawVars == <<serverVars, raw, wire>>

\* recvfrom cuts a long datagram, std::string(buffer) at the first NUL.
Received(d) ==
  LET ends == {i \in DOMAIN d : d[i] = "NUL" \/ i > Limit}
  IN  IF ends = {} THEN d ELSE SubSeq(d, 1, Min(ends) - 1)

\* The method a word names; handlers know four.
MethodOf(word) ==
  IF \E method \in Method \ {"OTHER"} : word = << method >> THEN word[1] ELSE "OTHER"

\* cseqm.find("BYE"), then cseqm.find("CANCEL").
CSeqOf(word) ==
  IF \E i \in DOMAIN word : word[i] = "BYE" THEN "BYE"
  ELSE IF \E i \in DOMAIN word : word[i] = "CANCEL" THEN "CANCEL"
  ELSE MethodOf(word)

\* The message processSipMessage makes of a text.
Parsed(s) ==
  LET first == getRequestLine(s)
      cseq  == CSeqOf(getCSeqMethod(s))
  IN  IF first # <<>> /\ first[1] = "SIP/2.0"
      THEN [kind |-> "response", callID |-> getCallID(s), cseq |-> cseq,
            line |-> {code \in Code : \E i \in DOMAIN first : first[i] = code}]
      ELSE [kind |-> "request", callID |-> getCallID(s), cseq |-> cseq,
            method |-> MethodOf(getMethod(s))]

Heard == [d \in Datagram |-> Parsed(Received(d))]

ASSUME DatagramAssumption ==
  /\ <<>> \notin Datagram
  /\ \A d \in Datagram : Heard[d] \in Message

Field(s, name) == << name, ":", " " >> \o getHeader(s, name) \o CRLF

\* (mutant: no "\r\n" behind the Call-ID)
AnswerText_RunOn(s, code, reason) ==
  << "SIP/2.0", " ", code, " ", reason >> \o CRLF
    \o Field(s, "Via") \o Field(s, "From") \o Field(s, "To")
    \o << "Call-ID", ":", " " >> \o getCallID(s) \o Field(s, "CSeq")
    \o << "Content-Length", ":", " ", "0" >> \o CRLF \o CRLF

\* The text of build100Trying and build_200_OK.
AnswerText(s, code, reason) ==
  << "SIP/2.0", " ", code, " ", reason >> \o CRLF
    \o Field(s, "Via") \o Field(s, "From") \o Field(s, "To")
    \o Field(s, "Call-ID") \o Field(s, "CSeq")
    \o << "Content-Length", ":", " ", "0" >> \o CRLF \o CRLF

\* A message is forwarded as the text it came in; what else is sent is an answer.
TextOf(m, d) ==
  IF m = Heard[d] THEN Received(d)
  ELSE IF m.line = {"100"} THEN AnswerText(Received(d), "100", "Trying")
  ELSE AnswerText(Received(d), "200", "OK")

-------------------------------------------------------------------------------
RawInit ==
  /\ ServerInit
  /\ raw = <<>>
  /\ wire = <<>>

\* recvfrom returns d from a, and the datagram is handled.
receive(d, a) ==
  /\ raw = <<>>
  /\ raw' = d
  /\ processSipMessage(Heard[d], a)
  /\ wire' = [i \in DOMAIN sent' |->
       [dst |-> sent'[i].dst, text |-> TextOf(sent'[i].msg, d)]]

\* The pause at the end of the pass.
sleep ==
  /\ raw # <<>>
  /\ raw' = <<>>
  /\ sent' = <<>>
  /\ wire' = <<>>
  /\ UNCHANGED m_sessions

RawNext == (\E d \in Datagram, a \in Addr : receive(d, a)) \/ sleep

RawSpec == RawInit /\ [][RawNext]_rawVars

-------------------------------------------------------------------------------
\* What the proxy puts on the wire means to a parser like its own what the handlers
\* meant: also the answers it builds out of the headers of any datagram whatever, cut
\* or malformed, stay answers in the same call, to the same CSeq and to nobody else.
WireMeansSent ==
  /\ DOMAIN wire = DOMAIN sent
  /\ \A i \in DOMAIN wire : wire[i].dst = sent[i].dst /\ Parsed(wire[i].text) = sent[i].msg
===============================================================================
