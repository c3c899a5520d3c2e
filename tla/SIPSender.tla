------------------------------- MODULE SIPSender -------------------------------
(***************************************************************************)
(* How a sender writes a message down: the line that says what it is, and   *)
(* among other headers those of Call-ID and CSeq.  Line ends, blanks, other  *)
(* lines and the body are free, and so are the names and the blanks before   *)
(* the colon, which SIP lets a sender choose (other case, the compact `i')   *)
(* and SIPParser does not.  A value that is folded over two lines, which SIP *)
(* allows as well, is not among these texts; SIPDatagram takes it as any     *)
(* other.                                                                  *)
(***************************************************************************)
EXTENDS SIPDatagram

CONSTANTS
  Meant,     \* the messages that are written down
  FirstLine, \* the first line of each
  Layout     \* [callID, cseq, eol, gap, tail, top, between, body]: the two names with
             \* their colons, what ends a line, what is between colon and value and
             \* between value and end of line, other lines before the Call-ID and
             \* between it and CSeq, and what follows the headers

Name(method) == IF method = "OTHER" THEN "OPTIONS" ELSE method

\* One line, with nothing to trim.
Plain(s) == s \in Seq(STRING) /\ trim(s) = s /\ \A i \in DOMAIN s : s[i] # "\n"

\* The first line says what the message is: by its method, or by the codes in it.
ASSUME MeantAssumption ==
  \A m \in Meant :
    /\ m \in Message /\ Plain(m.callID) /\ Plain(FirstLine[m])
    /\ IF IsResponse(m)
       THEN /\ FirstLine[m] # <<>> /\ FirstLine[m][1] = "SIP/2.0"
            /\ m.line = {code \in Code : \E i \in DOMAIN FirstLine[m] : FirstLine[m][i] = code}
       ELSE Len(FirstLine[m]) > 1 /\ FirstLine[m][1] = Name(m.method) /\ FirstLine[m][2] = " "

Lines(s) == s \in Seq(STRING) /\ (s = <<>> \/ s[Len(s)] = "\n")

\* What may stand between name, colon, value and end of line.
Gap == {" ", "\t"}

\* A name and a colon as getHeader looks for them, and as SIP allows them.
Exactly(name) == << name, ":" >>
Spelling(s) ==
  /\ s \in Seq(STRING) /\ Len(s) > 1 /\ s[1] # "\n" /\ s[Len(s)] = ":"
  /\ \A i \in 2 .. Len(s) - 1 : s[i] \in Gap

\* No other line comes first that gives one of the two headers; lines that merely
\* quote them do not.
ASSUME LayoutAssumption ==
  \A l \in Layout :
    /\ Spelling(l.callID) /\ Spelling(l.cseq)
    /\ l.eol \in {CRLF, << "\n" >>} /\ l.gap \in Seq(Gap) /\ l.tail \in Seq(Gap)
    /\ Lines(l.top) /\ Lines(l.between) /\ l.body \in Seq(STRING)
    /\ HeaderLines(l.top, "Call-ID") = {}
    /\ HeaderLines(l.top, "CSeq") = {} /\ HeaderLines(l.between, "CSeq") = {}

HeaderLine(header, value, l) == header \o (l.gap \o value \o l.tail) \o l.eol

\* Without a Call-ID there is no line for it.
UpToCallID(m, l) ==
  FirstLine[m] \o l.eol \o l.top
    \o IF m.callID = <<>> THEN <<>> ELSE HeaderLine(l.callID, m.callID, l)

Rest(m, l) ==
  l.between \o HeaderLine(l.cseq, << "1", " ", Name(m.cseq) >>, l) \o l.eol \o l.body

Written(m, l) == UpToCallID(m, l) \o Rest(m, l)

\* Two messages that are the same request or response, if not to the same CSeq.
Alike(m, n) == m.kind = n.kind /\ IF IsResponse(m) THEN m.line = n.line ELSE m.method = n.method

\* The texts that are taken for something else than they were written to say: uncut and
\* with the names getHeader looks for; with that name and cut behind the Call-ID; and
\* with a Call-ID under a name that getHeader does not know, and no other in the text.
Misread ==
  {d \in Datagram :
    \E m \in Meant, l \in Layout :
      /\ m.callID # <<>> /\ d = Written(m, l)
      /\ \/ /\ l.callID = Exactly("Call-ID") /\ l.cseq = Exactly("CSeq")
            /\ Received(d) = d
            /\ Heard[d] # m
         \/ /\ l.callID = Exactly("Call-ID")
            /\ Len(Received(d)) >= Len(UpToCallID(m, l))
            /\ ~ (Alike(m, Heard[d]) /\ Heard[d].callID = m.callID)
         \/ /\ l.callID # Exactly("Call-ID") /\ HeaderLines(Rest(m, l), "Call-ID") = {}
            /\ Received(d) = d
            /\ ~ (Alike(m, Heard[d]) /\ Heard[d].callID = <<>>)}

\* A message whose sender writes "Call-ID:" and "CSeq:" as getHeader looks for them is
\* understood, whatever line ends and blanks follow, and whatever its other headers and
\* its body quote; cut behind its Call-ID, it is still the same request or response of
\* the same call.  A sender that writes the Call-ID's name in another way SIP allows gets
\* less: its message is taken for one without Call-ID, if no other line gives one.
AgreesWithSender == raw \notin Misread
===============================================================================
