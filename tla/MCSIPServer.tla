------------------------------ MODULE MCSIPServer ------------------------------
(***************************************************************************)
(* Two Call-IDs, one of them the empty one of a message without Call-ID,    *)
(* two callers and the callee, any datagram from anyone.  The datagrams are *)
(* messages written down in several layouts, and a few that are none.       *)
(***************************************************************************)
EXTENDS SIPSender

id == << "id", "@", "host" >>

MCCallID == {id, <<>>}

\* The usual status lines, and a refusal whose reason phrase quotes two others.
MCStatusLine == {{code} : code \in Code} \cup {{"486", "200", "487"}, {}}

\* Of the requests that contradict themselves, those with CSeq BYE, and responses to
\* INVITE, BYE and CANCEL.
MCMeant == {m \in Message : m.cseq \in IF IsResponse(m) THEN {"INVITE", "BYE", "CANCEL"}
                                       ELSE {m.method, "BYE"}}

MCFirstLine == [m \in MCMeant |->
  IF IsResponse(m)
  THEN << "SIP/2.0", " " >> \o (IF "486" \in m.line THEN << "486", " " >> ELSE <<>>)
       \o (IF "180" \in m.line THEN << "180" >> ELSE <<>>) \o (IF "100" \in m.line THEN << "100" >> ELSE <<>>)
       \o (IF "200" \in m.line THEN << "200", " " >> ELSE <<>>)
       \o (IF "487" \in m.line THEN << "487", " " >> ELSE <<>>) \o << "reason" >>
  ELSE << Name(m.method), " ", "sip:service@host", " ", "SIP/2.0" >>]

Usual == [callID |-> Exactly("Call-ID"), cseq |-> Exactly("CSeq"), eol |-> CRLF, gap |-> << " " >>,
          tail |-> <<>>, top |-> <<>>, between |-> <<>>, body |-> <<>>]

\* Plain; blanks at other places and lines that quote the Call-ID's name; bare line
\* feeds and a body of headers; a line that does not fit into the buffer; a NUL, and
\* behind it a second Call-ID; names in other ways than getHeader knows, the last with
\* a body that has a Call-ID as getHeader knows it.
MCLayout == {
  Usual,
  [Usual EXCEPT !.gap = <<>>, !.tail = << " ", "\t" >>,
   !.top = << "X-Call-ID", ":", " ", "other", "\r", "\n", "Via", ":", "Call-ID", ":", "other", "\r", "\n" >>],
  [Usual EXCEPT !.eol = << "\n" >>, !.gap = << " ", " ", "\t" >>,
   !.body = << "Call-ID", ":", "\n", "CSeq", ":", " ", "2", " ", "BYE" >>],
  [Usual EXCEPT !.between = << "Via", ":" >> \o [i \in 1 .. Limit |-> "hop"] \o CRLF],
  [Usual EXCEPT !.between = << "Via", ":", "NUL" >> \o CRLF \o << "Call-ID", ":" >> \o CRLF],
  [Usual EXCEPT !.callID = << "Call-ID", " ", ":" >>],
  [Usual EXCEPT !.callID = << "i", ":" >>, !.cseq = << "cseq", ":" >>],
  [Usual EXCEPT !.callID = << "call-id", ":" >>,
   !.body = << "Call-ID", ":" >> \o id]}

\* A keep-alive, a lone word, a text that begins with a NUL, and a folded Call-ID.
Odd == { CRLF \o CRLF, << "INVITE" >>, << "NUL", "INVITE", "\n", "Call-ID", ":", "id" >>,
         << "BYE", " ", "sip:service@host" >> \o CRLF \o << "Call-ID", ":" >> \o CRLF
           \o << " ", "id" >> \o CRLF }

MCDatagram == {Written(m, l) : m \in MCMeant, l \in MCLayout} \cup Odd
===============================================================================
