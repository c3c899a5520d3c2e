------------------------------- MODULE SIPParser -------------------------------
(***************************************************************************)
(* SIPParser over text.  A text is a sequence of tokens: the blanks, the    *)
(* end of a line, the colon, and words, which are told apart but never      *)
(* looked into.  Lines are found where std::getline finds them.  parse      *)
(* also fills m_headers, which nothing reads: getHeader goes back to the    *)
(* text itself, all of it, the body included.                               *)
(***************************************************************************)
EXTENDS Naturals, Sequences, FiniteSetsExt

Blank == {" ", "\t", "\r"}
CRLF  == << "\r", "\n" >>

LineStarts(s)  == {i \in DOMAIN s : i = 1 \/ s[i - 1] = "\n"}
Line(s, start) ==
  LET ends == {i \in start .. Len(s) : s[i] = "\n"}
  IN  SubSeq(s, start, IF ends = {} THEN Len(s) ELSE Min(ends) - 1)

trim(s) ==
  LET ink == {i \in DOMAIN s : s[i] \notin Blank}
  IN  IF ink = {} THEN <<>> ELSE SubSeq(s, Min(ink), Max(ink))

\* What >> reads from a stringstream, and what it leaves.
FirstWord(s) ==
  LET blanks == {i \in DOMAIN trim(s) : trim(s)[i] \in Blank}
  IN  IF blanks = {} THEN trim(s) ELSE SubSeq(trim(s), 1, Min(blanks) - 1)
AfterFirstWord(s) == SubSeq(trim(s), Len(FirstWord(s)) + 1, Len(trim(s)))

\* The method parse takes from the first line.
getMethod(s) == FirstWord(Line(s, 1))

getRequestLine(s) == trim(Line(s, 1))

HeaderLines(s, name) == {i \in LineStarts(s) : i < Len(s) /\ s[i] = name /\ s[i + 1] = ":"}
Value(s, i) == trim(SubSeq(Line(s, i), 3, Len(Line(s, i))))

\* (mutant: the last of several headers counts, as in m_headers)
getHeader_Last(s, name) ==
  IF HeaderLines(s, name) = {} THEN <<>> ELSE Value(s, Max(HeaderLines(s, name)))

\* The first line anywhere in the text that begins with the name and a colon.
getHeader(s, name) ==
  IF HeaderLines(s, name) = {} THEN <<>> ELSE Value(s, Min(HeaderLines(s, name)))

getCallID(s)     == getHeader(s, "Call-ID")
getCSeq(s)       == getHeader(s, "CSeq")
getCSeqMethod(s) == FirstWord(AfterFirstWord(getCSeq(s)))
===============================================================================
