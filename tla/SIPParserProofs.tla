---------------------------- MODULE SIPParserProofs ----------------------------
(***************************************************************************)
(* What SIPParser makes of a text, for texts of any length: where a line    *)
(* ends, what trim leaves, and that the header a text is asked for is the   *)
(* first line that begins with its name, however blanks are put around its  *)
(* value and whatever follows it.                                           *)
(***************************************************************************)
EXTENDS SIPParser, WellFoundedInduction, SequenceTheorems, TLAPS

LEMMA NatSetHasLeast ==
  ASSUME NEW S \in SUBSET Nat, S # {}
  PROVE  \E x \in S : \A y \in S : x <= y
<1> DEFINE R == OpToRel(<, Nat)
<1>1. IsWellFoundedOn(R, Nat)
  BY NatLessThanWellFounded
<1>2. PICK x \in S : \A y \in S : <<y, x>> \notin R
  BY <1>1, WFMin
<1>3. ASSUME NEW y \in S PROVE x <= y
  <2>1. <<y, x>> \notin R
    BY <1>2
  <2>2. ~ (y < x)
    BY <2>1, <1>2 DEF OpToRel
  <2> QED
    BY <2>2
<1> QED
  BY <1>3

LEMMA MinIs ==
  ASSUME NEW S \in SUBSET Nat, S # {}
  PROVE  Min(S) \in S /\ \A y \in S : Min(S) <= y
<1> DEFINE Least(x) == \A y \in S : x <= y
<1>1. \E x \in S : Least(x)
  BY NatSetHasLeast
<1> HIDE DEF Least
<1>2. (CHOOSE x \in S : Least(x)) \in S /\ Least(CHOOSE x \in S : Least(x))
  BY <1>1
<1> USE DEF Least
<1> QED
  BY <1>2 DEF Min
LEMMA MaxIs ==
  ASSUME NEW n \in Nat, NEW S \in SUBSET (0 .. n), S # {}
  PROVE  Max(S) \in S /\ \A y \in S : y <= Max(S)
<1> DEFINE Greatest(x) == \A y \in S : x >= y
           T == {n - x : x \in S}
<1>1. T \in SUBSET Nat /\ T # {}
  <2>1. \A x \in S : n - x \in Nat
    OBVIOUS
  <2> QED
    BY <2>1
<1>2. PICK t \in T : \A u \in T : t <= u
  BY <1>1, NatSetHasLeast
<1>3. PICK x \in S : t = n - x
  BY <1>2
<1>4. Greatest(x)
  <2> SUFFICES ASSUME NEW y \in S PROVE x >= y
    OBVIOUS
  <2>1. t <= n - y
    BY <1>2
  <2> QED
    BY <2>1, <1>3
<1> HIDE DEF Greatest
<1>5. (CHOOSE y \in S : Greatest(y)) \in S /\ Greatest(CHOOSE y \in S : Greatest(y))
  BY <1>4
<1> USE DEF Greatest
<1> QED
  BY <1>5 DEF Max

-------------------------------------------------------------------------------
\* Tokens are strings; those the code writes itself are named, because the provers
\* tell strings apart but do not know that they are in STRING.
Token == STRING \cup {"SIP/2.0", " ", "\t", "\r", "\n", ":", "100", "Trying", "200", "OK", "0",
                      "Via", "From", "To", "Call-ID", "CSeq", "Content-Length", "1",
                      "INVITE", "ACK", "BYE", "CANCEL", "OPTIONS"}

Text == Seq(Token)

\* The blank has a name of its own in the proofs, which the provers handle better.
Space == " "

LEMMA SpaceIs ==
  /\ Space \in Token /\ Space \in Blank /\ "\r" \in Blank /\ Space # "\n"
  /\ "SIP/2.0" \notin Blank /\ "Trying" \notin Blank /\ "OK" \notin Blank
BY Zenon DEF Space, Token, Blank

OneLine(L)  == \A i \in DOMAIN L : L[i] # "\n"
EndsLine(P) == P = <<>> \/ P[Len(P)] = "\n"

\* What is cut out of a text is text.
LEMMA PartIsText ==
  ASSUME NEW s \in Text, NEW i \in 1 .. Len(s) + 1, NEW j \in 0 .. Len(s)
  PROVE  /\ SubSeq(s, i, j) \in Text
         /\ Len(SubSeq(s, i, j)) = IF i <= j THEN j - i + 1 ELSE 0
         /\ \A k \in 1 .. j - i + 1 : SubSeq(s, i, j)[k] = s[i + k - 1]
<1>1. \A k \in i .. j : s[k] \in Token
  BY ElementOfSeq DEF Text
<1> QED
  BY <1>1, SubSeqProperties DEF Text

LEMMA LineIs ==
  ASSUME NEW s \in Text, NEW i \in DOMAIN s, NEW j \in i .. Len(s) + 1,
         j = Len(s) + 1 \/ s[j] = "\n", \A k \in i .. j - 1 : s[k] # "\n"
  PROVE  Line(s, i) = SubSeq(s, i, j - 1)
<1> DEFINE ends == {k \in i .. Len(s) : s[k] = "\n"}
<1>0. Len(s) \in Nat /\ DOMAIN s = 1 .. Len(s)
  BY LenProperties DEF Text
<1>1. CASE j = Len(s) + 1
  <2>1. ends = {}
    BY <1>0, <1>1
  <2> QED
    BY <1>0, <1>1, <2>1 DEF Line
<1>2. CASE j # Len(s) + 1
  <2>1. j \in ends /\ ends \in SUBSET Nat
    BY <1>0, <1>2
  <2>2. Min(ends) \in ends /\ Min(ends) <= j
    BY <2>1, MinIs
  <2>3. Min(ends) = j
    BY <1>0, <2>2
  <2>4. ends # {}
    BY <2>1
  <2> QED
    BY <2>3, <2>4 DEF Line
<1> QED
  BY <1>1, <1>2

\* A line of a text is text, without the end of the line.
LEMMA LineIsLine ==
  ASSUME NEW s \in Text, NEW i \in 1 .. Len(s) + 1
  PROVE  Line(s, i) \in Text /\ OneLine(Line(s, i))
<1> DEFINE ends == {k \in i .. Len(s) : s[k] = "\n"}
           j == IF ends = {} THEN Len(s) ELSE Min(ends) - 1
<1>0. Len(s) \in Nat /\ DOMAIN s = 1 .. Len(s)
  BY LenProperties DEF Text
<1>1. j \in 0 .. Len(s) /\ \A k \in i .. j : s[k] # "\n"
  <2>1. CASE ends = {}
    BY <1>0, <2>1
  <2>2. CASE ends # {}
    <3>1. ends \in SUBSET Nat
      BY <1>0
    <3>2. Min(ends) \in ends /\ \A y \in ends : Min(ends) <= y
      BY <2>2, <3>1, MinIs
    <3> HIDE DEF ends
    <3>3. j = Min(ends) - 1
      BY <2>2
    <3>4. Min(ends) \in i .. Len(s) /\ \A k \in i .. Len(s) : s[k] = "\n" => Min(ends) <= k
      BY <3>2 DEF ends
    <3> QED
      BY <1>0, <3>3, <3>4
  <2> QED
    BY <2>1, <2>2
<1>2. Line(s, i) = SubSeq(s, i, j)
  BY DEF Line
<1> HIDE DEF j
<1>3. Line(s, i) \in Text /\ Len(Line(s, i)) = IF i <= j THEN j - i + 1 ELSE 0
  BY <1>0, <1>1, <1>2, PartIsText
<1>4. \A k \in 1 .. j - i + 1 : Line(s, i)[k] = s[i + k - 1]
  BY <1>0, <1>1, <1>2, PartIsText
<1>5. DOMAIN Line(s, i) = 1 .. Len(Line(s, i))
  BY <1>3, LenProperties DEF Text
<1> QED
  BY <1>0, <1>1, <1>3, <1>4, <1>5 DEF OneLine

-------------------------------------------------------------------------------
(* trim. *)

\* trim cuts at the first and the last token that is not a blank.
LEMMA TrimIs ==
  ASSUME NEW s \in Text, NEW i \in DOMAIN s, NEW j \in DOMAIN s,
         s[i] \notin Blank, s[j] \notin Blank,
         \A k \in DOMAIN s : s[k] \notin Blank => i <= k /\ k <= j
  PROVE  trim(s) = SubSeq(s, i, j)
<1> DEFINE ink == {k \in DOMAIN s : s[k] \notin Blank}
<1>1. Len(s) \in Nat /\ DOMAIN s = 1 .. Len(s)
  BY LenProperties DEF Text
<1>2. ink \in SUBSET Nat /\ ink \in SUBSET (0 .. Len(s)) /\ i \in ink /\ j \in ink
  BY <1>1
<1>3. Min(ink) = i
  <2>1. Min(ink) \in ink /\ Min(ink) <= i
    BY <1>2, MinIs
  <2> QED
    BY <1>1, <2>1
<1>4. Max(ink) = j
  <2>1. Max(ink) \in ink /\ j <= Max(ink)
    BY <1>1, <1>2, MaxIs
  <2> QED
    BY <1>1, <2>1
<1>5. ink # {}
  BY <1>2
<1> QED
  BY <1>3, <1>4, <1>5 DEF trim

LEMMA TrimNothing ==
  ASSUME NEW s, \A k \in DOMAIN s : s[k] \in Blank
  PROVE  trim(s) = <<>>
BY DEF trim

\* A text that trim leaves as it is: it has no blank at either end.
Trimmed(s) == s = <<>> \/ (s[1] \notin Blank /\ s[Len(s)] \notin Blank)

\* What trim returns: a part of the text without a blank at either end.
LEMMA TrimReturns ==
  ASSUME NEW s \in Text
  PROVE  /\ trim(s) \in Text
         /\ Trimmed(trim(s))
         /\ OneLine(s) => OneLine(trim(s))
<1> DEFINE ink == {k \in DOMAIN s : s[k] \notin Blank}
<1>0. Len(s) \in Nat /\ DOMAIN s = 1 .. Len(s)
  BY LenProperties DEF Text
<1>1. CASE ink = {}
  BY <1>1, EmptySeq DEF trim, Text, OneLine, Trimmed
<1>2. CASE ink # {}
  <2>1. ink \in SUBSET Nat /\ ink \in SUBSET (0 .. Len(s))
    BY <1>0
  <2>2. Min(ink) \in ink /\ \A k \in ink : Min(ink) <= k
    BY <1>2, <2>1, MinIs
  <2>3. Max(ink) \in ink
    BY <1>0, <1>2, <2>1, MaxIs
  <2>4. PICK i \in ink, j \in ink : i = Min(ink) /\ j = Max(ink) /\ i <= j
    BY <2>2, <2>3
  <2>5. trim(s) = SubSeq(s, i, j)
    BY <1>2, <2>4 DEF trim
  <2>6. i \in 1 .. Len(s) + 1 /\ j \in 0 .. Len(s) /\ s[i] \notin Blank /\ s[j] \notin Blank
    BY <1>0, <2>4
  <2>7. trim(s) \in Text /\ Len(trim(s)) = j - i + 1
    BY <2>4, <2>5, <2>6, PartIsText
  <2>8. \A k \in 1 .. j - i + 1 : trim(s)[k] = s[i + k - 1]
    BY <2>5, <2>6, PartIsText
  <2>9. Trimmed(trim(s))
    <3>1. trim(s)[1] = s[i] /\ trim(s)[Len(trim(s))] = s[j]
      BY <1>0, <2>4, <2>6, <2>7, <2>8
    <3> QED
      BY <2>6, <3>1 DEF Trimmed
  <2>10. DOMAIN trim(s) = 1 .. j - i + 1
    BY <2>7, LenProperties DEF Text
  <2>11. ASSUME OneLine(s), NEW k \in DOMAIN trim(s) PROVE trim(s)[k] # "\n"
    <3>1. trim(s)[k] = s[i + k - 1]
      BY <2>8, <2>10
    <3>2. i + k - 1 \in DOMAIN s
      BY <1>0, <2>6, <2>10
    <3> QED
      BY <2>11, <3>1, <3>2 DEF OneLine
  <2> QED
    BY <2>7, <2>9, <2>11 DEF OneLine
<1> QED
  BY <1>1, <1>2

\* Blanks around a value do not matter.
LEMMA TrimPadded ==
  ASSUME NEW pre \in Text, NEW v \in Text, NEW post \in Text, Trimmed(v),
         \A k \in DOMAIN pre : pre[k] \in Blank, \A k \in DOMAIN post : post[k] \in Blank
  PROVE  trim(pre \o v \o post) = v
<1> DEFINE s == pre \o v \o post
<1>0. /\ Len(pre) \in Nat /\ DOMAIN pre = 1 .. Len(pre)
      /\ Len(v) \in Nat /\ DOMAIN v = 1 .. Len(v)
      /\ Len(post) \in Nat /\ DOMAIN post = 1 .. Len(post)
  BY LenProperties DEF Text
<1>1. /\ pre \o v \in Text /\ Len(pre \o v) = Len(pre) + Len(v)
      /\ \A k \in 1 .. Len(pre) + Len(v) :
           (pre \o v)[k] = IF k <= Len(pre) THEN pre[k] ELSE v[k - Len(pre)]
  BY ConcatProperties DEF Text
<1>2. /\ s \in Text /\ Len(s) = Len(pre \o v) + Len(post)
      /\ \A k \in 1 .. Len(pre \o v) + Len(post) :
           s[k] = IF k <= Len(pre \o v) THEN (pre \o v)[k] ELSE post[k - Len(pre \o v)]
  BY <1>1, ConcatProperties DEF Text
<1>3. DOMAIN s = 1 .. Len(pre) + Len(v) + Len(post)
  BY <1>0, <1>1, <1>2, LenProperties DEF Text
<1> HIDE DEF s
<1>4. \A k \in 1 .. Len(pre) : s[k] \in Blank
  BY <1>0, <1>1, <1>2
<1>5. \A k \in 1 .. Len(v) : s[Len(pre) + k] = v[k]
  BY <1>0, <1>1, <1>2
<1>6. \A k \in Len(pre) + Len(v) + 1 .. Len(pre) + Len(v) + Len(post) : s[k] \in Blank
  BY <1>0, <1>1, <1>2
<1>7. CASE v = <<>>
  <2>1. Len(v) = 0
    BY <1>7
  <2>2. \A k \in DOMAIN s : s[k] \in Blank
    BY <1>0, <1>3, <1>4, <1>6, <2>1
  <2> QED
    BY <1>7, <2>2, TrimNothing DEF s
<1>8. CASE v # <<>>
  <2> DEFINE i == Len(pre) + 1
             j == Len(pre) + Len(v)
  <2>1. Len(v) > 0
    BY <1>0, <1>8, EmptySeq DEF Text
  <2>2. i \in DOMAIN s /\ j \in DOMAIN s /\ s[i] = v[1] /\ s[j] = v[Len(v)]
    BY <1>0, <1>3, <1>5, <2>1
  <2>3. \A k \in DOMAIN s : s[k] \notin Blank => i <= k /\ k <= j
    BY <1>0, <1>3, <1>4, <1>6
  <2>4. trim(s) = SubSeq(s, i, j)
    BY <1>2, <1>8, <2>2, <2>3, TrimIs DEF Trimmed
  <2>5. i \in 1 .. Len(s) + 1 /\ j \in 0 .. Len(s)
    BY <1>0, <1>1, <1>2
  <2>6. SubSeq(s, i, j) \in Text /\ Len(SubSeq(s, i, j)) = IF i <= j THEN j - i + 1 ELSE 0
    BY <1>2, <2>5, PartIsText
  <2>7. \A k \in 1 .. j - i + 1 : SubSeq(s, i, j)[k] = s[i + k - 1]
    BY <1>2, <2>5, PartIsText
  <2>8. \A k \in 1 .. Len(v) : SubSeq(s, i, j)[k] = v[k]
    BY <1>0, <1>5, <2>1, <2>7
  <2>9. Len(SubSeq(s, i, j)) = Len(v)
    BY <1>0, <2>1, <2>6
  <2>10. SubSeq(s, i, j) = v
    BY <2>6, <2>8, <2>9, SeqEqual DEF Text
  <2> QED
    BY <2>4, <2>10 DEF s
<1> QED
  BY <1>7, <1>8

LEMMA TrimBehind ==
  ASSUME NEW v \in Text, NEW post \in Text, Trimmed(v), \A k \in DOMAIN post : post[k] \in Blank
  PROVE  trim(v \o post) = v
<1>1. PICK pre \in Text : pre = <<>>
  BY EmptySeq DEF Text
<1>2. trim(pre \o v \o post) = v
  <2>1. \A k \in DOMAIN pre : pre[k] \in Blank
    BY <1>1
  <2> QED
    BY <2>1, TrimPadded
<1>3. pre \o v = v
  BY <1>1, ConcatEmptySeq DEF Text
<1> QED
  BY <1>2, <1>3

-------------------------------------------------------------------------------
(* Lines and headers of a text that is put together. *)

LEMMA ConcatIs ==
  ASSUME NEW P \in Text, NEW R \in Text
  PROVE  /\ P \o R \in Text /\ Len(P \o R) = Len(P) + Len(R)
         /\ Len(P) \in Nat /\ DOMAIN P = 1 .. Len(P)
         /\ Len(R) \in Nat /\ DOMAIN R = 1 .. Len(R)
         /\ DOMAIN (P \o R) = 1 .. Len(P) + Len(R)
         /\ \A k \in 1 .. Len(P) : (P \o R)[k] = P[k]
         /\ \A k \in 1 .. Len(R) : (P \o R)[Len(P) + k] = R[k]
<1>1. /\ Len(P) \in Nat /\ DOMAIN P = 1 .. Len(P)
      /\ Len(R) \in Nat /\ DOMAIN R = 1 .. Len(R)
  BY LenProperties DEF Text
<1>2. /\ P \o R \in Text /\ Len(P \o R) = Len(P) + Len(R)
      /\ \A k \in 1 .. Len(P) + Len(R) :
           (P \o R)[k] = IF k <= Len(P) THEN P[k] ELSE R[k - Len(P)]
  BY ConcatProperties DEF Text
<1>3. DOMAIN (P \o R) = 1 .. Len(P) + Len(R)
  BY <1>2, LenProperties DEF Text
<1> HIDE DEF Text
<1> QED
  BY <1>1, <1>2, <1>3

LEMMA OneLineParts ==
  ASSUME NEW P \in Text, NEW R \in Text, OneLine(P), OneLine(R)
  PROVE  OneLine(P \o R)
<1> DEFINE Q == P \o R
<1>1. /\ Len(P) \in Nat /\ DOMAIN P = 1 .. Len(P) /\ Len(R) \in Nat /\ DOMAIN R = 1 .. Len(R)
      /\ DOMAIN Q = 1 .. Len(P) + Len(R)
      /\ \A k \in 1 .. Len(P) : Q[k] = P[k]
      /\ \A k \in 1 .. Len(R) : Q[Len(P) + k] = R[k]
  BY ConcatIs
<1> HIDE DEF Q
<1>2. ASSUME NEW k \in DOMAIN Q PROVE Q[k] # "\n"
  <2>1. CASE k <= Len(P)
    BY <1>1, <2>1 DEF OneLine
  <2>2. CASE k > Len(P)
    <3>1. k - Len(P) \in 1 .. Len(R) /\ Len(P) + (k - Len(P)) = k
      BY <1>1, <2>2
    <3> QED
      BY <1>1, <3>1 DEF OneLine
  <2> QED
    BY <1>1, <2>1, <2>2
<1> QED
  BY <1>2 DEF OneLine, Q

\* What follows a finished line leaves that line as it is.
LEMMA LineKept ==
  ASSUME NEW P \in Text, NEW R \in Text, EndsLine(P), NEW i \in DOMAIN P
  PROVE  Line(P \o R, i) = Line(P, i)
<1> DEFINE ends == {k \in i .. Len(P) : P[k] = "\n"}
           j == Min(ends)
<1>1. /\ P \o R \in Text /\ Len(P \o R) = Len(P) + Len(R)
      /\ Len(P) \in Nat /\ DOMAIN P = 1 .. Len(P) /\ Len(R) \in Nat
      /\ DOMAIN (P \o R) = 1 .. Len(P) + Len(R)
      /\ \A k \in 1 .. Len(P) : (P \o R)[k] = P[k]
  BY ConcatIs
<1>2. Len(P) \in ends
  BY <1>1 DEF EndsLine
<1>3. ends \in SUBSET Nat
  BY <1>1
<1>4. j \in ends /\ \A k \in ends : j <= k
  BY <1>2, <1>3, MinIs
<1> HIDE DEF j
<1>5. j \in i .. Len(P) /\ P[j] = "\n" /\ \A k \in i .. j - 1 : P[k] # "\n"
  BY <1>1, <1>4
<1>6. Line(P, i) = SubSeq(P, i, j - 1)
  BY <1>1, <1>5, LineIs
<1>7. /\ i \in DOMAIN (P \o R) /\ j \in i .. Len(P \o R) + 1 /\ (P \o R)[j] = "\n"
      /\ \A k \in i .. j - 1 : (P \o R)[k] # "\n"
  BY <1>1, <1>5
<1>8. Line(P \o R, i) = SubSeq(P \o R, i, j - 1)
  BY <1>1, <1>7, LineIs
<1>9. SubSeq(P \o R, i, j - 1) = SubSeq(P, i, j - 1)
  <2>1. CASE i <= j - 1
    <3>1. i \in 1 .. Len(P) /\ j - 1 \in 1 .. Len(P)
      BY <1>1, <1>5, <2>1
    <3> HIDE DEF ends
    <3> QED
      BY <3>1, SubSeqOfConcat1 DEF Text
  <2>2. CASE j - 1 < i
    BY <1>1, <1>5, <2>2, SubSeqEmpty
  <2> QED
    BY <1>1, <1>5, <2>1, <2>2
<1> QED
  BY <1>6, <1>8, <1>9

\* The text P with the line L behind it.
Then(P, L) == P \o L \o << "\n" >>

LEMMA LineEndIsText == << "\n" >> \in Text /\ Len(<< "\n" >>) = 1 /\ << "\n" >>[1] = "\n"
<1>1. "\n" \in Token
  BY DEF Token
<1> QED
  BY <1>1 DEF Text

LEMMA ThenIs ==
  ASSUME NEW P \in Text, NEW L \in Text
  PROVE  /\ Len(P) \in Nat /\ DOMAIN P = 1 .. Len(P)
         /\ Len(L) \in Nat /\ DOMAIN L = 1 .. Len(L)
         /\ Then(P, L) \in Text /\ Len(Then(P, L)) = Len(P) + Len(L) + 1
         /\ DOMAIN Then(P, L) = 1 .. Len(P) + Len(L) + 1
         /\ \A k \in 1 .. Len(P) : Then(P, L)[k] = P[k]
         /\ \A k \in 1 .. Len(L) : Then(P, L)[Len(P) + k] = L[k]
         /\ Then(P, L)[Len(P) + Len(L) + 1] = "\n"
         /\ Then(P, L) # <<>> /\ EndsLine(Then(P, L))
<1> DEFINE PL == P \o L
           N == << "\n" >>
           Q == PL \o N
           p == Len(P)
           l == Len(L)
<1>1. /\ PL \in Text /\ Len(PL) = p + l
      /\ p \in Nat /\ DOMAIN P = 1 .. p /\ l \in Nat /\ DOMAIN L = 1 .. l
      /\ \A k \in 1 .. p : PL[k] = P[k]
      /\ \A k \in 1 .. l : PL[p + k] = L[k]
  BY ConcatIs
<1>2. N \in Text /\ Len(N) = 1 /\ N[1] = "\n"
  BY LineEndIsText
<1>3. Then(P, L) = Q
  BY DEF Then
<1> HIDE DEF PL, N
<1>4. /\ Q \in Text /\ Len(Q) = Len(PL) + Len(N)
      /\ DOMAIN Q = 1 .. Len(PL) + Len(N)
      /\ \A k \in 1 .. Len(PL) : Q[k] = PL[k]
      /\ \A k \in 1 .. Len(N) : Q[Len(PL) + k] = N[k]
  BY <1>1, <1>2, ConcatIs
<1> HIDE DEF Q
<1>5. Len(Q) = p + l + 1 /\ Q[p + l + 1] = "\n" /\ DOMAIN Q = 1 .. p + l + 1
  BY <1>1, <1>2, <1>4
<1>6. Q # <<>> /\ EndsLine(Q)
  BY <1>1, <1>5 DEF EndsLine
<1>7. /\ \A k \in 1 .. p : Q[k] = P[k]
      /\ \A k \in 1 .. l : Q[p + k] = L[k]
  BY <1>1, <1>4
<1> QED
  BY <1>1, <1>3, <1>4, <1>5, <1>6, <1>7

\* The line behind finished lines is found as it was written.
LEMMA LineBehind ==
  ASSUME NEW P \in Text, EndsLine(P), NEW L \in Text, OneLine(L)
  PROVE  /\ Len(P) + 1 \in LineStarts(Then(P, L))
         /\ Line(Then(P, L), Len(P) + 1) = L
<1> DEFINE Q == Then(P, L)
           p == Len(P)
           l == Len(L)
<1>1. /\ p \in Nat /\ DOMAIN P = 1 .. p /\ l \in Nat /\ DOMAIN L = 1 .. l
      /\ Q \in Text /\ Len(Q) = p + l + 1 /\ DOMAIN Q = 1 .. p + l + 1
      /\ \A k \in 1 .. p : Q[k] = P[k]
      /\ \A k \in 1 .. l : Q[p + k] = L[k]
      /\ Q[p + l + 1] = "\n"
  BY ThenIs
<1> HIDE DEF Q
<1>2. p + 1 \in LineStarts(Q)
  <2>1. CASE P = <<>>
    BY <1>1, <2>1 DEF LineStarts
  <2>2. CASE P # <<>>
    <3>1. p > 0 /\ P[p] = "\n"
      BY <1>1, <2>2, EmptySeq DEF EndsLine, Text
    <3> QED
      BY <1>1, <3>1 DEF LineStarts
  <2> QED
    BY <2>1, <2>2
<1>3. \A k \in p + 1 .. p + l : Q[k] # "\n"
  <2> SUFFICES ASSUME NEW k \in p + 1 .. p + l PROVE Q[k] # "\n"
    OBVIOUS
  <2>1. k - p \in 1 .. l /\ p + (k - p) = k
    BY <1>1
  <2>2. Q[k] = L[k - p]
    BY <1>1, <2>1
  <2> QED
    BY <1>1, <2>1, <2>2 DEF OneLine
<1>4. Line(Q, p + 1) = SubSeq(Q, p + 1, p + l)
  <2>1. p + 1 \in DOMAIN Q /\ p + l + 1 \in p + 1 .. Len(Q) + 1 /\ (p + l + 1) - 1 = p + l
    BY <1>1
  <2> QED
    BY <1>1, <1>3, <2>1, LineIs
<1>5. SubSeq(Q, p + 1, p + l) = L
  <2>1. p + 1 \in 1 .. Len(Q) + 1 /\ p + l \in 0 .. Len(Q)
    BY <1>1
  <2>2. /\ SubSeq(Q, p + 1, p + l) \in Text
        /\ Len(SubSeq(Q, p + 1, p + l)) = IF p + 1 <= p + l THEN (p + l) - (p + 1) + 1 ELSE 0
        /\ \A k \in 1 .. (p + l) - (p + 1) + 1 : SubSeq(Q, p + 1, p + l)[k] = Q[p + 1 + k - 1]
    BY <1>1, <2>1, PartIsText
  <2>3. Len(SubSeq(Q, p + 1, p + l)) = l
    BY <1>1, <2>2
  <2>4. \A k \in 1 .. l : SubSeq(Q, p + 1, p + l)[k] = L[k]
    BY <1>1, <2>2
  <2> QED
    BY <2>2, <2>3, <2>4, SeqEqual DEF Text
<1> QED
  BY <1>2, <1>4, <1>5 DEF Q

\* Behind finished lines nothing makes one of them a header or takes one away.
LEMMA HeaderLinesKept ==
  ASSUME NEW P \in Text, NEW R \in Text, EndsLine(P), NEW name, name # "\n", NEW i \in DOMAIN P
  PROVE  i \in HeaderLines(P \o R, name) <=> i \in HeaderLines(P, name)
<1> DEFINE Q == P \o R
<1>1. /\ Len(Q) = Len(P) + Len(R)
      /\ Len(P) \in Nat /\ DOMAIN P = 1 .. Len(P) /\ Len(R) \in Nat
      /\ DOMAIN Q = 1 .. Len(P) + Len(R)
      /\ \A k \in 1 .. Len(P) : Q[k] = P[k]
  BY ConcatIs
<1> HIDE DEF Q
<1>2. i \in LineStarts(Q) <=> i \in LineStarts(P)
  BY <1>1 DEF LineStarts
<1>3. CASE i < Len(P)
  BY <1>1, <1>2, <1>3 DEF HeaderLines, Q
<1>4. CASE i = Len(P)
  <2>1. Q[i] = "\n" /\ P[i] = "\n"
    BY <1>1, <1>4 DEF EndsLine
  <2> QED
    BY <2>1 DEF HeaderLines, Q
<1> QED
  BY <1>1, <1>3, <1>4

LEMMA HeaderLinesAreIn ==
  ASSUME NEW s \in Text, NEW name
  PROVE  HeaderLines(s, name) \in SUBSET Nat /\ HeaderLines(s, name) \subseteq DOMAIN s
BY LenProperties DEF HeaderLines, LineStarts, Text

\* A header that a text has in finished lines keeps its value whatever follows.
LEMMA HeaderKept ==
  ASSUME NEW P \in Text, NEW R \in Text, EndsLine(P), NEW name, name # "\n",
         HeaderLines(P, name) # {}
  PROVE  HeaderLines(P \o R, name) # {} /\ getHeader(P \o R, name) = getHeader(P, name)
<1> DEFINE Q == P \o R
           HP == HeaderLines(P, name)
           HQ == HeaderLines(Q, name)
<1>1. /\ Q \in Text /\ Len(P) \in Nat /\ Len(R) \in Nat /\ DOMAIN P = 1 .. Len(P)
      /\ DOMAIN Q = 1 .. Len(P) + Len(R)
  BY ConcatIs
<1>2. \A i \in DOMAIN P : i \in HQ <=> i \in HP
  BY HeaderLinesKept
<1>3. HP \in SUBSET Nat /\ HP \subseteq DOMAIN P /\ HQ \in SUBSET Nat /\ HQ \subseteq DOMAIN Q
  BY <1>1, HeaderLinesAreIn
<1>4. Min(HP) \in HP /\ \A i \in HP : Min(HP) <= i
  BY <1>3, MinIs
<1>5. \A i \in DOMAIN P : Line(Q, i) = Line(P, i)
  BY LineKept
<1>6. getHeader(P, name) = Value(P, Min(HP)) /\ (HQ # {} => getHeader(Q, name) = Value(Q, Min(HQ)))
  BY DEF getHeader
<1> HIDE DEF Q, HP, HQ
<1>7. HQ # {} /\ Min(HP) \in HQ
  BY <1>2, <1>3, <1>4
<1>8. Min(HQ) \in HQ /\ \A i \in HQ : Min(HQ) <= i
  BY <1>3, <1>7, MinIs
<1>9. Min(HQ) = Min(HP)
  <2> DEFINE q == Min(HQ)
             p == Min(HP)
  <2>0. q \in Nat /\ p \in Nat /\ q \in DOMAIN Q /\ p \in DOMAIN P
    BY <1>3, <1>4, <1>8
  <2> HIDE DEF q, p
  <2>1. q <= p
    BY <1>7, <1>8 DEF q, p
  <2>2. q \in DOMAIN P
    BY <1>1, <2>0, <2>1 DEF Q
  <2>3. p <= q
    BY <1>2, <1>4, <1>8, <2>2 DEF q, p
  <2> QED
    BY <2>0, <2>1, <2>3 DEF q, p
<1>10. Value(Q, Min(HQ)) = Value(P, Min(HP))
  BY <1>3, <1>4, <1>5, <1>9 DEF Value
<1> QED
  BY <1>6, <1>7, <1>10 DEF Q, HQ

\* The line L gives the header.
IsHeader(L, name) == Len(L) > 1 /\ L[1] = name /\ L[2] = ":"

\* Behind lines without the header, a line gives it if it begins with name and colon.
LEMMA HeaderFound ==
  ASSUME NEW P \in Text, EndsLine(P), NEW L \in Text, OneLine(L), NEW name, name # "\n",
         HeaderLines(P, name) = {}
  PROVE  /\ HeaderLines(Then(P, L), name) = IF IsHeader(L, name) THEN {Len(P) + 1} ELSE {}
         /\ IsHeader(L, name) => getHeader(Then(P, L), name) = trim(SubSeq(L, 3, Len(L)))
<1> DEFINE Q == Then(P, L)
           p == Len(P)
           l == Len(L)
           HQ == HeaderLines(Q, name)
<1>1. /\ p \in Nat /\ DOMAIN P = 1 .. p /\ l \in Nat /\ DOMAIN L = 1 .. l
      /\ Q \in Text /\ Len(Q) = p + l + 1 /\ DOMAIN Q = 1 .. p + l + 1
      /\ \A k \in 1 .. l : Q[p + k] = L[k]
      /\ Q[p + l + 1] = "\n"
  BY ThenIs
<1>2. p + 1 \in LineStarts(Q) /\ Line(Q, p + 1) = L
  BY LineBehind
<1>3. \A i \in DOMAIN P : i \notin HQ
  <2>1. L \o << "\n" >> \in Text /\ Q = P \o (L \o << "\n" >>)
    BY LineEndIsText, ConcatProperties, ConcatAssociative DEF Then, Text
  <2> QED
    BY <2>1, HeaderLinesKept
<1>4. getHeader(Q, name) = IF HQ = {} THEN <<>> ELSE Value(Q, Min(HQ))
  BY DEF getHeader
<1>5. HQ = {i \in LineStarts(Q) : i < Len(Q) /\ Q[i] = name /\ Q[i + 1] = ":"}
  BY DEF HeaderLines
<1>6. LineStarts(Q) = {i \in DOMAIN Q : i = 1 \/ Q[i - 1] = "\n"}
  BY DEF LineStarts
<1> HIDE DEF Q, HQ
<1>7. \A i \in HQ : i = p + 1
  <2> SUFFICES ASSUME NEW i \in HQ, i # p + 1 PROVE FALSE
    OBVIOUS
  <2>1. i \in 1 .. p + l /\ i \notin 1 .. p /\ (i = 1 \/ Q[i - 1] = "\n")
    BY <1>1, <1>3, <1>5, <1>6
  <2>2. i - 1 - p \in 1 .. l /\ p + (i - 1 - p) = i - 1 /\ Q[i - 1] = "\n"
    BY <1>1, <2>1
  <2>3. L[i - 1 - p] = "\n"
    BY <1>1, <2>2
  <2> QED
    BY <1>1, <2>2, <2>3 DEF OneLine
<1>8. p + 1 \in HQ <=> IsHeader(L, name)
  <2>1. CASE l = 0
    BY <1>1, <1>5, <2>1 DEF IsHeader
  <2>2. CASE l = 1
    <3>1. Q[p + 1 + 1] = "\n"
      BY <1>1, <2>2
    <3> QED
      BY <1>5, <2>2, <3>1 DEF IsHeader
  <2>3. CASE l > 1
    <3>1. Q[p + 1] = L[1] /\ Q[p + 1 + 1] = L[2]
      BY <1>1, <2>3
    <3> QED
      BY <1>1, <1>2, <1>5, <2>3, <3>1 DEF IsHeader
  <2> QED
    BY <1>1, <2>1, <2>2, <2>3
<1>9. HQ = IF IsHeader(L, name) THEN {p + 1} ELSE {}
  BY <1>7, <1>8
<1>10. ASSUME IsHeader(L, name) PROVE getHeader(Q, name) = trim(SubSeq(L, 3, Len(L)))
  <2>1. HQ # {} /\ HQ \in SUBSET Nat
    BY <1>1, <1>9, <1>10
  <2>2. Min(HQ) = p + 1
    BY <1>7, <2>1, MinIs
  <2>3. Value(Q, p + 1) = trim(SubSeq(L, 3, Len(L)))
    BY <1>2 DEF Value
  <2> QED
    BY <1>4, <2>1, <2>2, <2>3
<1> QED
  BY <1>9, <1>10 DEF Q, HQ

\* What is behind name and colon.
LEMMA TailOfLine ==
  ASSUME NEW L \in Text, OneLine(L)
  PROVE  SubSeq(L, 3, Len(L)) \in Text /\ OneLine(SubSeq(L, 3, Len(L)))
<1>1. Len(L) \in Nat /\ DOMAIN L = 1 .. Len(L)
  BY LenProperties DEF Text
<1>2. PICK n \in Nat : n = Len(L)
  BY <1>1
<1>3. CASE n < 2
  BY <1>2, <1>3, SubSeqEmpty, EmptySeq DEF Text, OneLine
<1>4. CASE n >= 2
  <2>1. 3 \in 1 .. Len(L) + 1 /\ n \in 0 .. Len(L)
    BY <1>2, <1>4
  <2>2. PICK v \in Text : /\ v = SubSeq(L, 3, n) /\ Len(v) = IF 3 <= n THEN n - 3 + 1 ELSE 0
                          /\ \A k \in 1 .. n - 3 + 1 : v[k] = L[3 + k - 1]
    BY <2>1, PartIsText
  <2>3. DOMAIN v = 1 .. Len(v)
    BY LenProperties DEF Text
  <2>4. ASSUME NEW k \in DOMAIN v PROVE v[k] # "\n"
    <3>1. k \in 1 .. n - 3 + 1
      BY <1>4, <2>2, <2>3
    <3>2. 3 + k - 1 \in DOMAIN L
      BY <1>1, <1>2, <3>1
    <3> QED
      BY <2>2, <3>1, <3>2 DEF OneLine
  <2> QED
    BY <1>2, <2>2, <2>4 DEF OneLine
<1> QED
  BY <1>3, <1>4

\* What getHeader returns: one line at most, without a blank at either end.
LEMMA HeaderReturns ==
  ASSUME NEW s \in Text, NEW name
  PROVE  /\ getHeader(s, name) \in Text
         /\ Trimmed(getHeader(s, name))
         /\ OneLine(getHeader(s, name))
<1> DEFINE H == HeaderLines(s, name)
<1>0. Len(s) \in Nat /\ DOMAIN s = 1 .. Len(s)
  BY LenProperties DEF Text
<1>1. H \in SUBSET Nat /\ H \subseteq DOMAIN s
  BY HeaderLinesAreIn
<1>2. CASE H = {}
  BY <1>2, EmptySeq DEF getHeader, Text, Trimmed, OneLine
<1>3. CASE H # {}
  <2>1. Min(H) \in H
    BY <1>1, <1>3, MinIs
  <2>2. PICK i \in 1 .. Len(s) : i = Min(H)
    BY <1>0, <1>1, <2>1
  <2> DEFINE L == Line(s, i)
             v == SubSeq(L, 3, Len(L))
  <2>3. L \in Text /\ OneLine(L)
    BY <1>0, <2>2, LineIsLine
  <2>4. getHeader(s, name) = trim(v)
    BY <1>3, <2>2 DEF getHeader, Value
  <2> HIDE DEF L
  <2>6. v \in Text /\ OneLine(v)
    BY <2>3, TailOfLine
  <2> HIDE DEF v
  <2> QED
    BY <2>4, <2>6, TrimReturns
<1> QED
  BY <1>2, <1>3
\* A line of name, colon and w gives the header of that name only, and w is what is
\* behind the colon.
LEMMA HeaderLineIs ==
  ASSUME NEW name \in Token, name # "\n", NEW w \in Text, OneLine(w)
  PROVE  LET L == << name, ":" >> \o w IN
         /\ L \in Text /\ OneLine(L)
         /\ \A x : IsHeader(L, x) <=> x = name
         /\ SubSeq(L, 3, Len(L)) = w
<1> DEFINE G == << name, ":" >>
           L == G \o w
<1>1. /\ G \in Text /\ Len(G) = 2 /\ G[1] = name /\ G[2] = ":" /\ OneLine(G)
  <2>1. ":" \in Token
    BY Zenon DEF Token
  <2> QED
    BY <2>1 DEF Text, OneLine
<1> HIDE DEF G
<1>2. OneLine(L)
  BY <1>1, OneLineParts
<1>3. /\ L \in Text /\ Len(L) = Len(G) + Len(w) /\ Len(w) \in Nat /\ DOMAIN L = 1 .. Len(G) + Len(w)
      /\ \A k \in 1 .. Len(G) : L[k] = G[k]
      /\ \A k \in 1 .. Len(w) : L[Len(G) + k] = w[k]
  BY <1>1, ConcatIs
<1> HIDE DEF L
<1>4. PICK n \in Nat : n = Len(w) /\ Len(L) = n + 2
  BY <1>1, <1>3
<1>5. /\ L[1] = name /\ L[2] = ":"
      /\ \A k \in 1 .. n : L[2 + k] = w[k]
  BY <1>1, <1>3, <1>4
<1>6. SubSeq(L, 3, n + 2) = w
  <2>1. 3 \in 1 .. Len(L) + 1 /\ n + 2 \in 0 .. Len(L)
    BY <1>4
  <2>2. PICK v \in Text : /\ v = SubSeq(L, 3, n + 2)
                          /\ Len(v) = IF 3 <= n + 2 THEN (n + 2) - 3 + 1 ELSE 0
                          /\ \A k \in 1 .. (n + 2) - 3 + 1 : v[k] = L[3 + k - 1]
    BY <1>3, <2>1, PartIsText
  <2>3. Len(v) = n /\ \A k \in 1 .. n : v[k] = w[k]
    BY <1>5, <2>2
  <2>4. v = w
    BY <1>4, <2>3, SeqEqual DEF Text
  <2> QED
    BY <2>2, <2>4
<1>7. \A x : IsHeader(L, x) <=> x = name
  BY <1>4, <1>5 DEF IsHeader
<1> QED
  BY <1>2, <1>3, <1>4, <1>6, <1>7 DEF L, G

\* A sender's header is understood: behind lines without it, with any blanks around the
\* value, and with anything behind it, other headers of that name and a body included.
THEOREM HeaderIsUnderstood ==
  ASSUME NEW P \in Text, EndsLine(P), NEW name \in Token, name # "\n", HeaderLines(P, name) = {},
         NEW pre \in Text, \A k \in DOMAIN pre : pre[k] \in Blank,
         NEW post \in Text, \A k \in DOMAIN post : post[k] \in Blank,
         NEW v \in Text, OneLine(v), Trimmed(v), NEW R \in Text
  PROVE  getHeader(Then(P, << name, ":" >> \o (pre \o v \o post)) \o R, name) = v
<1> DEFINE w == pre \o v \o post
           L == << name, ":" >> \o w
           Q == Then(P, L)
<1>1. w \in Text /\ trim(w) = v
  <2>1. pre \o v \in Text
    BY ConcatIs
  <2>2. w \in Text
    BY <2>1, ConcatIs
  <2> QED
    BY <2>2, TrimPadded
<1>2. OneLine(w)
  <2>1. "\n" \notin Blank
    BY Zenon DEF Blank
  <2>2. OneLine(pre) /\ OneLine(post)
    BY <2>1 DEF OneLine
  <2>3. pre \o v \in Text /\ OneLine(pre \o v)
    BY <2>2, ConcatIs, OneLineParts
  <2> QED
    BY <2>2, <2>3, OneLineParts
<1> HIDE DEF w
<1>3. /\ L \in Text /\ OneLine(L) /\ IsHeader(L, name) /\ SubSeq(L, 3, Len(L)) = w
  BY <1>1, <1>2, HeaderLineIs
<1> HIDE DEF L
<1>4. HeaderLines(Q, name) # {} /\ getHeader(Q, name) = v
  <2>1. /\ HeaderLines(Q, name) = {Len(P) + 1}
        /\ getHeader(Q, name) = trim(SubSeq(L, 3, Len(L)))
    BY <1>3, HeaderFound
  <2> QED
    BY <1>1, <1>3, <2>1
<1>5. Q \in Text /\ EndsLine(Q)
  BY <1>3, ThenIs
<1> HIDE DEF Q
<1>6. getHeader(Q \o R, name) = v
  BY <1>4, <1>5, HeaderKept
<1> QED
  BY <1>6 DEF Q, L, w
-------------------------------------------------------------------------------
\* Texts put together and cut, and the words in them.

\* Texts are put together in any grouping.
LEMMA Regrouped ==
  ASSUME NEW s \in Text, NEW t \in Text, NEW u \in Text
  PROVE  (s \o t) \o u = s \o (t \o u)
BY ConcatAssociative DEF Text

\* The beginning of a text.
LEMMA BeginningIs ==
  ASSUME NEW s \in Text, NEW n \in 0 .. Len(s)
  PROVE  /\ SubSeq(s, 1, n) \in Text /\ Len(SubSeq(s, 1, n)) = n
         /\ \A k \in 1 .. n : SubSeq(s, 1, n)[k] = s[k]
<1>1. Len(s) \in Nat
  BY LenProperties DEF Text
<1>2. 1 \in 1 .. Len(s) + 1
  BY <1>1
<1> DEFINE b == SubSeq(s, 1, n)
<1>3. /\ b \in Text /\ Len(b) = IF 1 <= n THEN n - 1 + 1 ELSE 0
      /\ \A k \in 1 .. n - 1 + 1 : b[k] = s[1 + k - 1]
  BY <1>2, PartIsText
<1> HIDE DEF b
<1>4. n \in Nat /\ n - 1 + 1 = n /\ \A k \in 1 .. n : 1 + k - 1 = k
  BY <1>1
<1>5. Len(b) = n
  BY <1>3, <1>4
<1>6. ASSUME NEW k \in 1 .. n PROVE b[k] = s[k]
  BY <1>3, <1>4
<1> QED
  BY <1>3, <1>5, <1>6 DEF b

\* If it reaches beyond a first part, it is that part and some text.
LEMMA CutBehind ==
  ASSUME NEW U \in Text, NEW R \in Text, NEW n \in 0 .. Len(U \o R), n >= Len(U)
  PROVE  \E T \in Text : SubSeq(U \o R, 1, n) = U \o T
<1> DEFINE d == U \o R
<1>1. /\ d \in Text /\ Len(d) = Len(U) + Len(R) /\ Len(U) \in Nat /\ Len(R) \in Nat
      /\ \A k \in 1 .. Len(U) : d[k] = U[k]
      /\ \A k \in 1 .. Len(R) : d[Len(U) + k] = R[k]
  BY ConcatIs
<1>2. n \in 0 .. Len(d) /\ n \in Nat /\ n - Len(U) \in 0 .. Len(R)
  BY <1>1
<1> HIDE DEF d
<1> DEFINE b == SubSeq(d, 1, n)
           j == n - Len(U)
           T == SubSeq(R, 1, j)
<1>3. b \in Text /\ Len(b) = n /\ \A k \in 1 .. n : b[k] = d[k]
  BY <1>1, <1>2, BeginningIs
<1>4. T \in Text /\ Len(T) = n - Len(U) /\ \A k \in 1 .. n - Len(U) : T[k] = R[k]
  <2>1. j \in 0 .. Len(R)
    BY <1>2
  <2> HIDE DEF j
  <2>2. T \in Text /\ Len(T) = j /\ \A k \in 1 .. j : T[k] = R[k]
    BY <2>1, BeginningIs
  <2> QED
    BY <2>2 DEF j
<1> HIDE DEF b, T
<1>5. /\ U \o T \in Text /\ Len(U \o T) = Len(U) + Len(T)
      /\ \A k \in 1 .. Len(U) : (U \o T)[k] = U[k]
      /\ \A k \in 1 .. Len(T) : (U \o T)[Len(U) + k] = T[k]
  BY <1>4, ConcatIs
<1> DEFINE c == U \o T
<1> HIDE DEF c
<1>6. Len(c) = Len(b) /\ \A k \in 1 .. Len(c) : c[k] = b[k]
  <2>1. Len(c) = n
    BY <1>1, <1>2, <1>4, <1>5 DEF c
  <2>2. ASSUME NEW k \in 1 .. n PROVE c[k] = b[k]
    <3>1. CASE k <= Len(U)
      BY <1>1, <1>3, <1>5, <3>1 DEF c
    <3>2. CASE k > Len(U)
      <4>1. k - Len(U) \in 1 .. n - Len(U) /\ k - Len(U) \in 1 .. Len(R) /\ Len(U) + (k - Len(U)) = k
        BY <1>1, <1>2, <3>2
      <4> QED
        BY <1>1, <1>3, <1>4, <1>5, <4>1 DEF c
    <3> QED
      BY <1>1, <3>1, <3>2
  <2> QED
    BY <1>3, <2>1, <2>2
<1>7. c = b
  BY <1>3, <1>5, <1>6, SeqEqual DEF Text, c
<1> QED
  BY <1>4, <1>7 DEF b, c, d

\* Finished lines behind finished lines.
LEMMA EndsLineParts ==
  ASSUME NEW P \in Text, NEW R \in Text, EndsLine(P), EndsLine(R)
  PROVE  EndsLine(P \o R)
<1> DEFINE Q == P \o R
<1>1. /\ Q \in Text /\ Len(Q) = Len(P) + Len(R) /\ Len(P) \in Nat /\ Len(R) \in Nat
      /\ \A k \in 1 .. Len(P) : Q[k] = P[k]
      /\ \A k \in 1 .. Len(R) : Q[Len(P) + k] = R[k]
  BY ConcatIs
<1> HIDE DEF Q
<1>2. CASE Len(R) = 0 /\ Len(P) = 0
  BY <1>1, <1>2, EmptySeq DEF EndsLine, Text
<1>3. CASE Len(R) = 0 /\ Len(P) > 0
  <2>1. P # <<>> /\ Q[Len(Q)] = P[Len(P)]
    BY <1>1, <1>3
  <2> QED
    BY <2>1 DEF EndsLine
<1>4. CASE Len(R) > 0
  <2>1. R # <<>> /\ Q[Len(Q)] = R[Len(R)]
    BY <1>1, <1>4
  <2> QED
    BY <2>1 DEF EndsLine
<1> QED
  BY <1>1, <1>2, <1>3, <1>4 DEF Q

\* Texts without a header, one behind the finished lines of the other, have none together.
LEMMA NoHeaderInBoth ==
  ASSUME NEW P \in Text, NEW R \in Text, EndsLine(P), NEW name, name # "\n",
         HeaderLines(P, name) = {}, HeaderLines(R, name) = {}
  PROVE  HeaderLines(P \o R, name) = {}
<1> DEFINE Q == P \o R
           p == Len(P)
<1>1. /\ Q \in Text /\ Len(Q) = p + Len(R) /\ p \in Nat /\ Len(R) \in Nat
      /\ DOMAIN P = 1 .. p /\ DOMAIN R = 1 .. Len(R) /\ DOMAIN Q = 1 .. p + Len(R)
      /\ \A k \in 1 .. Len(R) : Q[p + k] = R[k]
  BY ConcatIs
<1>2. \A i \in DOMAIN P : i \notin HeaderLines(Q, name)
  BY HeaderLinesKept
<1> HIDE DEF Q
<1>3. ASSUME NEW i \in HeaderLines(Q, name) PROVE FALSE
  <2>1. i \in DOMAIN Q /\ (i = 1 \/ Q[i - 1] = "\n") /\ i < Len(Q) /\ Q[i] = name /\ Q[i + 1] = ":"
    BY <1>3 DEF HeaderLines, LineStarts
  <2>2. PICK k \in 1 .. Len(R) : i = p + k
    <3>1. i \in 1 .. p + Len(R) /\ i \notin 1 .. p
      BY <1>1, <1>2, <1>3, <2>1
    <3>2. i - p \in 1 .. Len(R) /\ i = p + (i - p)
      BY <1>1, <3>1
    <3> QED
      BY <3>2
  <2>3. k < Len(R) /\ R[k] = name /\ R[k + 1] = ":"
    <3>1. k < Len(R) /\ p + k + 1 = p + (k + 1) /\ k + 1 \in 1 .. Len(R)
      BY <1>1, <2>1, <2>2
    <3> QED
      BY <1>1, <2>1, <2>2, <3>1
  <2>4. k = 1 \/ R[k - 1] = "\n"
    <3>1. CASE k > 1
      <4>1. i # 1 /\ i - 1 = p + (k - 1) /\ k - 1 \in 1 .. Len(R)
        BY <1>1, <2>2, <3>1
      <4> QED
        BY <1>1, <2>1, <4>1
    <3> QED
      BY <2>2, <3>1
  <2> QED
    BY <1>1, <2>3, <2>4 DEF HeaderLines, LineStarts
<1> QED
  BY <1>3 DEF Q

\* A single token cut out of a text.
LEMMA OneToken ==
  ASSUME NEW s \in Text, NEW i \in 1 .. Len(s)
  PROVE  SubSeq(s, i, i) = << s[i] >>
<1>1. Len(s) \in Nat /\ s[i] \in Token
  BY LenProperties, ElementOfSeq DEF Text
<1>2. i \in 1 .. Len(s) + 1 /\ i \in 0 .. Len(s) /\ 1 \in 1 .. i - i + 1
  BY <1>1
<1>3. PICK u \in Text : /\ u = SubSeq(s, i, i) /\ Len(u) = IF i <= i THEN i - i + 1 ELSE 0
                        /\ \A k \in 1 .. i - i + 1 : u[k] = s[i + k - 1]
  BY <1>2, PartIsText
<1>4. Len(u) = 1 /\ u[1] = s[i]
  BY <1>2, <1>3
<1>5. u = << s[i] >>
  <2>1. << s[i] >> \in Seq(Token) /\ Len(<< s[i] >>) = 1 /\ << s[i] >>[1] = s[i]
    BY <1>1
  <2> DEFINE t == << s[i] >>
  <2> HIDE DEF t
  <2>2. \A k \in 1 .. Len(u) : u[k] = t[k]
    BY <1>4, <2>1 DEF t
  <2> QED
    BY <1>4, <2>1, <2>2, SeqEqual DEF Text, t
<1> QED
  BY <1>3, <1>5

\* What >> reads is the first token if a blank is next,
LEMMA FirstWordIs ==
  ASSUME NEW s, NEW w \in Text, trim(s) = w, Len(w) > 1, w[1] \notin Blank, w[2] \in Blank
  PROVE  FirstWord(s) = << w[1] >> /\ AfterFirstWord(s) = SubSeq(w, 2, Len(w))
<1> DEFINE blanks == {i \in DOMAIN w : w[i] \in Blank}
<1>1. Len(w) \in Nat /\ DOMAIN w = 1 .. Len(w)
  BY LenProperties DEF Text
<1>2. 2 \in blanks /\ 0 \notin blanks /\ 1 \notin blanks /\ blanks \in SUBSET Nat
  BY <1>1
<1>3. Min(blanks) = 2
  <2>1. Min(blanks) \in blanks /\ Min(blanks) <= 2
    BY <1>2, MinIs
  <2> HIDE DEF blanks
  <2>2. PICK i \in Nat : i = Min(blanks) /\ i \in blanks /\ i <= 2
    BY <1>2, <2>1
  <2>3. i # 0 /\ i # 1
    BY <1>2, <2>2
  <2> QED
    BY <2>2, <2>3
<1>4. FirstWord(s) = SubSeq(w, 1, 1)
  <2>1. FirstWord(s) = IF blanks = {} THEN w ELSE SubSeq(w, 1, Min(blanks) - 1)
    BY DEF FirstWord
  <2> HIDE DEF blanks
  <2>2. Min(blanks) - 1 = 1 /\ blanks # {}
    BY <1>2, <1>3
  <2> QED
    BY <2>1, <2>2
<1>5. SubSeq(w, 1, 1) = << w[1] >>
  BY <1>1, OneToken
<1>6. Len(<< w[1] >>) = 1
  OBVIOUS
<1> QED
  BY <1>4, <1>5, <1>6 DEF AfterFirstWord

\* and all there is if it is a lone one.
LEMMA LoneWordIs ==
  ASSUME NEW s, NEW x, x \notin Blank, trim(s) = << x >>
  PROVE  FirstWord(s) = << x >>
<1>1. {i \in DOMAIN << x >> : << x >>[i] \in Blank} = {}
  OBVIOUS
<1> QED
  BY <1>1 DEF FirstWord

\* A number, a blank and a word, the value of a CSeq: the word is what getCSeqMethod finds.
LEMMA SecondWordIs ==
  ASSUME NEW n \in Token, NEW x \in Token, n \notin Blank, x \notin Blank
  PROVE  /\ << n, Space, x >> \in Text /\ Trimmed(<< n, Space, x >>)
         /\ n # "\n" /\ x # "\n" => OneLine(<< n, Space, x >>)
         /\ FirstWord(AfterFirstWord(<< n, Space, x >>)) = << x >>
<1> DEFINE v == << n, Space, x >>
           r == << Space, x >>
<1>1. /\ v \in Text /\ Len(v) = 3 /\ v[1] = n /\ v[2] = Space /\ v[3] = x /\ v # <<>>
      /\ r \in Text /\ Len(r) = 2 /\ r[1] = Space /\ r[2] = x
  BY SpaceIs DEF Text
<1> HIDE DEF v, r
<1>2. Trimmed(v) /\ (n # "\n" /\ x # "\n" => OneLine(v))
  <2>1. DOMAIN v = 1 .. 3
    BY <1>1, LenProperties DEF Text
  <2> QED
    BY <1>1, <2>1, SpaceIs DEF Trimmed, OneLine
<1>3. trim(v) = v
  <2>1. PICK e \in Text : e = <<>> /\ v \o e = v
    BY <1>1, EmptySeq, ConcatEmptySeq DEF Text
  <2>2. \A k \in DOMAIN e : e[k] \in Blank
    BY <2>1
  <2>3. trim(v \o e) = v
    BY <1>1, <1>2, <2>2, TrimBehind
  <2> QED
    BY <2>1, <2>3
<1>4. AfterFirstWord(v) = SubSeq(v, 2, 3)
  <2>1. Len(v) > 1 /\ v[1] \notin Blank /\ v[2] \in Blank
    BY <1>1, SpaceIs
  <2>2. AfterFirstWord(v) = SubSeq(v, 2, Len(v))
    BY <1>1, <1>3, <2>1, FirstWordIs
  <2> QED
    BY <1>1, <2>2
<1>5. SubSeq(v, 2, 3) = r
  <2>1. 2 \in 1 .. Len(v) + 1 /\ 3 \in 0 .. Len(v)
    BY <1>1
  <2>2. PICK u \in Text : /\ u = SubSeq(v, 2, 3) /\ Len(u) = IF 2 <= 3 THEN 3 - 2 + 1 ELSE 0
                          /\ \A k \in 1 .. 3 - 2 + 1 : u[k] = v[2 + k - 1]
    BY <1>1, <2>1, PartIsText
  <2>3. Len(u) = 2 /\ u[1] = v[2] /\ u[2] = v[3]
    BY <2>2
  <2>4. Len(u) = Len(r) /\ \A k \in 1 .. Len(u) : u[k] = r[k]
    BY <1>1, <2>3
  <2> QED
    BY <1>1, <2>2, <2>4, SeqEqual DEF Text
<1>6. trim(r) = << x >>
  <2>1. 2 \in DOMAIN r /\ DOMAIN r = 1 .. 2
    BY <1>1, LenProperties DEF Text
  <2>2. \A k \in DOMAIN r : r[k] \notin Blank => 2 <= k /\ k <= 2
    BY <1>1, <2>1, SpaceIs
  <2>3. trim(r) = SubSeq(r, 2, 2)
    BY <1>1, <2>1, <2>2, TrimIs
  <2>4. SubSeq(r, 2, 2) = << r[2] >>
    BY <1>1, OneToken
  <2> QED
    BY <1>1, <2>3, <2>4
<1>7. FirstWord(r) = << x >>
  BY <1>6, LoneWordIs
<1> QED
  BY <1>1, <1>2, <1>4, <1>5, <1>7 DEF v
===============================================================================
