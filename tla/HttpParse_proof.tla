------------------------------ MODULE HttpParse_proof ------------------------------
(* Theorems about HttpParse, for any texts that clients send, cut into any segments, *)
(* and a buffer of any size: the indices into read_buffer stay in order, and the     *)
(* parser decides as the reference does, which reads the whole text at once.         *)
(* At the end, theorems about the specification of MCHttpMessages, in which the       *)
(* receiver and the sender run: those of HttpWrite_proof carry over.                 *)
EXTENDS MCHttpMessages, WellFoundedInduction, TLAPS

\* The body is looked for behind the head only, and do_request() ends the parsing.
OnceAsked == /\ check_state # "CONTENT" => content = 0
             /\ asked => pc = "read" /\ verdict \in Answers

IInv == TypeOK /\ OnceAsked /\ stream \in Seq(Units) /\ read_buffer \in Seq(Units)

USE ParseAssumption DEF ParseAssumption

\* A set of natural numbers that is not empty has a least element.
LEMMA Least ==
  ASSUME NEW S \in SUBSET Nat, S # {} PROVE \E m \in S : \A j \in S : m <= j
<1> DEFINE R == {pair \in Nat \X Nat : pair[1] < pair[2]}
<1>1. IsWellFoundedOn(R, Nat)
  BY NatLessThanWellFounded DEF OpToRel
<1>2. \A j, m \in Nat : j < m => <<j, m>> \in R
  OBVIOUS
<1> HIDE DEF R
<1>3. \E m \in S : \A j \in S : ~(<<j, m>> \in R)
  BY <1>1, WFMin
<1>4. PICK m \in S : \A j \in S : ~(<<j, m>> \in R)
  BY <1>3
<1>5. ASSUME NEW j \in S PROVE m <= j
  <2>1. j \in Nat /\ m \in Nat /\ ~(j < m)
    BY <1>2, <1>4
  <2> QED BY ONLY <2>1
<1> QED BY <1>5

\* parse_line() moves checked_index forward and not beyond what has come; when it finds
\* a line, by one unit at least.
LEMMA LineForward ==
  ASSUME IInv
  PROVE  /\ ParseLine.checked \in checked_index..read_index
         /\ ParseLine.status \in {"OK", "OPEN", "BAD"}
<1>1. read_index \in Nat /\ checked_index \in 0..read_index
  BY DEF IInv, TypeOK, read_index
<1>2. CASE Special = {}
  BY <1>1, <1>2 DEF ParseLine, Line
<1>3. CASE Special # {}
  <2>1. Special \subseteq Nat
    BY <1>1 DEF Special
  <2>2. \E m \in Special : \A j \in Special : m <= j
    BY <1>3, <2>1, Least
  <2>3. Next1 \in Special
    BY <2>2 DEF Next1
  <2>4. Next1 \in (checked_index + 1)..read_index
    BY <2>3 DEF Special
  <2>5. ParseLine = AfterCR(Next1) \/ ParseLine = AfterLF(Next1)
    BY <1>3 DEF ParseLine
  <2>6. CASE ParseLine = AfterCR(Next1)
    BY <1>1, <2>4, <2>6 DEF AfterCR, Line
  <2>7. CASE ParseLine = AfterLF(Next1)
    BY <1>1, <2>4, <2>7 DEF AfterLF, Line
  <2> QED BY <2>5, <2>6, <2>7
<1> QED BY <1>2, <1>3

LEMMA InitHolds == Init => IInv
<1> SUFFICES ASSUME Init PROVE IInv
  OBVIOUS
<1>1. /\ stream \in Seq(Units) /\ read_buffer \in Seq(Units) /\ read_index = 0
      /\ checked_index = 0 /\ start_line = 0
  BY DEF Init, read_index
<1>2. connect \in BOOLEAN /\ asked \in BOOLEAN /\ cut \in BOOLEAN
  BY DEF Init
<1> QED BY <1>1, <1>2 DEF Init, IInv, TypeOK, OnceAsked

LEMMA ReadKeeps == ASSUME IInv, NEW n \in 1..Len(stream), Read(n) PROVE IInv'
<1> USE DEF IInv, TypeOK, read_index
<1>1. n \in Nat /\ n <= Len(stream) /\ n <= BufferSize - Len(read_buffer)
  BY DEF Read
<1>2. SubSeq(stream, 1, n) \in Seq(Units) /\ Len(SubSeq(stream, 1, n)) = n
  BY <1>1
<1>3. /\ read_buffer' \in Seq(Units)
      /\ Len(read_buffer') = Len(read_buffer) + n
  BY <1>2 DEF Read
<1>4. stream' \in Seq(Units)
  BY <1>1 DEF Read
<1>5. /\ UNCHANGED <<checked_index, start_line, check_state, connect, content_length, content,
                     asked, verdict>>
      /\ line_status' = "OK" /\ pc' = "parse" /\ verdict = "NO_REQUEST" /\ cut' \in BOOLEAN
  BY DEF Read, InBody, fields
<1>6. ~asked
  BY <1>5 DEF OnceAsked, Answers
<1>7. /\ read_index' <= BufferSize /\ checked_index' \in 0..read_index'
      /\ start_line' \in 0..read_index' /\ start_line' <= checked_index'
      /\ content' \in 0..start_line'
  BY <1>1, <1>3, <1>5, <1>6
<1>8. OnceAsked'
  BY <1>5, <1>6 DEF OnceAsked
<1> QED BY <1>3, <1>4, <1>5, <1>6, <1>7, <1>8

\* Where parse_line() stops, and with it start_line, lies in the buffer.
LEMMA LineAhead ==
  ASSUME IInv, ~asked
  PROVE  /\ ParseLine.checked \in checked_index..read_index
         /\ read_index \in Nat /\ checked_index \in 0..read_index /\ read_index <= BufferSize
         /\ start_line \in 0..checked_index /\ content \in 0..start_line
         /\ ParseLine.status \in {"OK", "OPEN", "BAD"}
  BY LineForward DEF IInv, TypeOK, read_index

\* The turns of the loop in http_parse(): the line that was found lies in the buffer.
LEMMA LineKeeps == ASSUME IInv, RequestLine \/ HeaderField \/ HeadersEnd PROVE IInv'
<1> DEFINE c == ParseLine.checked
<1>1. /\ checked_index' = c /\ start_line' = c /\ line_status' = "OK" /\ pc = "parse"
      /\ check_state \in {"REQUESTLINE", "HEADER"}
      /\ UNCHANGED <<stream, read_buffer, content, cut>>
  BY DEF RequestLine, HeaderField, HeadersEnd, LineIn, fields
<1>2. ~asked
  BY <1>1 DEF IInv, OnceAsked
<1>3. content = 0
  BY <1>1 DEF IInv, OnceAsked
<1>4. /\ read_index' <= BufferSize /\ checked_index' \in 0..read_index'
      /\ start_line' \in 0..read_index' /\ start_line' <= checked_index'
      /\ content' = 0 /\ content' \in 0..start_line'
  BY <1>1, <1>2, <1>3, LineAhead DEF read_index
<1>5. /\ check_state' \in {"REQUESTLINE", "HEADER", "CONTENT"}
      /\ verdict' \in Answers \cup {"NO_REQUEST", "CLOSED"}
      /\ pc' \in {"read", "parse"}
  BY DEF RequestLine, HeaderField, HeadersEnd, DoRequest, Return, Answers, IInv, TypeOK
<1>6. connect' \in BOOLEAN /\ content_length' \in {0, BodyLen} /\ asked' \in BOOLEAN
  BY DEF RequestLine, HeaderField, HeadersEnd, DoRequest, fields, IInv, TypeOK
<1>7. asked' => pc' = "read" /\ verdict' \in Answers
  BY <1>2 DEF RequestLine, HeaderField, HeadersEnd, DoRequest, Return
<1>8. stream' \in Seq(Units) /\ read_buffer' \in Seq(Units) /\ cut' \in BOOLEAN
  BY <1>1 DEF IInv, TypeOK
<1> QED BY <1>1, <1>4, <1>5, <1>6, <1>7, <1>8 DEF IInv, TypeOK, OnceAsked

\* A turn of parse_content(): the body starts where the head ended, the NUL behind it is at
\* most one byte behind what has come, and checked_index does not grow by it.
LEMMA BodyKeeps ==
  ASSUME IInv, NEW d \in checked_index..read_index, ParseContent(d) PROVE IInv'
<1>1. /\ pc = "parse" /\ check_state = "CONTENT" /\ start_line' = d
      /\ content' = IF content = 0 THEN start_line ELSE content
      /\ UNCHANGED <<stream, read_buffer, check_state, connect, content_length, cut>>
  BY DEF ParseContent
<1>2. ~asked
  BY <1>1 DEF IInv, OnceAsked
<1>3. /\ read_index \in Nat /\ checked_index \in 0..read_index /\ read_index <= BufferSize
      /\ start_line \in 0..checked_index /\ content \in 0..start_line
      /\ content_length \in Nat /\ d \in 0..read_index
  BY <1>2, LineAhead DEF IInv, TypeOK
<1>4. read_index' = read_index /\ content' \in 0..start_line' /\ start_line' \in 0..read_index'
  BY <1>1, <1>3 DEF read_index
<1>5. /\ line_status' \in {"OK", "OPEN", "BAD"} /\ asked' \in BOOLEAN
      /\ verdict' \in Answers \cup {"NO_REQUEST", "CLOSED"} /\ pc' \in {"read", "parse"}
      /\ asked' => pc' = "read" /\ verdict' \in Answers
  BY <1>2 DEF ParseContent, DoRequest, Return, Answers, IInv, TypeOK
<1>6. /\ stream' \in Seq(Units) /\ read_buffer' \in Seq(Units) /\ cut' \in BOOLEAN
      /\ connect' \in BOOLEAN /\ content_length' \in {0, BodyLen} /\ check_state' = "CONTENT"
  BY <1>1 DEF IInv, TypeOK
<1>7. CASE read_index >= content_length + d
  <2>1. checked_index' \in 0..d /\ asked'
    BY <1>3, <1>7 DEF ParseContent, AfterNul, DoRequest
  <2>2. checked_index' \in 0..read_index'
    <3> DEFINE x == checked_index'
    <3>1. x \in 0..d /\ x \in Int
      BY <1>3, <2>1
    <3> HIDE DEF x
    <3>2. x \in 0..read_index
      BY <1>3, <3>1
    <3> QED BY <1>4, <3>2 DEF x
  <2>3. content' + content_length' <= read_index'
    BY <1>1, <1>3, <1>4, <1>7
  <2> QED BY <1>3, <1>4, <1>5, <1>6, <2>1, <2>2, <2>3 DEF IInv, TypeOK, OnceAsked
<1>8. CASE ~(read_index >= content_length + d)
  <2>1. checked_index' = d /\ ~asked'
    BY <1>2, <1>8 DEF ParseContent
  <2>2. checked_index' \in 0..read_index' /\ start_line' <= checked_index'
    BY <1>1, <1>3, <1>4, <2>1
  <2> QED BY <1>3, <1>4, <1>5, <1>6, <2>1, <2>2 DEF IInv, TypeOK, OnceAsked
<1> QED BY <1>7, <1>8

\* Turns without a line: the body, or the end of what has come.
LEMMA RestKeeps == ASSUME IInv, Content \/ NoLine PROVE IInv'
<1> DEFINE c == ParseLine.checked
<1>1. pc = "parse"
  BY DEF Content, ParseContent, NoLine
<1>2. ~asked
  BY <1>1 DEF IInv, OnceAsked
<1>3. /\ c \in checked_index..read_index /\ checked_index \in 0..read_index
      /\ read_index \in Nat /\ read_index <= BufferSize
      /\ start_line \in 0..checked_index /\ content \in 0..start_line
      /\ ParseLine.status \in {"OK", "OPEN", "BAD"}
  BY <1>2, LineAhead
<1>4. CASE Content
  <2>1. checked_index \in checked_index..read_index
    BY <1>3
  <2> QED BY <1>3, <1>4, <2>1, BodyKeeps DEF Content
<1>5. CASE NoLine
  <2>1. /\ checked_index' = c /\ line_status' = ParseLine.status /\ pc' = "read"
        /\ verdict' \in {"NO_REQUEST", "BAD_REQUEST"}
        /\ UNCHANGED <<stream, read_buffer, start_line, check_state, connect, content_length,
                       content, asked, cut>>
    BY <1>5 DEF NoLine, Return, fields
  <2>2. /\ checked_index' \in 0..read_index' /\ start_line' \in 0..read_index'
        /\ start_line' <= checked_index' /\ content' \in 0..start_line'
        /\ read_index' <= BufferSize
    BY <1>3, <2>1 DEF read_index
  <2> QED BY <1>2, <1>3, <2>1, <2>2 DEF IInv, TypeOK, OnceAsked, Answers
<1> QED BY <1>4, <1>5

\* The client leaves, and the object is made ready for the next request.
LEMMA ResetKeeps == ASSUME IInv, HangUp \/ HttpReset PROVE IInv'
<1>1. CASE HangUp
  <2>1. /\ verdict' = "CLOSED" /\ verdict = "NO_REQUEST"
        /\ UNCHANGED <<stream, read_buffer, checked_index, start_line, check_state, line_status,
                       connect, content_length, content, asked, cut, pc>>
    BY <1>1 DEF HangUp, fields
  <2>2. ~asked
    BY <2>1 DEF IInv, OnceAsked, Answers
  <2> QED BY <2>1, <2>2 DEF IInv, TypeOK, OnceAsked, read_index
<1>2. CASE HttpReset
  <2>1. stream' \in Seq(Units)
    BY <1>2 DEF HttpReset, NextStreams, IInv
  <2>2. read_buffer' = <<>> /\ read_buffer' \in Seq(Units) /\ read_index' = 0
    BY <1>2 DEF HttpReset, read_index
  <2>3. checked_index' = 0 /\ start_line' = 0 /\ content' = 0
    BY <1>2 DEF HttpReset, ResetFields
  <2>4. /\ check_state' = "REQUESTLINE" /\ line_status' = "OK" /\ verdict' = "NO_REQUEST"
        /\ ~asked' /\ asked' \in BOOLEAN /\ cut' \in BOOLEAN /\ connect' \in BOOLEAN
        /\ content_length' = 0 /\ pc' = pc
    BY <1>2 DEF HttpReset, ResetFields
  <2>5. pc' \in {"read", "parse"} /\ read_index' <= BufferSize /\ 0 \in 0..0
    BY <2>2, <2>4 DEF IInv, TypeOK
  <2>6. OnceAsked'
    BY <2>3, <2>4 DEF OnceAsked
  <2>7. /\ checked_index' \in 0..read_index' /\ start_line' \in 0..read_index'
        /\ start_line' <= checked_index' /\ content' \in 0..start_line'
    BY <2>2, <2>3
  <2> QED BY <2>1, <2>2, <2>4, <2>5, <2>6, <2>7 DEF IInv, TypeOK
<1> QED BY <1>1, <1>2

LEMMA StutterKeeps == ASSUME IInv, UNCHANGED vars PROVE IInv'
  BY DEF vars, fields, IInv, TypeOK, OnceAsked, read_index

LEMMA NextKeeps == IInv /\ [Next]_vars => IInv'
  BY ReadKeeps, LineKeeps, RestKeeps, ResetKeeps, StutterKeeps DEF Next

\* No index leaves read_buffer, wherever the segments end: start_line <= checked_index <=
\* read_index <= BufferSize until do_request() is called, and the NUL that parse_content()
\* then writes, which may fall on checked_index itself, is at most one unit behind what has
\* come and leaves checked_index within it.
THEOREM ParseTypeOK == Spec => []TypeOK
<1>1. IInv => TypeOK
  BY DEF IInv
<1> QED BY <1>1, InitHolds, NextKeeps, PTL DEF Spec

\* http_parse() comes to an end: every turn of its loop that finds a line leaves less to
\* be parsed, whatever the line is.
THEOREM ParseLineAdvances ==
  ASSUME IInv, ParseLine.status = "OK" PROVE ParseLine.checked > checked_index
<1>1. read_index \in Nat /\ checked_index \in 0..read_index
  BY DEF IInv, TypeOK, read_index
<1>2. Special # {}
  BY DEF ParseLine, Line
<1>3. Special \subseteq Nat
  BY <1>1 DEF Special
<1>4. \E m \in Special : \A j \in Special : m <= j
  BY <1>2, <1>3, Least
<1>5. Next1 \in (checked_index + 1)..read_index
  BY <1>4 DEF Next1, Special
<1>6. ParseLine \in {AfterCR(Next1), AfterLF(Next1)}
  BY <1>2 DEF ParseLine
<1> QED BY <1>1, <1>5, <1>6 DEF AfterCR, AfterLF, Line

-----------------------------------------------------------------------------
(* What the parser knows of the text: the inductive invariant.                *)

\* In the first k units every CR and LF is of a line end, and none is cut off.
Clean(s, k) == \A i \in 1..k : /\ s[i] = "CR" => i < k /\ s[i + 1] = "LF"
                               /\ s[i] = "LF" => i > 1 /\ s[i - 1] = "CR"

\* From unit a + 1 to unit c there is text only.
Plain(s, a, c) == \A i \in (a + 1)..c : s[i] # "CR" /\ s[i] # "LF"

\* Unit a is the last of a line, or nothing.
AtLine(s, a) == a = 0 \/ a - 1 \in LineEnds(s)

\* The header lines that start before k, and what they say.
Lines(s, k)    == {i \in 1..Len(s) : i < k /\ i - 2 \in LineEnds(s)}
LenSeen(s, k)  == \E i \in Lines(s, k) : s[i] = "len"
KeepSeen(s, k) == \E i \in Lines(s, k) :
                     s[i] = "keep" /\ \A j \in Lines(s, k) : s[j] \in {"keep", "close"} => j <= i

\* The text r begins with the text s.
Begins(s, r) == Len(s) <= Len(r) /\ \A i \in 1..Len(s) : r[i] = s[i]

\* The first line is a request line.
GoodFirst(s) == s[1] = "get" /\ 2 \in LineEnds(s)

\* In the head: the first a units are lines, and up to unit c there is text.
HeadUpTo(s, a, c) == /\ Clean(s, a) /\ AtLine(s, a) /\ Plain(s, a, c)
                     /\ a > 0 => GoodFirst(s)
                     /\ \A i \in HeadEnds(s) : i > a

\* The head ends with the empty line at h.
EndsAt(s, h) == /\ h \in HeadEnds(s) /\ \A i \in HeadEnds(s) : h <= i
                /\ Clean(s, h + 1) /\ GoodFirst(s)

\* Up to unit c all has been looked at, but for a CR at the end of what there is.
ReadTo(s, c) == c = Len(s) \/ (c = Len(s) - 1 /\ s[Len(s)] = "CR")

LEMMA EndsKept ==
  ASSUME NEW s \in Seq(Units), NEW r \in Seq(Units), Begins(s, r)
  PROVE  /\ \A i \in Int : i < Len(s) => (i \in LineEnds(r) <=> i \in LineEnds(s))
         /\ \A i \in Int : i < Len(s) => (i \in HeadEnds(r) <=> i \in HeadEnds(s))
<1>1. \A i \in Int : i < Len(s) => (i \in LineEnds(r) <=> i \in LineEnds(s))
  BY DEF Begins, LineEnds
<1>2. \A i \in HeadEnds(r) \cup HeadEnds(s) : i \in Int
  BY DEF HeadEnds, LineEnds
<1> QED BY <1>1, <1>2 DEF HeadEnds

\* What has been learned of the first k units stays true when more text comes.
LEMMA Kept ==
  ASSUME NEW s \in Seq(Units), NEW r \in Seq(Units), Begins(s, r), NEW k \in 0..Len(s)
  PROVE  /\ Clean(s, k) => Clean(r, k)
         /\ \A a \in Nat : Plain(s, a, k) => Plain(r, a, k)
         /\ Lines(r, k) = Lines(s, k)
         /\ LenSeen(r, k) <=> LenSeen(s, k)
         /\ KeepSeen(r, k) <=> KeepSeen(s, k)
         /\ GoodFirst(s) => GoodFirst(r)
<1>1. Clean(s, k) => Clean(r, k)
  BY DEF Begins, Clean
<1>2. \A a \in Nat : Plain(s, a, k) => Plain(r, a, k)
  BY DEF Begins, Plain
<1>3. Lines(r, k) = Lines(s, k)
  BY EndsKept DEF Begins, Lines
<1>4. \A i \in Lines(s, k) : r[i] = s[i]
  BY DEF Begins, Lines
<1>5. GoodFirst(s) => GoodFirst(r)
  BY EndsKept DEF GoodFirst, LineEnds, Begins
<1> QED BY <1>1, <1>2, <1>3, <1>4, <1>5 DEF LenSeen, KeepSeen

\* The request line, as the reference and as the parser read it.
LEMMA GetAlone ==
  ASSUME NEW s \in Seq(Units), NEW i \in 1..Len(s)
  PROVE  SubSeq(s, 1, i - 1) = <<"get">> <=> i = 2 /\ s[1] = "get"
<1> DEFINE t == SubSeq(s, 1, i - 1)
<1>1. t \in Seq(Units) /\ Len(t) = i - 1 /\ \A j \in 1..(i - 1) : t[j] = s[j]
  OBVIOUS
<1>2. <<"get">> \in Seq(Units) /\ Len(<<"get">>) = 1 /\ <<"get">>[1] = "get"
  BY DEF Units
<1> HIDE DEF t
<1>3. ASSUME i = 2, s[1] = "get" PROVE t = <<"get">>
  BY <1>1, <1>2, <1>3
<1>4. ASSUME t = <<"get">> PROVE i = 2 /\ s[1] = "get"
  BY <1>1, <1>2, <1>4
<1> QED BY <1>3, <1>4 DEF t

\* A request line is not a bad one.
LEMMA GoodIsNotBad ==
  ASSUME NEW s \in Seq(Units), GoodFirst(s) PROVE ~BadRequestLine(s)
<1> SUFFICES ASSUME NEW i \in LineEnds(s), i <= 2, SubSeq(s, 1, i - 1) # <<"get">> PROVE FALSE
  BY DEF GoodFirst, BadRequestLine
<1>1. i = 2 /\ Len(s) > 2
  BY DEF LineEnds, GoodFirst
<1> QED BY <1>1, GetAlone DEF GoodFirst

\* Where the text is clean no CR or LF is stray.
LEMMA NoStray ==
  ASSUME NEW s \in Seq(Units), NEW k \in 0..Len(s), Clean(s, k), NEW j \in Stray(s)
  PROVE  j > k
BY DEF Clean, Stray, LineEnds

LEMMA LineEndsAre ==
  ASSUME NEW s \in Seq(Units), NEW i \in LineEnds(s)
  PROVE  i \in Nat /\ 1 <= i /\ i < Len(s) /\ s[i] = "CR" /\ s[i + 1] = "LF"
BY DEF LineEnds

\* The first empty line ends the head: what the reference finds there.
LEMMA HeadEndIs ==
  ASSUME NEW s \in Seq(Units), NEW h \in HeadEnds(s), \A i \in HeadEnds(s) : h <= i,
         Clean(s, h + 1)
  PROVE  /\ HeadDone(s) /\ HeadLength(s) = h + 1
         /\ Headers(s) = Lines(s, h)
<1>1. h \in LineEnds(s) /\ h \in Nat /\ h + 1 \in 1..Len(s)
  BY LineEndsAre DEF HeadEnds
<1>2. \A j \in Stray(s) : h < j
  BY <1>1, NoStray DEF Stray
<1>3. HeadLength(s) = h + 1
  <2>1. ASSUME NEW n \in 1..Len(s), n - 1 \in HeadEnds(s), \A i \in HeadEnds(s) : n - 1 <= i
        PROVE  n = h + 1
    BY <1>1, <2>1
  <2>2. \A i \in HeadEnds(s) : h + 1 - 1 <= i
    BY <1>1
  <2>3. h + 1 - 1 \in HeadEnds(s)
    BY <1>1
  <2> QED BY <1>1, <2>1, <2>2, <2>3 DEF HeadLength
<1>4. Headers(s) = Lines(s, h)
  <2>1. ASSUME NEW i \in Headers(s) PROVE i \in Lines(s, h)
    BY DEF Headers, Lines
  <2>2. ASSUME NEW i \in Lines(s, h) PROVE i \in Headers(s)
    <3>1. i \in 1..Len(s) /\ i < h /\ i - 2 \in LineEnds(s)
      BY DEF Lines
    <3>2. \A j \in HeadEnds(s) : i < j
      BY <1>1, <3>1, LineEndsAre DEF HeadEnds
    <3> QED BY <1>1, <1>2, <3>1, <3>2 DEF Headers
  <2> QED BY <2>1, <2>2
<1> QED BY <1>2, <1>3, <1>4 DEF HeadDone

-----------------------------------------------------------------------------
(* parse_line() on a text whose first start_line units are clean.             *)

\* What parse_line() saw of the text it passed.
LEMMA FindsSpecial ==
  ASSUME IInv, Special # {}
  PROVE  /\ Next1 \in (checked_index + 1)..read_index
         /\ read_buffer[Next1] \in {"CR", "LF"}
         /\ Plain(read_buffer, checked_index, Next1 - 1)
<1>1. read_index \in Nat /\ checked_index \in Nat
  BY DEF IInv, TypeOK, read_index
<1>2. Special \subseteq Nat
  BY <1>1 DEF Special, read_index
<1>3. \E m \in Special : \A j \in Special : m <= j
  BY <1>2, Least
<1>4. Next1 \in Special /\ \A j \in Special : Next1 <= j
  BY <1>3 DEF Next1
<1>5. Next1 \in (checked_index + 1)..read_index /\ read_buffer[Next1] \in {"CR", "LF"}
  BY <1>4 DEF Special, read_index
<1>6. ASSUME NEW i \in (checked_index + 1)..(Next1 - 1)
      PROVE  read_buffer[i] # "CR" /\ read_buffer[i] # "LF"
  BY <1>1, <1>4, <1>5 DEF Special, read_index
<1> QED BY <1>5, <1>6 DEF Plain

\* Two pieces of plain text.
LEMMA PlainOn ==
  ASSUME NEW s, NEW a \in Nat, NEW c \in Nat, NEW d \in Nat, a <= c,
         Plain(s, a, c), Plain(s, c, d)
  PROVE  Plain(s, a, d)
  BY DEF Plain

\* A line that parse_line() finds is one of the reference.
LEMMA FindsLine ==
  ASSUME IInv, start_line <= checked_index, AtLine(read_buffer, start_line),
         Plain(read_buffer, start_line, checked_index), ParseLine.status = "OK"
  PROVE  \E e \in LineEnds(read_buffer) : /\ ParseLine.checked = e + 1
                                          /\ e > checked_index
                                          /\ Plain(read_buffer, start_line, e - 1)
<1>1. /\ read_index \in Nat /\ checked_index \in Nat /\ start_line \in Nat
      /\ start_line <= checked_index /\ checked_index <= read_index
  BY DEF IInv, TypeOK, read_index
<1>2. Special # {}
  BY DEF ParseLine, Line
<1>3. /\ Next1 \in (checked_index + 1)..read_index /\ read_buffer[Next1] \in {"CR", "LF"}
      /\ Plain(read_buffer, checked_index, Next1 - 1)
  BY <1>2, FindsSpecial
<1>4. Plain(read_buffer, start_line, Next1 - 1)
  BY <1>1, <1>3, PlainOn
<1>5. CASE read_buffer[Next1] = "CR"
  <2>1. ParseLine = AfterCR(Next1)
    BY <1>2, <1>5 DEF ParseLine
  <2>2. Next1 < read_index /\ read_buffer[Next1 + 1] = "LF" /\ ParseLine.checked = Next1 + 1
    BY <1>3, <2>1 DEF AfterCR, Line, read_index
  <2>3. Next1 \in LineEnds(read_buffer)
    BY <1>1, <1>3, <1>5, <2>2 DEF LineEnds, read_index
  <2> QED BY <1>1, <1>3, <1>4, <2>2, <2>3
<1>6. CASE read_buffer[Next1] = "LF"
  <2>1. ParseLine = AfterLF(Next1)
    BY <1>2, <1>6 DEF ParseLine
  <2>2. Next1 > 1 /\ read_buffer[Next1 - 1] = "CR"
    BY <2>1 DEF AfterLF, Line
  <2>3. start_line = Next1 - 1
    BY <1>1, <1>3, <1>4, <2>2 DEF Plain
  <2>4. read_buffer[start_line] = "LF"
    BY <1>1, <2>2, <2>3, LineEndsAre DEF AtLine, IInv
  <2> QED BY <2>2, <2>3, <2>4
<1> QED BY <1>3, <1>5, <1>6

\* When it finds none and wants more, the text has been read to its end, or to a CR
\* whose LF may be still to come.
LEMMA FindsNone ==
  ASSUME IInv, start_line <= checked_index,
         Plain(read_buffer, start_line, checked_index), ParseLine.status = "OPEN"
  PROVE  LET c == ParseLine.checked
         IN  /\ c \in checked_index..read_index
             /\ Plain(read_buffer, start_line, c)
             /\ c = read_index \/ (c = read_index - 1 /\ read_buffer[read_index] = "CR")
<1>1. /\ read_index \in Nat /\ checked_index \in Nat /\ start_line \in Nat
      /\ start_line <= checked_index /\ checked_index <= read_index
  BY DEF IInv, TypeOK, read_index
<1>2. CASE Special = {}
  <2>1. ParseLine.checked = read_index
    BY <1>2 DEF ParseLine, Line, read_index
  <2>2. Plain(read_buffer, checked_index, read_index)
    BY <1>1, <1>2 DEF Special, Plain, read_index
  <2> QED BY <1>1, <2>1, <2>2, PlainOn
<1>3. CASE Special # {}
  <2>1. /\ Next1 \in (checked_index + 1)..read_index /\ read_buffer[Next1] \in {"CR", "LF"}
        /\ Plain(read_buffer, checked_index, Next1 - 1)
    BY <1>3, FindsSpecial
  <2>2. Plain(read_buffer, start_line, Next1 - 1)
    BY <1>1, <2>1, PlainOn
  <2>3. read_buffer[Next1] = "CR" /\ ParseLine = AfterCR(Next1)
    BY <1>3, <2>1 DEF ParseLine, AfterLF, Line
  <2>4. Next1 = read_index /\ ParseLine.checked = read_index - 1
    BY <1>1, <2>1, <2>3 DEF AfterCR, Line, read_index
  <2> QED BY <1>1, <2>1, <2>2, <2>3, <2>4
<1> QED BY <1>2, <1>3

\* What parse_line() calls bad is stray, and the first CR or LF after the last line.
LEMMA FindsBad ==
  ASSUME IInv, start_line <= checked_index, AtLine(read_buffer, start_line),
         Plain(read_buffer, start_line, checked_index), ParseLine.status = "BAD"
  PROVE  \E i \in Stray(read_buffer) : i > start_line /\ Plain(read_buffer, start_line, i - 1)
<1>1. /\ read_index \in Nat /\ checked_index \in Nat /\ start_line \in Nat
      /\ start_line <= checked_index /\ checked_index <= read_index
  BY DEF IInv, TypeOK, read_index
<1>2. Special # {}
  BY DEF ParseLine, Line
<1>3. /\ Next1 \in (checked_index + 1)..read_index /\ read_buffer[Next1] \in {"CR", "LF"}
      /\ Plain(read_buffer, checked_index, Next1 - 1)
  BY <1>2, FindsSpecial
<1>4. Plain(read_buffer, start_line, Next1 - 1)
  BY <1>1, <1>3, PlainOn
<1>5. Next1 \in Stray(read_buffer)
  <2>1. CASE read_buffer[Next1] = "CR"
    <3>1. ParseLine = AfterCR(Next1)
      BY <1>2, <2>1 DEF ParseLine
    <3>2. Next1 < read_index /\ read_buffer[Next1 + 1] # "LF"
      BY <1>1, <1>3, <3>1 DEF AfterCR, Line, read_index
    <3> QED BY <1>1, <1>3, <2>1, <3>2 DEF Stray, LineEnds, read_index
  <2>2. CASE read_buffer[Next1] = "LF"
    <3>1. ParseLine = AfterLF(Next1)
      BY <1>2, <2>2 DEF ParseLine
    <3>2. Next1 = 1 \/ read_buffer[Next1 - 1] # "CR"
      BY <1>1, <1>3, <3>1 DEF AfterLF, Line
    <3> QED BY <1>1, <1>3, <2>2, <3>2 DEF Stray, LineEnds, read_index
  <2> QED BY <1>3, <2>1, <2>2
<1> QED BY <1>1, <1>3, <1>4, <1>5

-----------------------------------------------------------------------------
(* The line from a to the line end e.                                         *)

LineAt(s, a, e) == /\ s \in Seq(Units) /\ a \in Nat /\ e \in LineEnds(s) /\ a < e
                   /\ Clean(s, a) /\ (a = 0 \/ a - 1 \in LineEnds(s))
                   /\ Plain(s, a, e - 1)

\* Before e and after a there are no line ends.
LEMMA NoEndBetween ==
  ASSUME NEW s, NEW a, NEW e, LineAt(s, a, e), NEW i \in LineEnds(s)
  PROVE  i < a \/ i >= e
<1>1. i \in Nat /\ e \in Nat /\ a \in Nat /\ s[i] = "CR"
  BY LineEndsAre DEF LineAt
<1>2. CASE i = a
  BY <1>1, <1>2, LineEndsAre DEF LineAt
<1>3. CASE i > a
  BY <1>1, <1>3 DEF LineAt, Plain
<1> QED BY <1>1, <1>2, <1>3

LEMMA LineIsClean ==
  ASSUME NEW s, NEW a, NEW e, LineAt(s, a, e)
  PROVE  Clean(s, e + 1)
<1>1. e \in Nat /\ e + 1 <= Len(s) /\ s[e] = "CR" /\ s[e + 1] = "LF" /\ a \in Nat /\ a < e
  BY LineEndsAre DEF LineAt
<1>2. ASSUME NEW i \in 1..(e + 1)
      PROVE  /\ s[i] = "CR" => i < e + 1 /\ s[i + 1] = "LF"
             /\ s[i] = "LF" => i > 1 /\ s[i - 1] = "CR"
  <2>1. CASE i <= a
    BY <1>1, <2>1 DEF LineAt, Clean
  <2>2. CASE i > a /\ i <= e - 1
    BY <1>1, <2>2 DEF LineAt, Plain
  <2>3. CASE i = e \/ i = e + 1
    BY <1>1, <2>3
  <2> QED BY <1>1, <2>1, <2>2, <2>3
<1> QED BY <1>2 DEF Clean

\* The only header line that starts between a and the end of the line is the one at a.
LEMMA LinesGrow ==
  ASSUME NEW s, NEW a, NEW e, LineAt(s, a, e)
  PROVE  /\ Lines(s, a + 1) = Lines(s, a)
         /\ a = 0 => Lines(s, e + 1) = {}
         /\ a > 0 => Lines(s, e + 1) = Lines(s, a) \cup {a + 1}
<1>1. e \in Nat /\ e + 1 <= Len(s) /\ s \in Seq(Units) /\ a \in Nat /\ a < e
  BY LineEndsAre DEF LineAt
<1>2. ASSUME NEW i \in Lines(s, e + 1) PROVE i < a \/ (i = a + 1 /\ a > 0)
  <2>1. i \in Nat /\ i <= e /\ i - 2 \in LineEnds(s) /\ s[i - 1] = "LF" /\ i - 2 \in Nat
    BY <1>1, LineEndsAre DEF Lines
  <2>2. i - 2 < a
    BY <1>1, <2>1, NoEndBetween
  <2>3. a > 0 /\ s[a - 1] = "CR"
    BY <1>1, <2>1, <2>2, LineEndsAre DEF LineAt
  <2>4. i # a
    BY <2>1, <2>3
  <2> QED BY <1>1, <2>1, <2>2, <2>3, <2>4
<1>3. Lines(s, a) \subseteq Lines(s, a + 1) /\ Lines(s, a + 1) \subseteq Lines(s, e + 1)
  BY <1>1 DEF Lines
<1>4. ASSUME a > 0 PROVE a + 1 \in Lines(s, e + 1)
  BY <1>1, <1>4 DEF Lines, LineAt
<1>5. ASSUME NEW i \in Lines(s, e + 1), i < a PROVE i \in Lines(s, a)
  BY <1>5 DEF Lines
<1>6. ASSUME NEW i \in Lines(s, a + 1) PROVE i \in Lines(s, a)
  <2>1. i < a + 1 /\ i \in Nat
    BY DEF Lines
  <2> QED BY <1>1, <1>2, <1>3, <1>5, <2>1
<1>7. ASSUME a = 0 PROVE Lines(s, e + 1) = {}
  <2> SUFFICES ASSUME NEW i \in Lines(s, e + 1) PROVE FALSE
    OBVIOUS
  <2> QED BY <1>2, <1>7 DEF Lines
<1>8. ASSUME a > 0 PROVE Lines(s, e + 1) = Lines(s, a) \cup {a + 1}
  BY <1>2, <1>3, <1>4, <1>5, <1>8
<1> QED BY <1>3, <1>6, <1>7, <1>8

\* Unless the line is empty and another comes before it, the head goes on.
LEMMA HeadGoesOn ==
  ASSUME NEW s, NEW a, NEW e, LineAt(s, a, e), \A i \in HeadEnds(s) : i > a,
         a = 0 \/ e # a + 1
  PROVE  \A i \in HeadEnds(s) : i > e + 1
<1> SUFFICES ASSUME NEW i \in HeadEnds(s) PROVE i > e + 1
  OBVIOUS
<1>1. /\ e \in Nat /\ s[e] = "CR" /\ s[e + 1] = "LF" /\ a \in Nat /\ a < e
      /\ i \in Nat /\ i - 2 \in Nat /\ s[i] = "CR" /\ i > a
      /\ i \in LineEnds(s) /\ i - 2 \in LineEnds(s) /\ s[i - 1] = "LF"
  BY LineEndsAre DEF LineAt, HeadEnds
<1>2. i >= e /\ (i - 2 < a \/ i - 2 >= e)
  BY <1>1, NoEndBetween
<1>3. i # e + 1
  BY <1>1
<1>4. CASE i = e
  <2>1. i - 2 < a /\ a > 0 /\ i = a + 1
    BY <1>1, <1>2, <1>4, NoEndBetween
  <2> QED BY <1>4, <2>1
<1> QED BY <1>1, <1>2, <1>3, <1>4

\* A line of the head that is not empty is the request line, or follows it.
LEMMA NextHead ==
  ASSUME NEW s, NEW a, NEW e, NEW c, LineAt(s, a, e), HeadUpTo(s, a, c),
         IF a = 0 THEN SubSeq(s, 1, e - 1) = <<"get">> ELSE e # a + 1
  PROVE  HeadUpTo(s, e + 1, e + 1)
<1>0. s \in Seq(Units) /\ e \in LineEnds(s) /\ a \in Nat
  BY DEF LineAt
<1>1. e \in Nat /\ e \in 1..Len(s) /\ Clean(s, e + 1)
  BY <1>0, LineIsClean, LineEndsAre
<1>2. GoodFirst(s)
  <2>1. CASE a = 0
    <3>1. e = 2 /\ s[1] = "get"
      BY <1>0, <1>1, <2>1, GetAlone
    <3> QED BY <1>0, <3>1 DEF GoodFirst
  <2>2. CASE a > 0
    BY <2>2 DEF HeadUpTo
  <2> QED BY <1>0, <2>1, <2>2
<1>3. \A i \in HeadEnds(s) : i > e + 1
  BY HeadGoesOn DEF HeadUpTo
<1>4. AtLine(s, e + 1) /\ Plain(s, e + 1, e + 1)
  BY <1>0, <1>1 DEF AtLine, Plain
<1> QED BY <1>1, <1>2, <1>3, <1>4 DEF HeadUpTo

\* The empty line ends the head.
LEMMA EmptyLine ==
  ASSUME NEW s, NEW a, NEW e, NEW c, LineAt(s, a, e), HeadUpTo(s, a, c), a > 0, e = a + 1
  PROVE  EndsAt(s, e)
<1>1. e \in LineEnds(s) /\ e \in Nat /\ a \in Nat /\ a - 1 = e - 2 /\ s \in Seq(Units)
  BY LineEndsAre DEF LineAt
<1>2. e \in HeadEnds(s)
  BY <1>1 DEF HeadUpTo, AtLine, HeadEnds
<1>3. \A i \in HeadEnds(s) : e <= i
  BY <1>1, LineEndsAre DEF HeadUpTo, HeadEnds
<1> QED BY <1>2, <1>3, LineIsClean DEF EndsAt, HeadUpTo

\* A first line that is no request line.
LEMMA FirstLineBad ==
  ASSUME NEW s, NEW e, LineAt(s, 0, e), SubSeq(s, 1, e - 1) # <<"get">>
  PROVE  Malformed(s)
<1>1. s \in Seq(Units) /\ e \in LineEnds(s) /\ e \in Nat
  BY LineEndsAre DEF LineAt
<1>2. ASSUME NEW j \in LineEnds(s) \cup Stray(s) PROVE e <= j
  <2>1. j \in Nat /\ j > 0 /\ s[j] \in {"CR", "LF"}
    BY <1>1, LineEndsAre DEF Stray
  <2> QED BY <1>1, <2>1 DEF LineAt, Plain
<1> QED BY <1>1, <1>2 DEF Malformed, BadRequestLine

\* A stray CR or LF in the head.
LEMMA StrayIsBad ==
  ASSUME NEW s \in Seq(Units), NEW a \in Nat, NEW c, HeadUpTo(s, a, c),
         NEW i \in Stray(s), Plain(s, a, i - 1)
  PROVE  Malformed(s)
<1>1. ASSUME NEW h \in HeadEnds(s), h < i PROVE FALSE
  <2>1. h \in Nat /\ s[h] = "CR" /\ h > a
    BY LineEndsAre DEF HeadEnds, HeadUpTo
  <2> QED BY <1>1, <2>1 DEF Plain, Stray
<1> QED BY <1>1 DEF Malformed, HeadDone

\* Both stay true when more text comes.
LEMMA HeadKept ==
  ASSUME NEW s \in Seq(Units), NEW r \in Seq(Units), Begins(s, r),
         NEW c \in 0..Len(s), NEW a \in 0..c
  PROVE  /\ HeadUpTo(s, a, c) => HeadUpTo(r, a, c)
         /\ \A h : EndsAt(s, h) => EndsAt(r, h)
<1>1. a \in Nat /\ c \in Nat /\ a \in 0..Len(s)
  OBVIOUS
<1>2. /\ \A i \in Int : i < Len(s) => /\ i \in LineEnds(r) <=> i \in LineEnds(s)
                                      /\ i \in HeadEnds(r) <=> i \in HeadEnds(s)
      /\ \A i \in HeadEnds(r) \cup HeadEnds(s) : i \in Nat
  BY EndsKept, LineEndsAre DEF HeadEnds
<1>3. ASSUME HeadUpTo(s, a, c) PROVE HeadUpTo(r, a, c)
  <2>1. Clean(r, a) /\ Plain(r, a, c) /\ (a > 0 => GoodFirst(r))
    BY <1>1, <1>3, Kept DEF HeadUpTo
  <2>2. AtLine(r, a)
    BY <1>1, <1>2, <1>3 DEF HeadUpTo, AtLine
  <2>3. ASSUME NEW i \in HeadEnds(r), i <= a PROVE FALSE
    <3>1. i \in Nat /\ r[i] = "CR" /\ i \in 1..Len(s)
      BY <1>1, <1>2, <2>3, LineEndsAre DEF HeadEnds
    <3>2. CASE i < Len(s)
      BY <1>1, <1>2, <1>3, <2>3, <3>1, <3>2 DEF HeadUpTo
    <3>3. CASE i = Len(s)
      <4>1. a = i /\ a > 0
        BY <1>1, <2>3, <3>1, <3>3
      <4>2. s[a] = "LF"
        BY <1>1, <1>3, <4>1, LineEndsAre DEF HeadUpTo, AtLine
      <4> QED BY <3>1, <4>1, <4>2 DEF Begins
    <3> QED BY <3>1, <3>2, <3>3
  <2> QED BY <1>1, <1>2, <2>1, <2>2, <2>3 DEF HeadUpTo
<1>4. ASSUME NEW h, EndsAt(s, h) PROVE EndsAt(r, h)
  <2>1. h \in Nat /\ h + 1 \in 0..Len(s) /\ h < Len(s)
    BY <1>4, LineEndsAre DEF EndsAt, HeadEnds
  <2>2. h \in HeadEnds(r)
    BY <1>2, <1>4, <2>1 DEF EndsAt
  <2>3. ASSUME NEW i \in HeadEnds(r), i < h PROVE FALSE
    <3>1. i \in HeadEnds(s)
      BY <1>2, <2>1, <2>3
    <3> QED BY <1>2, <1>4, <2>1, <2>3, <3>1 DEF EndsAt
  <2> QED BY <1>2, <1>4, <2>1, <2>2, <2>3, Kept DEF EndsAt
<1> QED BY <1>3, <1>4

\* Where the head has ended, the text is not malformed.
LEMMA EndedIsGood ==
  ASSUME NEW s \in Seq(Units), NEW h, EndsAt(s, h)
  PROVE  /\ HeadDone(s) /\ HeadLength(s) = h + 1 /\ Headers(s) = Lines(s, h)
         /\ ~BadRequestLine(s) /\ ~Malformed(s)
         /\ h \in Nat /\ h + 1 <= Len(s)
<1>1. HeadDone(s) /\ HeadLength(s) = h + 1 /\ Headers(s) = Lines(s, h)
  BY HeadEndIs DEF EndsAt
<1>2. ~BadRequestLine(s)
  BY GoodIsNotBad DEF EndsAt
<1>3. h \in Nat /\ h + 1 <= Len(s)
  BY LineEndsAre DEF EndsAt, HeadEnds
<1> QED BY <1>1, <1>2, <1>3 DEF Malformed

\* Where it has not, and all has been read, there is nothing to say yet.
LEMMA OpenIsOpen ==
  ASSUME NEW s \in Seq(Units), NEW c \in 0..Len(s), NEW a \in 0..c,
         HeadUpTo(s, a, c), ReadTo(s, c)
  PROVE  /\ \A i \in LineEnds(s) : i < a
         /\ HeadEnds(s) = {} /\ Stray(s) = {} /\ ~Malformed(s)
<1>1. a \in Nat /\ c \in Nat /\ a \in 0..Len(s)
  OBVIOUS
<1>2. ASSUME NEW i \in LineEnds(s) PROVE i < a
  <2>1. i \in Nat /\ 1 <= i /\ i < Len(s) /\ s[i] = "CR"
    BY LineEndsAre
  <2>2. i <= a
    BY <1>1, <2>1 DEF ReadTo, HeadUpTo, Plain
  <2>3. a > 0 /\ s[a] = "LF"
    BY <1>1, <2>1, <2>2, LineEndsAre DEF HeadUpTo, AtLine
  <2> QED BY <1>1, <2>1, <2>2, <2>3
<1>3. HeadEnds(s) = {}
  BY <1>1, <1>2, LineEndsAre DEF HeadUpTo, HeadEnds
<1>4. Stray(s) = {}
  <2> SUFFICES ASSUME NEW j \in Stray(s) PROVE FALSE
    OBVIOUS
  <2>1. j > a /\ j \in 1..Len(s) /\ s[j] \in {"CR", "LF"} /\ (s[j] = "CR" => j < Len(s))
    BY <1>1, NoStray DEF Stray, HeadUpTo
  <2> QED BY <1>1, <2>1 DEF ReadTo, HeadUpTo, Plain
<1>5. ~BadRequestLine(s)
  <2>1. CASE a > 0
    BY <2>1, GoodIsNotBad DEF HeadUpTo
  <2>2. CASE a = 0
    BY <1>2, <2>2, LineEndsAre DEF BadRequestLine
  <2> QED BY <1>1, <2>1, <2>2
<1> QED BY <1>2, <1>3, <1>4, <1>5 DEF Malformed

-----------------------------------------------------------------------------
(* The inductive invariant.                                                   *)

Unanswered == ~asked /\ verdict \in {"NO_REQUEST", "CLOSED"}

\* connect and content_length after the header lines before k.
FieldsOf(k) == /\ content_length = IF LenSeen(read_buffer, k) THEN BodyLen ELSE 0
               /\ connect <=> KeepSeen(read_buffer, k)

\* In the head, all up to checked_index has been looked at.
InHead == /\ start_line <= checked_index
          /\ HeadUpTo(read_buffer, start_line, checked_index)
          /\ check_state = "REQUESTLINE" <=> start_line = 0
          /\ FieldsOf(start_line)

Finished == ReadTo(read_buffer, checked_index)

\* The head has ended at h.
HeadOf(h) == EndsAt(read_buffer, h) /\ FieldsOf(h)

\* In the body, if no segment ended inside of it: it is all there, or nothing of it.
InBodyAt(h) == /\ content_length # 0 /\ h + 1 <= checked_index
               /\ ~cut => /\ checked_index = h + 1
                          /\ pc = "read" \/ line_status # "OK" => read_index = h + 1

VerdictInv == /\ pc = "parse" => verdict = "NO_REQUEST"
              /\ asked => verdict \in Answers /\ Complete(read_buffer)
              /\ ~asked => verdict \in {"NO_REQUEST", "CLOSED", "BAD_REQUEST"}
              /\ ~asked /\ verdict = "BAD_REQUEST" =>
                   (cut /\ check_state = "CONTENT") \/ Malformed(read_buffer)
              /\ cut \/ ~InBody(read_buffer)

HeadInv == Unanswered /\ check_state # "CONTENT" => InHead /\ (pc = "read" => Finished)

ContentInv == asked \/ check_state = "CONTENT" =>
                \E h \in HeadEnds(read_buffer) :
                   HeadOf(h) /\ (Unanswered => check_state = "CONTENT" /\ InBodyAt(h))

TextInv == VerdictInv /\ HeadInv /\ ContentInv

-----------------------------------------------------------------------------
(* What the invariant says of the reference.                                  *)

\* With the head in the buffer, the reference knows it and its fields.
LEMMA HeadOfIs ==
  ASSUME IInv, NEW h \in HeadEnds(read_buffer), HeadOf(h)
  PROVE  /\ HeadDone(read_buffer) /\ HeadLength(read_buffer) = h + 1
         /\ Headers(read_buffer) = Lines(read_buffer, h)
         /\ ~BadRequestLine(read_buffer) /\ ~Malformed(read_buffer)
         /\ HasBody(read_buffer) <=> content_length # 0
         /\ h \in Nat /\ h + 1 <= read_index
<1>1. /\ HeadDone(read_buffer) /\ HeadLength(read_buffer) = h + 1
      /\ Headers(read_buffer) = Lines(read_buffer, h)
      /\ ~BadRequestLine(read_buffer) /\ ~Malformed(read_buffer)
      /\ h \in Nat /\ h + 1 <= read_index
  BY EndedIsGood DEF HeadOf, IInv, read_index
<1>2. HasBody(read_buffer) <=> content_length # 0
  BY <1>1 DEF HasBody, HeadOf, FieldsOf, LenSeen
<1> QED BY <1>1, <1>2

\* A head that has been read to its end and is not complete has no verdict.
LEMMA OpenHeadIs ==
  ASSUME IInv, InHead, Finished
  PROVE  /\ HeadEnds(read_buffer) = {}
         /\ ~Complete(read_buffer) /\ ~Malformed(read_buffer)
         /\ Headers(read_buffer) = Lines(read_buffer, start_line)
<1> DEFINE s == read_buffer
           a == start_line
<1>1. /\ s \in Seq(Units) /\ checked_index \in 0..Len(s) /\ a \in 0..checked_index /\ a \in Nat
      /\ HeadUpTo(s, a, checked_index) /\ ReadTo(s, checked_index)
  BY DEF IInv, TypeOK, read_index, InHead, Finished
<1>2. /\ \A i \in LineEnds(s) : i < a
      /\ HeadEnds(s) = {} /\ Stray(s) = {} /\ ~Malformed(s)
  BY <1>1, OpenIsOpen
<1>3. ASSUME NEW i \in Headers(s) PROVE i \in Lines(s, a)
  <2>1. PICK e \in LineEnds(s) : e > i
    BY DEF Headers
  <2> QED BY <1>1, <1>2, <2>1, LineEndsAre DEF Headers, Lines
<1>4. ASSUME NEW i \in Lines(s, a) PROVE i \in Headers(s)
  <2>1. i \in 1..Len(s) /\ i < a /\ i - 2 \in LineEnds(s) /\ s[i - 1] = "LF"
    BY <1>1, LineEndsAre DEF Lines
  <2>2. a - 1 \in LineEnds(s) /\ s[a - 1] = "CR"
    BY <1>1, <2>1, LineEndsAre DEF HeadUpTo, AtLine
  <2>3. i # a - 1
    BY <1>1, <1>2, <2>1, <2>2 DEF HeadEnds
  <2>4. a - 1 > i
    BY <1>1, <2>1, <2>3
  <2> QED BY <1>1, <1>2, <2>1, <2>2, <2>4 DEF Headers
<1> QED BY <1>2, <1>3, <1>4 DEF Complete, HeadDone

-----------------------------------------------------------------------------
(* The steps.                                                                 *)

LEMMA Parsing ==
  ASSUME TextInv, pc = "parse" PROVE Unanswered /\ ~asked /\ verdict = "NO_REQUEST"
  BY DEF TextInv, VerdictInv, Unanswered, Answers

\* The line of a turn of the loop, in the head.
LEMMA HeadLine ==
  ASSUME IInv, TextInv, NEW state \in {"REQUESTLINE", "HEADER"}, LineIn(state)
  PROVE  /\ InHead
         /\ \E e \in LineEnds(read_buffer) : /\ LineAt(read_buffer, start_line, e)
                                             /\ ParseLine.checked = e + 1
<1>1. InHead
  BY Parsing DEF LineIn, TextInv, HeadInv
<1>2. PICK e \in LineEnds(read_buffer) : /\ ParseLine.checked = e + 1
                                         /\ e > checked_index
                                         /\ Plain(read_buffer, start_line, e - 1)
  BY <1>1, FindsLine DEF LineIn, InHead, HeadUpTo
<1>3. start_line \in Nat /\ start_line < e /\ read_buffer \in Seq(Units)
  BY <1>1, <1>2, LineEndsAre DEF InHead, IInv, TypeOK, read_index
<1> QED BY <1>1, <1>2, <1>3 DEF LineAt, InHead, HeadUpTo, AtLine

\* Fields that no line has set.
LEMMA NoLines ==
  ASSUME NEW s, NEW k, Lines(s, k) = {} PROVE ~LenSeen(s, k) /\ ~KeepSeen(s, k)
  BY DEF LenSeen, KeepSeen

LEMMA RequestLineKeeps == ASSUME IInv, IInv', TextInv, RequestLine PROVE TextInv'
<1>1. LineIn("REQUESTLINE") /\ InHead /\ start_line = 0 /\ ~asked /\ verdict = "NO_REQUEST"
  BY HeadLine, Parsing DEF RequestLine, LineIn, InHead
<1>2. PICK e \in LineEnds(read_buffer) : /\ LineAt(read_buffer, start_line, e)
                                         /\ ParseLine.checked = e + 1
  BY <1>1, HeadLine
<1>3. e \in Nat /\ read_buffer \in Seq(Units) /\ e \in 1..Len(read_buffer)
  BY <1>2, LineEndsAre DEF IInv
<1>4. Text(ParseLine) = SubSeq(read_buffer, 1, e - 1)
  <2>1. ParseLine.checked - 2 = e - 1 /\ start_line + 1 = 1
    BY <1>1, <1>2, <1>3
  <2> QED BY <2>1 DEF Text
<1>5. /\ checked_index' = e + 1 /\ start_line' = e + 1 /\ line_status' = "OK"
      /\ UNCHANGED <<stream, read_buffer, cut, connect, content_length, asked>>
  BY <1>1, <1>2 DEF RequestLine, LineIn, fields
<1>6. InBody(read_buffer)' <=> InBody(read_buffer)
  BY <1>5 DEF InBody
<1>7. CASE Text(ParseLine) = <<"get">>
  <2>1. check_state' = "HEADER" /\ verdict' = "NO_REQUEST" /\ pc' = "parse"
    BY <1>1, <1>7 DEF RequestLine, LineIn
  <2>2. HeadUpTo(read_buffer, e + 1, e + 1)
    BY <1>1, <1>2, <1>4, <1>7, NextHead DEF InHead
  <2>3. Lines(read_buffer, e + 1) = {} /\ Lines(read_buffer, 0) = {}
    BY <1>1, <1>2, LinesGrow DEF Lines
  <2>4. FieldsOf(e + 1)'
    BY <1>1, <1>5, <2>3, NoLines DEF FieldsOf, InHead
  <2>5. InHead'
    BY <1>3, <1>5, <2>1, <2>2, <2>4 DEF InHead
  <2> QED BY <1>1, <1>5, <1>6, <2>1, <2>5
          DEF TextInv, VerdictInv, HeadInv, ContentInv, Unanswered
<1>8. CASE Text(ParseLine) # <<"get">>
  <2>1. verdict' = "BAD_REQUEST" /\ pc' = "read" /\ check_state' = "REQUESTLINE"
    BY <1>8 DEF RequestLine, LineIn, Return
  <2>2. Malformed(read_buffer)'
    <3>1. Malformed(read_buffer)
      BY <1>1, <1>2, <1>4, <1>8, FirstLineBad
    <3> QED BY <1>5, <3>1 DEF Malformed
  <2> QED BY <1>1, <1>5, <1>6, <2>1, <2>2
          DEF TextInv, VerdictInv, HeadInv, ContentInv, Unanswered
<1> QED BY <1>7, <1>8

\* A header line, or the empty one.
LEMMA TextIs ==
  ASSUME NEW s \in Seq(Units), NEW a \in Nat, NEW e \in Nat, a < e, e <= Len(s)
  PROVE  LET t == SubSeq(s, a + 1, e - 1)
         IN  /\ t = <<>> <=> e = a + 1
             /\ t # <<>> => t[1] = s[a + 1]
<1> DEFINE t == SubSeq(s, a + 1, e - 1)
<1>1. t \in Seq(Units) /\ Len(t) = e - 1 - a /\ \A j \in 1..(e - 1 - a) : t[j] = s[a + j]
  OBVIOUS
<1> HIDE DEF t
<1>2. t = <<>> <=> e = a + 1
  BY <1>1
<1>3. t # <<>> => t[1] = s[a + 1]
  BY <1>1, <1>2
<1> QED BY <1>2, <1>3 DEF t

\* What one more header line says.
LEMMA FieldsGrow ==
  ASSUME NEW s \in Seq(Units), NEW a \in Nat, NEW k, Lines(s, k) = Lines(s, a) \cup {a + 1}
  PROVE  /\ LenSeen(s, k) <=> s[a + 1] = "len" \/ LenSeen(s, a)
         /\ KeepSeen(s, k) <=> IF s[a + 1] \in {"keep", "close"} THEN s[a + 1] = "keep"
                                                             ELSE KeepSeen(s, a)
<1>1. LenSeen(s, k) <=> s[a + 1] = "len" \/ LenSeen(s, a)
  BY DEF LenSeen
<1>2. \A i \in Lines(s, a) : i \in Nat /\ i < a + 1
  BY DEF Lines
<1>3. ASSUME s[a + 1] \in {"keep", "close"} PROVE KeepSeen(s, k) <=> s[a + 1] = "keep"
  <2>1. a + 1 \in Lines(s, k) /\ \A i \in Lines(s, k) : i \in Nat /\ i <= a + 1
    BY <1>2
  <2>2. ASSUME s[a + 1] = "keep" PROVE KeepSeen(s, k)
    BY <2>1, <2>2 DEF KeepSeen
  <2>3. ASSUME KeepSeen(s, k) PROVE s[a + 1] = "keep"
    <3>1. PICK i \in Lines(s, k) :
             s[i] = "keep" /\ \A j \in Lines(s, k) : s[j] \in {"keep", "close"} => j <= i
      BY <2>3 DEF KeepSeen
    <3>2. a + 1 <= i
      BY <1>3, <2>1, <3>1
    <3>3. i = a + 1
      BY <2>1, <3>2
    <3> QED BY <3>1, <3>3
  <2> QED BY <2>2, <2>3
<1>4. ASSUME s[a + 1] \notin {"keep", "close"} PROVE KeepSeen(s, k) <=> KeepSeen(s, a)
  <2>1. \A j \in Lines(s, k) : s[j] \in {"keep", "close"} => j \in Lines(s, a)
    BY <1>4
  <2>2. Lines(s, a) \subseteq Lines(s, k)
    OBVIOUS
  <2> QED BY <2>1, <2>2 DEF KeepSeen
<1> QED BY <1>1, <1>3, <1>4

LEMMA HeaderFieldKeeps == ASSUME IInv, IInv', TextInv, HeaderField PROVE TextInv'
<1> DEFINE a == start_line
<1>1. LineIn("HEADER") /\ InHead /\ a > 0 /\ a \in Nat /\ ~asked /\ verdict = "NO_REQUEST"
  BY HeadLine, Parsing DEF HeaderField, LineIn, InHead, IInv, TypeOK, read_index
<1>2. PICK e \in LineEnds(read_buffer) : LineAt(read_buffer, a, e) /\ ParseLine.checked = e + 1
  BY <1>1, HeadLine
<1>3. e \in Nat /\ read_buffer \in Seq(Units) /\ e \in 1..Len(read_buffer) /\ a < e
  BY <1>2, LineEndsAre DEF IInv, LineAt
<1>4. Text(ParseLine) = SubSeq(read_buffer, a + 1, e - 1)
  <2>1. ParseLine.checked - 2 = e - 1
    BY <1>2, <1>3
  <2> QED BY <2>1 DEF Text
<1>5. e # a + 1 /\ Text(ParseLine)[1] = read_buffer[a + 1]
  BY <1>1, <1>3, <1>4, TextIs DEF HeaderField
<1>6. /\ checked_index' = e + 1 /\ start_line' = e + 1 /\ line_status' = "OK"
      /\ UNCHANGED <<stream, read_buffer, cut, asked, check_state, verdict, pc>>
      /\ pc = "parse" /\ check_state = "HEADER"
  BY <1>1, <1>2 DEF HeaderField, LineIn
<1>7. InBody(read_buffer)' <=> InBody(read_buffer)
  BY <1>6 DEF InBody
<1>8. Lines(read_buffer, e + 1) = Lines(read_buffer, a) \cup {a + 1}
  BY <1>1, <1>2, LinesGrow
<1>9. HeadUpTo(read_buffer, e + 1, e + 1)
  BY <1>1, <1>2, <1>5, NextHead DEF InHead
<1>10. FieldsOf(e + 1)'
  <2>1. /\ content_length' = IF read_buffer[a + 1] = "len" THEN BodyLen ELSE content_length
        /\ connect' = IF read_buffer[a + 1] \in {"keep", "close"}
                      THEN read_buffer[a + 1] = "keep" ELSE connect
    BY <1>5 DEF HeaderField
  <2>2. /\ LenSeen(read_buffer, e + 1) <=> read_buffer[a + 1] = "len" \/ LenSeen(read_buffer, a)
        /\ KeepSeen(read_buffer, e + 1) <=> IF read_buffer[a + 1] \in {"keep", "close"}
                                            THEN read_buffer[a + 1] = "keep"
                                            ELSE KeepSeen(read_buffer, a)
    BY <1>1, <1>3, <1>8, FieldsGrow
  <2>3. /\ content_length = IF LenSeen(read_buffer, a) THEN BodyLen ELSE 0
        /\ connect <=> KeepSeen(read_buffer, a)
    BY <1>1 DEF InHead, FieldsOf
  <2>4. content_length' = IF LenSeen(read_buffer, e + 1) THEN BodyLen ELSE 0
    BY <2>1, <2>2, <2>3
  <2>5. connect' <=> KeepSeen(read_buffer, e + 1)
    BY <2>1, <2>2, <2>3
  <2> QED BY <1>6, <2>4, <2>5 DEF FieldsOf
<1>11. InHead'
  BY <1>3, <1>6, <1>9, <1>10 DEF InHead
<1> QED BY <1>1, <1>6, <1>7, <1>11 DEF TextInv, VerdictInv, HeadInv, ContentInv, Unanswered

LEMMA HeadersEndKeeps == ASSUME IInv, IInv', TextInv, HeadersEnd PROVE TextInv'
<1> DEFINE a == start_line
<1>1. LineIn("HEADER") /\ InHead /\ a > 0 /\ a \in Nat /\ ~asked /\ verdict = "NO_REQUEST"
  BY HeadLine, Parsing DEF HeadersEnd, LineIn, InHead, IInv, TypeOK, read_index
<1>h. PICK h : h = a + 1
  OBVIOUS
<1>2. PICK e \in LineEnds(read_buffer) : LineAt(read_buffer, a, e) /\ ParseLine.checked = e + 1
  BY <1>1, HeadLine
<1>3. e \in Nat /\ read_buffer \in Seq(Units) /\ e \in 1..Len(read_buffer) /\ a < e
  BY <1>2, LineEndsAre DEF IInv, LineAt
<1>4. Text(ParseLine) = SubSeq(read_buffer, a + 1, e - 1)
  <2>1. ParseLine.checked - 2 = e - 1
    BY <1>2, <1>3
  <2> QED BY <2>1 DEF Text
<1>5. e = h
  BY <1>h, <1>1, <1>3, <1>4, TextIs DEF HeadersEnd
<1>6. /\ checked_index' = h + 1 /\ line_status' = "OK"
      /\ UNCHANGED <<stream, read_buffer, cut, connect, content_length>>
      /\ pc = "parse" /\ check_state = "HEADER"
  BY <1>1, <1>2, <1>5 DEF HeadersEnd, LineIn, fields
<1>7. InBody(read_buffer)' <=> InBody(read_buffer)
  BY <1>6 DEF InBody
<1>8. Lines(read_buffer, h) = Lines(read_buffer, a)
  BY <1>h, <1>1, <1>2, LinesGrow
<1>9. EndsAt(read_buffer, h)
  BY <1>h, <1>1, <1>2, <1>5, EmptyLine DEF InHead
<1>10. FieldsOf(h)
  BY <1>1, <1>8 DEF InHead, FieldsOf, LenSeen, KeepSeen
<1>11. HeadOf(h) /\ h \in HeadEnds(read_buffer)
  BY <1>9, <1>10 DEF HeadOf, EndsAt
<1>12. FieldsOf(h)'
  BY <1>6, <1>10 DEF FieldsOf
<1>13. HeadOf(h)' /\ h \in HeadEnds(read_buffer)'
  BY <1>6, <1>9, <1>11, <1>12 DEF HeadOf
<1>14. CASE content_length # 0
  <2>1. check_state' = "CONTENT" /\ UNCHANGED <<asked, verdict, pc>>
    BY <1>14 DEF HeadersEnd
  <2>2. InBodyAt(h)'
    <3>1. h \in Nat /\ content_length' # 0
      BY <1>h, <1>1, <1>6, <1>14
    <3>2. h + 1 <= checked_index'
      BY <1>6, <3>1
    <3>3. ~cut' => checked_index' = h + 1 /\ (pc' = "read" \/ line_status' # "OK" => read_index' = h + 1)
      BY <1>6, <2>1
    <3> QED BY <3>1, <3>2, <3>3 DEF InBodyAt
  <2> QED BY <1>1, <1>6, <1>7, <1>13, <2>1, <2>2
          DEF TextInv, VerdictInv, HeadInv, ContentInv, Unanswered
<1>15. CASE content_length = 0
  <2>1. asked' = TRUE /\ verdict' \in Answers /\ pc' = "read"
    BY <1>15 DEF HeadersEnd, DoRequest, Return
  <2>2. /\ HeadDone(read_buffer) /\ ~BadRequestLine(read_buffer) /\ ~HasBody(read_buffer)
    BY <1>11, <1>15, HeadOfIs
  <2>3. Complete(read_buffer)'
    BY <1>6, <2>2 DEF Complete
  <2> QED BY <1>6, <1>7, <1>13, <2>1, <2>3
          DEF TextInv, VerdictInv, HeadInv, ContentInv, Unanswered
<1> QED BY <1>14, <1>15

\* With nothing after checked_index parse_line() waits for more.
LEMMA NothingLeft ==
  ASSUME IInv, checked_index = read_index
  PROVE  ParseLine.status = "OPEN" /\ ParseLine.checked = read_index
<1>1. Special = {}
  BY DEF Special, IInv, TypeOK, read_index
<1> QED BY <1>1 DEF ParseLine, Line, read_index

\* parse_line() has run over a body only when a segment ended inside of it.
LEMMA SearchedMeansCut ==
  ASSUME IInv, NEW h \in HeadEnds(read_buffer), HeadOf(h), InBodyAt(h),
         line_status # "OK", ParseLine.status # "OPEN"
  PROVE  cut
  BY NothingLeft DEF InBodyAt

\* The same head in the same buffer.
LEMMA HeadStays ==
  ASSUME NEW h \in HeadEnds(read_buffer), HeadOf(h),
         UNCHANGED <<read_buffer, connect, content_length>>
  PROVE  HeadOf(h)' /\ h \in HeadEnds(read_buffer)'
  BY DEF HeadOf, FieldsOf

LEMMA ContentKeeps == ASSUME IInv, IInv', TextInv, Content PROVE TextInv'
<1>1. pc = "parse" /\ check_state = "CONTENT" /\ ~asked /\ verdict = "NO_REQUEST" /\ Unanswered
  BY Parsing DEF Content, ParseContent
<1>2. PICK h \in HeadEnds(read_buffer) : HeadOf(h) /\ InBodyAt(h)
  BY <1>1 DEF TextInv, ContentInv
<1>3. PICK d \in checked_index..read_index :
         /\ ParseContent(d)
         /\ ~cut => line_status = "OK" /\ d = checked_index
  <2>1. CASE line_status = "OK" /\ ParseContent(checked_index)
    BY <2>1 DEF IInv, TypeOK, read_index
  <2>2. CASE line_status # "OK" /\ ParseLine.status = "OK" /\ ParseContent(ParseLine.checked)
    <3>1. cut
      BY <1>2, <2>2, SearchedMeansCut
    <3>2. ParseLine.checked \in checked_index..read_index
      BY LineForward DEF read_index
    <3> QED BY <2>2, <3>1, <3>2
  <2> QED BY <2>1, <2>2 DEF Content
<1>4. /\ h \in Nat /\ h + 1 <= read_index
      /\ HeadLength(read_buffer) = h + 1 /\ HeadDone(read_buffer)
      /\ HasBody(read_buffer) /\ ~BadRequestLine(read_buffer)
      /\ content_length = BodyLen
  BY <1>2, HeadOfIs DEF InBodyAt, IInv, TypeOK
<1>5. UNCHANGED <<stream, read_buffer, check_state, connect, content_length, cut>>
  BY <1>3 DEF ParseContent, fields
<1>6. HeadOf(h)' /\ h \in HeadEnds(read_buffer)'
  BY <1>2, <1>5, HeadStays
<1>7. InBody(read_buffer)' <=> InBody(read_buffer)
  BY <1>5 DEF InBody
<1>8. /\ read_index \in Nat /\ checked_index \in Nat /\ h + 1 <= checked_index /\ BodyLen \in Nat
      /\ Len(read_buffer) = read_index
  BY <1>2 DEF InBodyAt, IInv, TypeOK, read_index
<1>9. CASE read_index >= content_length + d
  <2>1. asked' = TRUE /\ verdict' \in Answers /\ pc' = "read"
    BY <1>3, <1>9 DEF ParseContent, DoRequest, Return
  <2>2. read_index >= h + 1 + BodyLen
    BY <1>3, <1>4, <1>8, <1>9 DEF read_index
  <2>3. Complete(read_buffer)'
    BY <1>4, <1>5, <1>8, <2>2 DEF Complete
  <2> QED BY <1>5, <1>6, <1>7, <2>1, <2>3
          DEF TextInv, VerdictInv, HeadInv, ContentInv, Unanswered
<1>10. CASE ~(read_index >= content_length + d)
  <2>1. line_status' = "OPEN" /\ checked_index' = d /\ UNCHANGED <<asked, verdict, pc>>
    BY <1>3, <1>10 DEF ParseContent
  <2>2. ASSUME ~cut PROVE d = h + 1 /\ read_index = h + 1
    <3>1. d = h + 1
      BY <1>2, <1>3, <2>2 DEF InBodyAt
    <3>2. ~Complete(read_buffer)
      BY <1>4, <1>8, <1>10, <3>1 DEF Complete, read_index
    <3>3. ~InBody(read_buffer)
      BY <2>2 DEF TextInv, VerdictInv
    <3> QED BY <1>4, <1>8, <3>1, <3>2, <3>3 DEF InBody
  <2>3. InBodyAt(h)'
    <3>1. content_length' # 0 /\ h + 1 <= checked_index'
      BY <1>2, <1>3, <1>4, <1>5, <1>8, <2>1 DEF InBodyAt
    <3>2. ~cut' => checked_index' = h + 1 /\ read_index' = h + 1
      BY <1>5, <2>1, <2>2 DEF read_index
    <3> QED BY <3>1, <3>2 DEF InBodyAt
  <2> QED BY <1>1, <1>5, <1>6, <1>7, <2>1, <2>3
          DEF TextInv, VerdictInv, HeadInv, ContentInv, Unanswered
<1> QED BY <1>9, <1>10

LEMMA NoLineKeeps == ASSUME IInv, IInv', TextInv, NoLine PROVE TextInv'
<1>1. pc = "parse" /\ ~asked /\ verdict = "NO_REQUEST" /\ Unanswered
  BY Parsing DEF NoLine
<1>2. /\ checked_index' = ParseLine.checked /\ line_status' = ParseLine.status /\ pc' = "read"
      /\ UNCHANGED <<stream, read_buffer, start_line, check_state, connect, content_length,
                     asked, cut>>
      /\ ParseLine.status \in {"OPEN", "BAD"}
      /\ verdict' = IF ParseLine.status = "OPEN" THEN "NO_REQUEST" ELSE "BAD_REQUEST"
  BY LineForward DEF NoLine, Return, fields
<1>3. InBody(read_buffer)' <=> InBody(read_buffer)
  BY <1>2 DEF InBody
<1>4. /\ read_index \in Nat /\ checked_index \in Nat
      /\ start_line \in Nat /\ start_line <= checked_index
      /\ checked_index <= read_index /\ read_index = Len(read_buffer)
      /\ read_buffer \in Seq(Units)
      /\ ParseLine.checked \in checked_index..read_index
  BY <1>1, LineAhead DEF IInv, TypeOK, read_index
<1>5. CASE check_state # "CONTENT"
  <2>1. InHead
    BY <1>1, <1>5 DEF TextInv, HeadInv
  <2>2. CASE ParseLine.status = "OPEN"
    <3>1. /\ Plain(read_buffer, start_line, ParseLine.checked)
          /\ ReadTo(read_buffer, ParseLine.checked)
      BY <2>1, <2>2, FindsNone DEF InHead, HeadUpTo, ReadTo, read_index
    <3>2. HeadUpTo(read_buffer, start_line, ParseLine.checked)
      BY <2>1, <3>1 DEF InHead, HeadUpTo
    <3>3. InHead'
      <4>1. start_line' <= checked_index'
        BY <1>2, <1>4
      <4> QED BY <1>2, <2>1, <3>2, <4>1 DEF InHead, FieldsOf
    <3>4. Finished'
      BY <1>2, <3>1 DEF Finished
    <3> QED BY <1>1, <1>2, <1>3, <1>5, <2>2, <3>3, <3>4
            DEF TextInv, VerdictInv, HeadInv, ContentInv, Unanswered
  <2>3. CASE ParseLine.status = "BAD"
    <3>1. PICK i \in Stray(read_buffer) : i > start_line /\ Plain(read_buffer, start_line, i - 1)
      BY <2>1, <2>3, FindsBad DEF InHead, HeadUpTo
    <3>2. Malformed(read_buffer)
      BY <1>4, <2>1, <3>1, StrayIsBad DEF InHead
    <3>3. Malformed(read_buffer)'
      BY <1>2, <3>2 DEF Malformed
    <3> QED BY <1>1, <1>2, <1>3, <1>5, <2>3, <3>3
            DEF TextInv, VerdictInv, HeadInv, ContentInv, Unanswered
  <2> QED BY <1>2, <2>2, <2>3
<1>6. CASE check_state = "CONTENT"
  <2>1. PICK h \in HeadEnds(read_buffer) : HeadOf(h) /\ InBodyAt(h)
    BY <1>1, <1>6 DEF TextInv, ContentInv
  <2>2. HeadOf(h)' /\ h \in HeadEnds(read_buffer)'
    BY <1>2, <2>1, HeadStays
  <2>3. line_status # "OK"
    BY <1>6 DEF NoLine
  <2>4. ASSUME ~cut
        PROVE  ParseLine.status = "OPEN" /\ ParseLine.checked = h + 1 /\ read_index = h + 1
    <3>1. checked_index = read_index /\ read_index = h + 1
      BY <2>1, <2>3, <2>4 DEF InBodyAt
    <3> QED BY <3>1, NothingLeft
  <2>5. InBodyAt(h)'
    <3>1. h \in Nat /\ content_length' # 0
      BY <1>2, <2>1, HeadOfIs DEF InBodyAt
    <3>2. h + 1 <= checked_index'
      BY <1>2, <1>4, <2>1, <3>1 DEF InBodyAt
    <3>3. ~cut' => checked_index' = h + 1 /\ read_index' = h + 1
      BY <1>2, <2>4 DEF read_index
    <3> QED BY <3>1, <3>2, <3>3 DEF InBodyAt
  <2>6. ~cut => verdict' = "NO_REQUEST"
    BY <1>2, <2>4
  <2> QED BY <1>1, <1>2, <1>3, <1>6, <2>2, <2>5, <2>6
          DEF TextInv, VerdictInv, HeadInv, ContentInv, Unanswered
<1> QED BY <1>5, <1>6

LEMMA ReadKeepsText ==
  ASSUME IInv, IInv', TextInv, NEW k \in 1..Len(stream), Read(k) PROVE TextInv'
<1>1. ~asked /\ verdict = "NO_REQUEST" /\ pc = "read" /\ Unanswered
  BY DEF Read, TextInv, VerdictInv, Unanswered, Answers
<1>2. /\ UNCHANGED <<checked_index, start_line, check_state, connect, content_length, asked,
                     verdict>>
      /\ line_status' = "OK" /\ pc' = "parse"
      /\ cut' = (cut \/ InBody(read_buffer'))
      /\ read_buffer' = read_buffer \o SubSeq(stream, 1, k)
  BY DEF Read, fields
<1>3. /\ read_buffer \in Seq(Units) /\ read_buffer' \in Seq(Units) /\ cut \in BOOLEAN
      /\ checked_index \in 0..Len(read_buffer) /\ start_line \in 0..checked_index
      /\ start_line \in 0..read_index
      /\ read_index \in Nat /\ read_index = Len(read_buffer)
  BY <1>1 DEF IInv, TypeOK, read_index
<1>4. Begins(read_buffer, read_buffer')
  <2>1. SubSeq(stream, 1, k) \in Seq(Units)
    BY DEF IInv
  <2> QED BY <1>2, <1>3, <2>1 DEF Begins
<1>5. InBody(read_buffer)' <=> InBody(read_buffer')
  BY DEF InBody
<1>6. cut' \/ ~InBody(read_buffer')
  BY <1>2
<1>7. \A j \in 0..read_index : FieldsOf(j) => FieldsOf(j)'
  BY <1>2, <1>3, <1>4, Kept DEF FieldsOf
<1>8. CASE check_state # "CONTENT"
  <2>1. InHead
    BY <1>1, <1>8 DEF TextInv, HeadInv
  <2>2. HeadUpTo(read_buffer', start_line, checked_index)
    BY <1>3, <1>4, <2>1, HeadKept DEF InHead
  <2>3. InHead'
    BY <1>2, <1>3, <1>7, <2>1, <2>2 DEF InHead
  <2> QED BY <1>1, <1>2, <1>5, <1>6, <1>8, <2>3
          DEF TextInv, VerdictInv, HeadInv, ContentInv, Unanswered
<1>9. CASE check_state = "CONTENT"
  <2>1. PICK h \in HeadEnds(read_buffer) : HeadOf(h) /\ InBodyAt(h)
    BY <1>1, <1>9 DEF TextInv, ContentInv
  <2>2. h \in Nat /\ h + 1 <= read_index
    BY <2>1, HeadOfIs
  <2>3. EndsAt(read_buffer', h)
    <3>1. 0 \in 0..Len(read_buffer) /\ 0 \in 0..0
      BY <1>3
    <3> QED BY <1>3, <1>4, <2>1, <3>1, HeadKept DEF HeadOf
  <2>4. FieldsOf(h)'
    BY <1>3, <1>7, <2>1, <2>2 DEF HeadOf
  <2>5. HeadOf(h)' /\ h \in HeadEnds(read_buffer)'
    BY <1>2, <2>1, <2>3, <2>4 DEF HeadOf, EndsAt
  <2>6. InBodyAt(h)'
    BY <1>2, <1>3, <2>1 DEF InBodyAt
  <2> QED BY <1>1, <1>2, <1>5, <1>6, <1>9, <2>5, <2>6
          DEF TextInv, VerdictInv, HeadInv, ContentInv, Unanswered
<1> QED BY <1>8, <1>9

\* Nothing has been read of the request.
Fresh == /\ read_buffer = <<>> /\ start_line = 0 /\ checked_index = 0
         /\ check_state = "REQUESTLINE" /\ connect = FALSE /\ content_length = 0
         /\ asked = FALSE /\ verdict = "NO_REQUEST" /\ pc = "read"

LEMMA FreshText == IInv /\ Fresh => TextInv
<1> SUFFICES ASSUME IInv, Fresh PROVE TextInv
  OBVIOUS
<1> USE DEF Fresh
<1>1. Len(read_buffer) = 0 /\ LineEnds(read_buffer) = {}
  BY DEF LineEnds
<1>2. HeadEnds(read_buffer) = {} /\ Lines(read_buffer, 0) = {}
  BY <1>1 DEF HeadEnds, Lines
<1>3. ~InBody(read_buffer)
  BY <1>2 DEF InBody, HeadDone
<1>4. FieldsOf(start_line)
  BY <1>2, NoLines DEF FieldsOf
<1>5. InHead /\ Finished
  BY <1>1, <1>2, <1>4 DEF InHead, Finished, HeadUpTo, ReadTo, Clean, Plain, AtLine
<1> QED BY <1>3, <1>5 DEF TextInv, VerdictInv, HeadInv, ContentInv, Unanswered

LEMMA ResetKeepsText == ASSUME IInv', HttpReset PROVE TextInv'
<1>1. Fresh'
  BY DEF HttpReset, ResetFields, Fresh
<1> QED BY <1>1, FreshText, PTL

LEMMA HangUpKeepsText == ASSUME IInv, IInv', TextInv, HangUp PROVE TextInv'
<1>1. ~asked /\ verdict = "NO_REQUEST" /\ pc = "read" /\ verdict' = "CLOSED"
      /\ UNCHANGED <<stream, read_buffer, checked_index, start_line, check_state,
                     line_status, connect, content_length, asked, cut, pc>>
  BY DEF HangUp, TextInv, VerdictInv, Answers, fields
<1>2. /\ InBody(read_buffer)' <=> InBody(read_buffer)
      /\ InHead' <=> InHead
      /\ Finished' <=> Finished
  BY <1>1 DEF InBody, InHead, Finished, FieldsOf
<1>3. \A h : (HeadOf(h) /\ InBodyAt(h))' <=> (HeadOf(h) /\ InBodyAt(h))
  BY <1>1 DEF HeadOf, FieldsOf, InBodyAt, read_index
<1> QED BY <1>1, <1>2, <1>3 DEF TextInv, VerdictInv, HeadInv, ContentInv, Unanswered

LEMMA StutterKeepsText == ASSUME TextInv, UNCHANGED vars PROVE TextInv'
<1>1. UNCHANGED <<stream, read_buffer, checked_index, start_line, check_state,
                  line_status, connect, content_length, asked, cut, verdict, pc>>
  BY DEF vars, fields
<1>2. /\ InBody(read_buffer)' <=> InBody(read_buffer)
      /\ Complete(read_buffer)' <=> Complete(read_buffer)
      /\ Malformed(read_buffer)' <=> Malformed(read_buffer)
      /\ InHead' <=> InHead
      /\ Finished' <=> Finished
  BY <1>1 DEF InBody, InHead, Finished, FieldsOf, Complete, Malformed
<1>3. \A h : /\ HeadOf(h)' <=> HeadOf(h)
             /\ InBodyAt(h)' <=> InBodyAt(h)
  BY <1>1 DEF HeadOf, FieldsOf, InBodyAt, read_index
<1> QED BY <1>1, <1>2, <1>3 DEF TextInv, VerdictInv, HeadInv, ContentInv, Unanswered

-----------------------------------------------------------------------------
LEMMA TextKeeps == IInv /\ TextInv /\ IInv' /\ [Next]_vars => TextInv'
  BY ReadKeepsText, RequestLineKeeps, HeaderFieldKeeps, HeadersEndKeeps, ContentKeeps,
     NoLineKeeps, HangUpKeepsText, ResetKeepsText, StutterKeepsText DEF Next

\* After every step the parser knows of the text what the reference reads in it: the
\* inductive invariant of the theorems below.
THEOREM ParseInvariant == Spec => [](IInv /\ TextInv)
<1>1. Init => Fresh
  BY DEF Init, Fresh
<1> QED BY <1>1, TextKeeps, InitHolds, NextKeeps, FreshText, PTL DEF Spec

\* do_request() is called only when the text received so far is a complete request, body
\* included, however the body was cut.  (A 400 may come sooner.)
THEOREM ParseFileOnlyForWhole == Spec => []FileOnlyForWhole
<1>1. TextInv => FileOnlyForWhole
  BY DEF TextInv, VerdictInv, FileOnlyForWhole
<1> QED BY <1>1, ParseInvariant, PTL

\* Unless a segment ended inside of a body, the verdict after each call of http_parse() is
\* that of the text received so far, in whatever segments it came.
THEOREM ParseSegmentsIrrelevant == Spec => []SegmentsIrrelevant
<1>1. IInv /\ TextInv => SegmentsIrrelevant
  <2> SUFFICES ASSUME IInv, TextInv, pc = "read", ~cut
               PROVE  /\ asked <=> Complete(read_buffer)
                      /\ verdict = "BAD_REQUEST" /\ ~asked <=> Malformed(read_buffer)
    BY DEF SegmentsIrrelevant
  <2>1. CASE asked
    BY <2>1, HeadOfIs DEF TextInv, VerdictInv, ContentInv
  <2>2. CASE ~asked /\ verdict = "BAD_REQUEST"
    BY <2>2 DEF TextInv, VerdictInv, Malformed, Complete
  <2>3. CASE Unanswered /\ check_state # "CONTENT"
    BY <2>3, OpenHeadIs DEF TextInv, HeadInv, Unanswered
  <2>4. CASE Unanswered /\ check_state = "CONTENT"
    <3>1. PICK h \in HeadEnds(read_buffer) : HeadOf(h) /\ InBodyAt(h)
      BY <2>4 DEF TextInv, ContentInv
    <3>2. /\ HasBody(read_buffer) /\ ~Malformed(read_buffer)
          /\ HeadLength(read_buffer) = h + 1 /\ Len(read_buffer) = h + 1 /\ h \in Nat
      BY <3>1, HeadOfIs DEF InBodyAt, read_index
    <3>3. ~Complete(read_buffer)
      BY <3>2 DEF Complete
    <3> QED BY <2>4, <3>2, <3>3 DEF Unanswered
  <2> QED BY <2>1, <2>2, <2>3, <2>4 DEF TextInv, VerdictInv, Unanswered
<1> QED BY <1>1, ParseInvariant, PTL

\* connect is what the last Connection header of this request says, in whatever segments
\* it came and whatever earlier requests said.
THEOREM ParseKeepAliveOfThisRequest == Spec => []KeepAliveOfThisRequest
<1>1. IInv /\ TextInv => KeepAliveOfThisRequest
  <2> SUFFICES ASSUME IInv, TextInv, pc = "read", asked \/ verdict = "NO_REQUEST"
               PROVE  connect <=> \E i \in ConnectionHeaders(read_buffer) :
                         /\ read_buffer[i] = "keep"
                         /\ \A j \in ConnectionHeaders(read_buffer) : j <= i
    BY DEF KeepAliveOfThisRequest, IInv, TypeOK
  <2>1. ASSUME NEW k, FieldsOf(k), Headers(read_buffer) = Lines(read_buffer, k)
        PROVE  connect <=> \E i \in ConnectionHeaders(read_buffer) :
                         /\ read_buffer[i] = "keep"
                         /\ \A j \in ConnectionHeaders(read_buffer) : j <= i
    BY <2>1 DEF FieldsOf, KeepSeen, ConnectionHeaders
  <2>2. \E k : FieldsOf(k) /\ Headers(read_buffer) = Lines(read_buffer, k)
    <3>1. CASE asked \/ (Unanswered /\ check_state = "CONTENT")
      BY <3>1, HeadOfIs DEF TextInv, ContentInv, HeadOf
    <3>2. CASE Unanswered /\ check_state # "CONTENT"
      BY <3>2, OpenHeadIs DEF TextInv, HeadInv, InHead
    <3> QED BY <3>1, <3>2 DEF Unanswered
  <2> QED BY <2>1, <2>2
<1> QED BY <1>1, ParseInvariant, PTL

-----------------------------------------------------------------------------
(* The first parser.                                                          *)

FirstType == /\ first \in [buffer : Seq(Units), checked_index : Nat, start_line : Nat,
                           check_state : {"REQUESTLINE", "HEADER"},
                           connection : {"unset", "KEEP_ALIVE"},
                           ret : {"none", "success", "failure"}, running : BOOLEAN]
             /\ first.checked_index <= Len(first.buffer)
             /\ first.start_line <= first.checked_index
             /\ first.running => first.ret = "none"

\* While it has no answer, it knows of the head what the receiver knows in the head.
FirstInHead == /\ first.buffer = read_buffer
               /\ HeadUpTo(read_buffer, first.start_line, first.checked_index)
               /\ first.check_state = "REQUESTLINE" <=> first.start_line = 0
               /\ ~first.running => ReadTo(read_buffer, first.checked_index)

FirstAnswer == /\ first.ret = "none" => FirstInHead
               /\ first.ret = "success" => \E h \in HeadEnds(read_buffer) : EndsAt(read_buffer, h)
               /\ first.ret = "failure" => Malformed(read_buffer)

FirstInv == FirstType /\ IF verdict = "CLOSED" THEN ~first.running ELSE FirstAnswer

\* parse_line() of the first parser, in a head.
LEMMA FirstFinds ==
  ASSUME NEW p, NEW s \in Seq(Units), p.buffer = s,
         p.checked_index \in 0..Len(s), p.start_line \in 0..p.checked_index,
         HeadUpTo(s, p.start_line, p.checked_index)
  PROVE  \E status, c : /\ First!parse_line(p) = <<status, c>>
                        /\ c \in p.checked_index..Len(s)
                        /\ \/ /\ status = "OPEN"
                              /\ Plain(s, p.start_line, c) /\ ReadTo(s, c)
                           \/ /\ status = "OK"
                              /\ \E e \in LineEnds(s) : LineAt(s, p.start_line, e) /\ c = e + 1
                           \/ /\ status = "BAD"
                              /\ \E i \in Stray(s) : Plain(s, p.start_line, i - 1)
<1> DEFINE a == p.start_line
           k == p.checked_index
           n == Len(s)
           Found(status, c) ==
             /\ c \in k..n
             /\ \/ status = "OPEN" /\ Plain(s, a, c) /\ ReadTo(s, c)
                \/ status = "OK" /\ \E e \in LineEnds(s) : LineAt(s, a, e) /\ c = e + 1
                \/ status = "BAD" /\ \E i \in Stray(s) : Plain(s, a, i - 1)
<1>1. n \in Nat /\ k \in Nat /\ a \in Nat /\ a <= k /\ k <= n
  OBVIOUS
<1>2. Clean(s, a) /\ AtLine(s, a) /\ Plain(s, a, k)
  BY DEF HeadUpTo
<1>3. First!read_index(p) = n /\ First!Specials(p) = {i \in (k + 1)..n : s[i] \in {"CR", "LF"}}
  BY DEF First!read_index, First!Specials
<1>4. CASE First!Specials(p) = {}
  <2>1. First!parse_line(p) = <<"OPEN", n>>
    BY <1>3, <1>4 DEF First!parse_line
  <2>2. Plain(s, k, n)
    BY <1>1, <1>3, <1>4 DEF Plain
  <2>3. Found("OPEN", n)
    BY <1>1, <1>2, <2>2, PlainOn DEF ReadTo
  <2> QED BY <2>1, <2>3
<1>5. CASE First!Specials(p) # {}
  <2>1. PICK i : i = First!Min(First!Specials(p))
    OBVIOUS
  <2>2. First!Specials(p) \in SUBSET Nat
    BY <1>1, <1>3
  <2>3. \E m \in First!Specials(p) : \A j \in First!Specials(p) : m <= j
    BY <1>5, <2>2, Least
  <2>4. i \in First!Specials(p) /\ \A j \in First!Specials(p) : i <= j
    BY <2>1, <2>3 DEF First!Min
  <2>5. i \in (k + 1)..n /\ i \in Nat /\ s[i] \in {"CR", "LF"}
    BY <1>1, <1>3, <2>4
  <2>6. Plain(s, k, i - 1)
    BY <1>1, <1>3, <2>4, <2>5 DEF Plain
  <2>7. Plain(s, a, i - 1)
    BY <1>1, <1>2, <2>5, <2>6, PlainOn
  <2>8. i \in 1..n /\ (i + 1 \in 1..n <=> i < n) /\ (i - 1 \in 1..n <=> i > 1)
    BY <1>1, <2>5
  <2>9. CASE s[i] = "CR" /\ i = n
    <3>1. ~(i + 1 \in 1..n) /\ s[i] # "LF"
      BY <1>1, <2>8, <2>9
    <3>2. First!parse_line(p) = <<"OPEN", i - 1>>
      BY ONLY p.buffer = s, <1>3, <1>5, <2>1, <2>8, <2>9, <3>1, Zenon
         DEF First!parse_line, First!LastCR
    <3>3. Found("OPEN", i - 1)
      BY <1>1, <2>5, <2>7, <2>9 DEF ReadTo
    <3> QED BY <3>2, <3>3
  <2>10. CASE s[i] = "CR" /\ i < n /\ s[i + 1] = "LF"
    <3>1. i # n /\ s[i] # "LF" /\ i + 1 \in 1..n
      BY <1>1, <2>8, <2>10
    <3>2. First!parse_line(p) = <<"OK", i + 1>>
      BY ONLY p.buffer = s, <1>3, <1>5, <2>1, <2>8, <2>10, <3>1, Zenon DEF First!parse_line
    <3>3. i \in LineEnds(s) /\ LineAt(s, a, i)
      BY <1>1, <1>2, <2>5, <2>7, <2>10 DEF LineEnds, LineAt, AtLine
    <3>4. Found("OK", i + 1)
      BY <1>1, <2>5, <2>10, <3>3
    <3> QED BY <3>2, <3>4
  <2>11. CASE s[i] = "CR" /\ i < n /\ s[i + 1] # "LF"
    <3>1. i # n /\ s[i] # "LF"
      BY <1>1, <2>11
    <3>2. First!parse_line(p) = <<"BAD", i - 1>>
      BY ONLY p.buffer = s, <1>3, <1>5, <2>1, <2>8, <2>11, <3>1, Zenon DEF First!parse_line
    <3>3. i \in Stray(s)
      BY <1>1, <2>5, <2>11 DEF Stray, LineEnds
    <3>4. Found("BAD", i - 1)
      BY <1>1, <2>5, <2>7, <3>3
    <3> QED BY <3>2, <3>4
  <2>12. CASE s[i] = "LF"
    <3>1. s[i] # "CR"
      BY <2>12
    <3>2. ~(i > 1 /\ s[i - 1] = "CR")
      <4> SUFFICES ASSUME i > 1, s[i - 1] = "CR" PROVE FALSE
        OBVIOUS
      <4>1. a = i - 1
        BY <1>1, <2>5, <2>7 DEF Plain
      <4>2. s[a] = "LF"
        BY <1>1, <1>2, <2>5, <4>1, LineEndsAre DEF AtLine
      <4> QED BY <4>1, <4>2
    <3>3. First!parse_line(p) = <<"BAD", i - 1>>
      BY ONLY p.buffer = s, <1>3, <1>5, <2>1, <2>8, <2>12, <3>1, <3>2, Zenon
         DEF First!parse_line
    <3>4. i \in Stray(s)
      BY <1>1, <2>5, <2>12, <3>2 DEF Stray, LineEnds
    <3>5. Found("BAD", i - 1)
      BY <1>1, <2>5, <2>7, <3>4
    <3> QED BY <3>3, <3>5
  <2> QED BY <1>1, <2>5, <2>9, <2>10, <2>11, <2>12
<1> QED BY <1>4, <1>5

\* A turn of the loop in the first parser's parse_content().
LEMMA FirstTurnKeeps == ASSUME IInv, FirstInv, FirstTurn PROVE FirstInv'
<1> DEFINE b == read_buffer
           a == first.start_line
           Types == [buffer : Seq(Units), checked_index : Nat, start_line : Nat,
                     check_state : {"REQUESTLINE", "HEADER"},
                     connection : {"unset", "KEEP_ALIVE"},
                     ret : {"none", "success", "failure"}, running : BOOLEAN]
<1>1. /\ first.running /\ first' = First!parse_content(first)
      /\ read_buffer' = read_buffer /\ verdict' = verdict
  BY DEF FirstTurn, vars
<1>2. FirstType /\ FirstAnswer /\ verdict # "CLOSED" /\ first.ret = "none"
  BY <1>1 DEF FirstInv, FirstType
<1>3. /\ first.buffer = b /\ HeadUpTo(b, a, first.checked_index) /\ b \in Seq(Units)
      /\ first.check_state = "REQUESTLINE" <=> a = 0
      /\ first.checked_index \in 0..Len(b) /\ a \in 0..first.checked_index
      /\ first \in Types
  BY <1>2 DEF FirstAnswer, FirstInHead, FirstType, IInv
<1>4. PICK status, c : /\ First!parse_line(first) = <<status, c>>
                       /\ c \in first.checked_index..Len(b)
                       /\ \/ status = "OPEN" /\ Plain(b, a, c) /\ ReadTo(b, c)
                          \/ /\ status = "OK"
                             /\ \E e \in LineEnds(b) : LineAt(b, a, e) /\ c = e + 1
                          \/ status = "BAD" /\ \E i \in Stray(b) : Plain(b, a, i - 1)
  BY <1>3, FirstFinds
<1>5. /\ c \in Nat /\ c <= Len(b) /\ a <= c /\ a \in Nat
      /\ First!parse_line(first)[1] = status /\ First!parse_line(first)[2] = c
  BY <1>3, <1>4
<1>6. CASE status = "OPEN"
  <2>0. status # "OK" /\ status # "BAD"
    BY <1>6
  <2>1. first' = [[first EXCEPT !.checked_index = c] EXCEPT !.running = FALSE]
    BY ONLY <1>1, <1>5, <1>6, <2>0, Zenon DEF First!parse_content
  <2>2. FirstType'
    BY <1>2, <1>3, <1>5, <2>1 DEF FirstType
  <2>3. HeadUpTo(b, a, c) /\ ReadTo(b, c)
    BY <1>3, <1>4, <1>6 DEF HeadUpTo
  <2>4. FirstAnswer'
    BY <1>1, <1>2, <1>3, <2>1, <2>3 DEF FirstAnswer, FirstInHead
  <2> QED BY <1>1, <1>2, <2>2, <2>4 DEF FirstInv
<1>7. CASE status = "BAD"
  <2>0. status # "OK" /\ status # "OPEN"
    BY <1>7
  <2>1. first' = [[first EXCEPT !.checked_index = c] EXCEPT !.ret = "failure", !.running = FALSE]
    BY ONLY <1>1, <1>5, <1>7, <2>0, Zenon DEF First!parse_content, First!Answer
  <2>2. FirstType'
    BY <1>2, <1>3, <1>5, <2>1 DEF FirstType
  <2>3. Malformed(b)
    BY <1>3, <1>4, <1>5, <1>7, StrayIsBad
  <2>4. FirstAnswer'
    BY <1>1, <1>3, <2>1, <2>3 DEF FirstAnswer, Malformed
  <2> QED BY <1>1, <1>2, <2>2, <2>4 DEF FirstInv
<1>8. CASE status = "OK"
  <2>1. PICK e \in LineEnds(b) : LineAt(b, a, e) /\ c = e + 1
    BY <1>4, <1>8
  <2>2. e \in Nat /\ e <= Len(b) /\ e \in 1..Len(b) /\ a < e /\ c - 2 = e - 1
    BY <1>3, <2>1, LineEndsAre DEF LineAt
  <2>3. PICK next : next = [first EXCEPT !.checked_index = c, !.start_line = c]
    OBVIOUS
  <2>4. PICK text : text = SubSeq(b, a + 1, e - 1)
    OBVIOUS
  <2>5. /\ next \in Types /\ next.checked_index = c /\ next.start_line = c /\ next.buffer = b
        /\ next.check_state = first.check_state /\ next.ret = "none" /\ next.running
    BY <1>1, <1>2, <1>3, <1>5, <2>3
  <2>6. first' = IF first.check_state = "REQUESTLINE" THEN First!parse_requestline(next, text)
                                                      ELSE First!parse_headers(next, text)
    <3>1. First!Turn(first, c) = IF first.check_state = "REQUESTLINE"
                                 THEN First!parse_requestline(next, text)
                                 ELSE First!parse_headers(next, text)
      BY <1>3, <2>2, <2>3, <2>4 DEF First!Turn
    <3>2. First!parse_content(first) = First!Turn(first, c)
      <4>1. status # "BAD" /\ status # "OPEN"
        BY <1>8
      <4> QED BY ONLY <1>5, <1>8, <4>1, Zenon DEF First!parse_content
    <3> QED BY <1>1, <3>1, <3>2
  \* The head goes on.
  <2>7. ASSUME NEW q \in Types, first' = q, q.checked_index = c, q.start_line = c,
               q.buffer = b, q.check_state = "HEADER", q.ret = "none", q.running,
               IF a = 0 THEN text = <<"get">> ELSE e # a + 1
        PROVE  FirstInv'
    <3>1. HeadUpTo(b, c, c)
      BY <1>3, <2>1, <2>4, <2>7, NextHead
    <3>2. FirstType'
      BY <1>5, <2>7 DEF FirstType
    <3>3. FirstAnswer'
      BY <1>1, <2>1, <2>2, <2>7, <3>1 DEF FirstAnswer, FirstInHead
    <3> QED BY <1>1, <1>2, <3>2, <3>3 DEF FirstInv
  \* An answer.
  <2>8. ASSUME NEW answer \in {"success", "failure"},
               first' = [next EXCEPT !.ret = answer, !.running = FALSE],
               answer = "success" => EndsAt(b, e), answer = "failure" => Malformed(b)
        PROVE  FirstInv'
    <3>1. FirstType'
      <4>1. /\ first' \in Types /\ first'.checked_index = c /\ first'.start_line = c
            /\ first'.buffer = b /\ first'.running = FALSE
        BY <2>5, <2>8
      <4> QED BY <1>5, <4>1 DEF FirstType
    <3>2. first'.ret = answer
      BY <2>5, <2>8
    <3>3. FirstAnswer'
      BY <1>1, <2>8, <3>2 DEF FirstAnswer, EndsAt, Malformed
    <3> QED BY <1>1, <1>2, <3>1, <3>3 DEF FirstInv
  <2>9. CASE first.check_state = "REQUESTLINE"
    <3>1. a = 0 /\ first' = First!parse_requestline(next, text) /\ text = SubSeq(b, 1, e - 1)
      <4>1. a = 0 /\ a + 1 = 1
        BY <1>3, <2>9
      <4> QED BY <2>4, <2>6, <2>9, <4>1
    <3>2. CASE text = <<"get">>
      <4>1. first' = [next EXCEPT !.check_state = "HEADER"]
        BY <3>1, <3>2 DEF First!parse_requestline
      <4> QED BY <2>5, <2>7, <3>1, <3>2, <4>1
    <3>3. CASE text # <<"get">>
      <4>1. first' = [next EXCEPT !.ret = "failure", !.running = FALSE]
        BY <3>1, <3>3 DEF First!parse_requestline, First!Answer
      <4>2. Malformed(b)
        BY <2>1, <3>1, <3>3, FirstLineBad
      <4> QED BY <2>8, <4>1, <4>2
    <3> QED BY <3>2, <3>3
  <2>10. CASE first.check_state # "REQUESTLINE"
    <3>1. a > 0 /\ first' = First!parse_headers(next, text) /\ next.check_state = "HEADER"
      BY <1>3, <1>5, <2>5, <2>6, <2>10
    <3>2. text = <<>> <=> e = a + 1
      BY ONLY <1>5, <1>3, <2>2, <2>4, TextIs
    <3>3. CASE text = <<>>
      <4>1. first' = [next EXCEPT !.ret = "success", !.running = FALSE]
        BY <3>1, <3>3, Zenon DEF First!parse_headers, First!Answer
      <4>2. EndsAt(b, e)
        BY <1>3, <2>1, <3>1, <3>2, <3>3, EmptyLine
      <4> QED BY <2>8, <4>1, <4>2
    <3>4. CASE text # <<>>
      <4>1. first' = next \/ first' = [next EXCEPT !.connection = "KEEP_ALIVE"]
        <5>1. CASE Head(text) \in {"keep", "close"}
          BY <3>1, <3>4, <5>1, Zenon DEF First!parse_headers
        <5>2. CASE ~(Head(text) \in {"keep", "close"})
          BY <3>1, <3>4, <5>2, Zenon DEF First!parse_headers
        <5> QED BY <5>1, <5>2
      <4> QED BY <2>5, <2>7, <3>1, <3>2, <3>4, <4>1
    <3> QED BY <3>3, <3>4
  <2> QED BY <2>9, <2>10
<1> QED BY <1>4, <1>6, <1>7, <1>8

\* Nothing comes: the receiver goes on alone.
LEMMA FirstWaits ==
  ASSUME FirstInv, UNCHANGED <<first, read_buffer>>, verdict' = "CLOSED" <=> verdict = "CLOSED"
  PROVE  FirstInv'
  BY DEF FirstInv, FirstType, FirstAnswer, FirstInHead, Malformed

\* What the receiver knows when it reads on: the text is not malformed.
LEMMA ReadsOn ==
  ASSUME IInv, TextInv, pc = "read", verdict = "NO_REQUEST" PROVE ~Malformed(read_buffer)
<1>1. Unanswered
  BY DEF TextInv, VerdictInv, Unanswered, Answers
<1>2. CASE check_state = "CONTENT"
  BY <1>1, <1>2, HeadOfIs DEF TextInv, ContentInv
<1>3. CASE check_state # "CONTENT"
  BY <1>1, <1>3, OpenHeadIs DEF TextInv, HeadInv
<1> QED BY <1>2, <1>3

LEMMA FirstFed ==
  ASSUME IInv, IInv', TextInv, FirstInv, NEW n \in 1..Len(stream),
         Both(Read(n), First!Fed(first, SubSeq(stream, 1, n)))
  PROVE  FirstInv'
<1> DEFINE g == SubSeq(stream, 1, n)
<1>1. /\ Read(n) /\ ~first.running /\ first' = First!Fed(first, g)
      /\ pc = "read" /\ verdict = "NO_REQUEST" /\ verdict' = verdict
      /\ read_buffer' = read_buffer \o g
  BY DEF Both, Read
<1>2. FirstType /\ FirstAnswer /\ verdict' # "CLOSED"
  BY <1>1 DEF FirstInv
<1>3. g \in Seq(Units) /\ read_buffer \in Seq(Units) /\ read_buffer' \in Seq(Units)
  BY DEF IInv
<1> HIDE DEF g
<1>4. Begins(read_buffer, read_buffer')
  BY <1>1, <1>3 DEF Begins
<1>5. CASE first.ret = "none"
  <2>1. first' = [first EXCEPT !.buffer = @ \o g, !.running = TRUE]
    BY <1>1, <1>5 DEF First!Fed
  <2>2. /\ first.buffer = read_buffer
        /\ first.checked_index \in 0..Len(read_buffer)
        /\ first.start_line \in 0..first.checked_index
        /\ HeadUpTo(read_buffer, first.start_line, first.checked_index)
        /\ first.check_state = "REQUESTLINE" <=> first.start_line = 0
    BY <1>2, <1>5 DEF FirstType, FirstAnswer, FirstInHead
  <2>3. HeadUpTo(read_buffer', first.start_line, first.checked_index)
    BY <1>3, <1>4, <2>2, HeadKept
  <2>4. /\ first'.buffer = read_buffer' /\ first'.start_line = first.start_line
        /\ first'.checked_index = first.checked_index /\ first'.ret = "none"
        /\ first'.check_state = first.check_state /\ first'.running = TRUE
    BY <1>1, <1>2, <1>5, <2>1, <2>2 DEF FirstType
  <2>5. FirstType'
    <3>1. Len(read_buffer) <= Len(read_buffer')
      BY <1>4 DEF Begins
    <3>2. /\ first.checked_index \in Nat /\ Len(read_buffer) \in Nat /\ Len(read_buffer') \in Nat
          /\ first.checked_index <= Len(read_buffer)
      BY <1>3, <2>2
    <3>3. first'.checked_index <= Len(first'.buffer)
      BY <2>4, <3>1, <3>2
    <3>4. first' \in [buffer : Seq(Units), checked_index : Nat, start_line : Nat,
                      check_state : {"REQUESTLINE", "HEADER"},
                      connection : {"unset", "KEEP_ALIVE"},
                      ret : {"none", "success", "failure"}, running : BOOLEAN]
      BY <1>1, <1>2, <1>3, <2>1, <2>2 DEF FirstType
    <3> QED BY <1>2, <2>4, <3>3, <3>4 DEF FirstType
  <2>6. FirstAnswer'
    BY <2>2, <2>3, <2>4 DEF FirstAnswer, FirstInHead
  <2> QED BY <1>2, <2>5, <2>6 DEF FirstInv
<1>6. CASE first.ret # "none"
  <2>1. first' = first
    BY <1>1, <1>6 DEF First!Fed
  <2>2. first.ret = "success"
    BY <1>1, <1>2, <1>6, ReadsOn DEF FirstType, FirstAnswer
  <2>3. PICK h \in HeadEnds(read_buffer) : EndsAt(read_buffer, h)
    BY <1>2, <2>2 DEF FirstAnswer
  <2>4. EndsAt(read_buffer', h)
    <3>1. 0 \in 0..Len(read_buffer) /\ 0 \in 0..0
      BY <1>3
    <3> QED BY <1>3, <1>4, <2>3, <3>1, HeadKept
  <2> QED BY <1>2, <2>1, <2>2, <2>4 DEF FirstInv, FirstType, FirstAnswer, EndsAt
<1> QED BY <1>5, <1>6

LEMMA FirstEnded ==
  ASSUME IInv, FirstInv, Both(HangUp, First!Ended(first)) PROVE FirstInv'
<1>1. /\ verdict' = "CLOSED" /\ read_buffer' = read_buffer
      /\ first' = First!Ended(first) /\ FirstType
  BY DEF Both, HangUp, FirstInv
<1>2. first' = first \/ first' = [first EXCEPT !.ret = "success", !.running = FALSE]
  BY <1>1 DEF First!Ended, First!Answer
<1>3. FirstType'
  BY <1>1, <1>2 DEF FirstType
<1>4. ~first'.running
  BY <1>1, <1>2 DEF FirstType, Both
<1> QED BY <1>1, <1>3, <1>4 DEF FirstInv

\* http_parse() is called for a new request.
FirstFresh == first = First!Started /\ read_buffer = <<>> /\ verdict = "NO_REQUEST"

LEMMA FirstStarted == FirstFresh => FirstInv
<1> SUFFICES ASSUME FirstFresh PROVE FirstInv
  OBVIOUS
<1>1. FirstType
  BY DEF FirstFresh, First!Started, FirstType
<1>2. LineEnds(<<>>) = {} /\ HeadEnds(<<>>) = {} /\ Len(<<>>) = 0
  BY DEF LineEnds, HeadEnds
<1>3. HeadUpTo(<<>>, 0, 0) /\ ReadTo(<<>>, 0)
  BY <1>2 DEF HeadUpTo, ReadTo, Clean, AtLine, Plain
<1>4. FirstInHead /\ first.ret = "none"
  BY <1>3 DEF FirstFresh, First!Started, FirstInHead
<1> QED BY <1>1, <1>4 DEF FirstInv, FirstAnswer, FirstFresh

-----------------------------------------------------------------------------
\* Every step of both is a step of the receiver, or one of the first parser alone.
LEMMA ParsersStep == [ParsersNext]_<<vars, first>> => [Next]_vars
  BY DEF ParsersNext, Both, Alone, FirstTurn, Next

\* While the receiver parses, the client does not leave.
LEMMA AloneKeeps ==
  ASSUME IInv, TextInv, FirstInv,
         Alone(RequestLine) \/ Alone(HeaderField) \/ Alone(HeadersEnd)
           \/ Alone(Content) \/ Alone(NoLine)
  PROVE  FirstInv'
<1>1. /\ UNCHANGED <<first, read_buffer>> /\ pc = "parse"
      /\ verdict' \in {verdict, "NO_REQUEST", "BAD_REQUEST"} \cup Answers
  BY DEF Alone, RequestLine, HeaderField, HeadersEnd, Content, ParseContent, NoLine, LineIn,
         DoRequest, Return
<1>2. verdict # "CLOSED" /\ verdict' # "CLOSED"
  BY <1>1 DEF TextInv, VerdictInv, Answers
<1> QED BY <1>1, <1>2, FirstWaits

LEMMA ParsersKeep ==
  IInv /\ IInv' /\ TextInv /\ FirstInv /\ [ParsersNext]_<<vars, first>> => FirstInv'
<1> SUFFICES ASSUME IInv, IInv', TextInv, FirstInv, [ParsersNext]_<<vars, first>>
             PROVE  FirstInv'
  OBVIOUS
<1>1. ASSUME NEW n \in 1..Len(stream), Both(Read(n), First!Fed(first, SubSeq(stream, 1, n)))
      PROVE  FirstInv'
  BY <1>1, FirstFed
<1>2. CASE Both(HangUp, First!Ended(first))
  BY <1>2, FirstEnded
<1>3. CASE Both(HttpReset, First!Started)
  <2>1. FirstFresh'
    BY <1>3 DEF Both, HttpReset, FirstFresh, First!Started
  <2> QED BY <2>1, FirstStarted, PTL
<1>4. CASE UNCHANGED <<vars, first>>
  <2>1. UNCHANGED <<first, read_buffer, verdict>>
    BY <1>4 DEF vars
  <2> QED BY <2>1, FirstWaits
<1> QED BY <1>1, <1>2, <1>3, <1>4, AloneKeeps, FirstTurnKeeps DEF ParsersNext

\* What both know of the same text.
LEMMA BothKnow ==
  ASSUME IInv, TextInv, FirstInv, pc = "read", ~first.running, verdict # "CLOSED"
  PROVE  /\ check_state = "CONTENT" \/ asked => first.ret = "success"
         /\ check_state # "CONTENT" /\ ~asked =>
              /\ first.ret # "success"
              /\ first.ret = "failure" <=> verdict = "BAD_REQUEST"
<1> DEFINE b == read_buffer
<1>1. b \in Seq(Units) /\ FirstType /\ FirstAnswer
  BY DEF IInv, FirstInv
<1>2. ASSUME first.ret = "none" PROVE HeadEnds(b) = {} /\ ~Malformed(b)
  <2>1. /\ first.checked_index \in 0..Len(b) /\ first.start_line \in 0..first.checked_index
        /\ HeadUpTo(b, first.start_line, first.checked_index)
        /\ ReadTo(b, first.checked_index)
    BY <1>1, <1>2 DEF FirstAnswer, FirstInHead, FirstType
  <2> QED BY <1>1, <2>1, OpenIsOpen
<1>3. ASSUME first.ret = "success" PROVE HeadEnds(b) # {} /\ ~Malformed(b)
  BY <1>1, <1>3, EndedIsGood DEF FirstAnswer
<1>4. first.ret = "failure" => Malformed(b)
  BY <1>1 DEF FirstAnswer
<1>5. first.ret \in {"none", "success", "failure"}
  BY <1>1 DEF FirstType
<1>6. ASSUME check_state = "CONTENT" \/ asked PROVE first.ret = "success"
  <2>1. HeadEnds(b) # {} /\ ~Malformed(b)
    BY <1>6, HeadOfIs DEF TextInv, ContentInv
  <2> QED BY <1>2, <1>4, <1>5, <2>1
<1>7. ASSUME check_state # "CONTENT", ~asked
      PROVE  first.ret # "success" /\ (first.ret = "failure" <=> verdict = "BAD_REQUEST")
  <2>1. CASE verdict = "BAD_REQUEST"
    <3>1. Malformed(b)
      BY <1>7, <2>1 DEF TextInv, VerdictInv
    <3> QED BY <1>2, <1>3, <1>5, <2>1, <3>1
  <2>2. CASE verdict = "NO_REQUEST"
    <3>1. HeadEnds(b) = {} /\ ~Malformed(b)
      BY <1>7, <2>2, OpenHeadIs DEF TextInv, HeadInv, Unanswered
    <3> QED BY <1>3, <1>4, <2>2, <3>1
  <2> QED BY <1>7, <2>1, <2>2 DEF TextInv, VerdictInv
<1> QED BY <1>6, <1>7

\* However the bytes are cut into segments, the parser that the receiver was developed from
\* accepts and rejects the same heads, and as soon as the receiver does.
THEOREM BothParsersAgree == ParsersSpec => []ParsersAgree
<1>1. ParsersInit => Fresh /\ IInv /\ FirstFresh
  BY InitHolds DEF ParsersInit, Init, Fresh, FirstFresh
<1>2. IInv /\ TextInv /\ FirstInv => ParsersAgree
  BY BothKnow DEF ParsersAgree
<1> QED BY <1>1, <1>2, TextKeeps, NextKeeps, FreshText, FirstStarted, ParsersStep, ParsersKeep, PTL
        DEF ParsersSpec

-----------------------------------------------------------------------------
(* The sender in MCHttpMessages.                                             *)

\* A step of MessagesSpec is one of HttpWrite, or none of its.
LEMMA StepOfSender ==
  ASSUME [ReceiverStep \/ SenderStep]_<<running, parserVars, senderVars>>
  PROVE  [Sender!Next]_Sender!vars
<1>1. UNCHANGED senderVars => UNCHANGED Sender!vars
  BY DEF senderVars, Sender!vars, Sender!text
<1>2. CASE ReceiverStep
  BY <1>1, <1>2 DEF ReceiverStep, Receiving
<1>3. CASE SenderStep
  BY <1>3 DEF SenderStep, Sending, Sender!Next
<1>4. CASE UNCHANGED <<running, parserVars, senderVars>>
  BY <1>1, <1>4
<1> QED BY <1>2, <1>3, <1>4

LEMMA SenderRuns == MessagesSpec => Sender!Spec
<1>1. MessagesInit => Sender!Init
  BY DEF MessagesInit
<1> QED BY <1>1, StepOfSender, PTL DEF MessagesSpec, Sender!Spec

\* An entry of m_iv with data left ends where the head or the file ends, and the file is
\* still mapped, wherever writev() stopped.
THEOREM MessagesEntriesPointIntoBuffers == MessagesSpec => []EntriesPointIntoBuffers
<1>1. Sender!Spec => []Sender!EntriesPointIntoBuffers
  BY SenderAssumption, Sender!WriteEntriesPointIntoBuffers
<1> QED BY <1>1, SenderRuns, PTL DEF EntriesPointIntoBuffers

\* The head arrives intact, and the response in full when it is the head alone or when the
\* first writev() takes more than the head, for heads and files of any length.
THEOREM MessagesAllReceived == MessagesSpec => []AllReceived
<1>1. Sender!Spec => []Sender!AllReceived
  BY SenderAssumption, Sender!WriteAllReceived
<1> QED BY <1>1, SenderRuns, PTL DEF AllReceived

\* A page that http_write_buffer() accepts has all its lines, in a buffer of any size.
THEOREM MessagesContentImpliesWhole == MessagesSpec => []ContentImpliesWhole
<1>1. Sender!Spec => []Sender!ContentImpliesWhole
  BY SenderAssumption, Sender!WriteContentImpliesWhole
<1> QED BY <1>1, SenderRuns, PTL DEF ContentImpliesWhole

\* What m_iv[0] covers was printed, page or head of a file, in a buffer of any size.
THEOREM MessagesOnlyPrintedIsSent == MessagesSpec => []OnlyPrintedIsSent
<1>1. Sender!Spec => []Sender!OnlyPrintedIsSent
  BY SenderAssumption, Sender!WriteOnlyPrintedIsSent
<1> QED BY <1>1, SenderRuns, PTL DEF OnlyPrintedIsSent

\* The sender's variables keep their types, write_index within write_buffer.
THEOREM MessagesSenderTypeOK == MessagesSpec => []SenderTypeOK
<1>1. Sender!Spec => []Sender!TypeOK
  BY SenderAssumption, Sender!WriteTypeOK
<1> QED BY <1>1, SenderRuns, PTL DEF SenderTypeOK

\* write_buffer holds the lines of the response under way and no earlier one's, if it has
\* room for the longest text (it has 1024 bytes).
THEOREM MessagesHeadIsThisResponse ==
  ASSUME WriteBufferSize >= Sender!LongestResponse + 2
  PROVE  MessagesSpec => []HeadIsThisResponse
<1>1. Sender!Spec => []Sender!HeadIsThisResponse
  BY SenderAssumption, Sender!WriteHeadIsThisResponse
<1> QED BY <1>1, SenderRuns, PTL DEF HeadIsThisResponse
==============================================================================
