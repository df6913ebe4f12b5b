----------------------------- MODULE HttpWrite_proof -----------------------------
(* What is printed into write_buffer, for a buffer of any size, and what the    *)
(* client gets of it, for a connection that is used again and again, a head and *)
(* files of any length and any way in which the kernel takes the bytes.         *)
EXTENDS HttpWrite, SequenceTheorems, TLAPS

USE DEF BufferAssumption, WriteAssumption

\* add_response() never moves write_index past the text it printed.
LEMMA AddKeepsEnd ==
  ASSUME BufferAssumption, NEW p, p.index \in Nat, p.end \in Nat, p.index <= p.end,
         NEW piece, NEW len \in Nat
  PROVE  LET q == Add(p, piece, len)
         IN  q.index \in Nat /\ q.end \in Nat /\ q.index <= q.end
  BY DEF Add, Printed, Fits, Room

\* A piece that add_response() refuses leaves write_index and the pieces alone;
\* one that it accepts moves write_index by its length.
LEMMA AddMoves ==
  ASSUME BufferAssumption, NEW p, p.index \in Nat, NEW piece, NEW len \in Nat
  PROVE  LET q == Add(p, piece, len)
         IN  /\ q.ok \in BOOLEAN
             /\ q.index \in Nat /\ q.index >= p.index
             /\ q.ok => q.index = p.index + len /\ q.pieces = p.pieces \cup {piece}
             /\ ~q.ok => /\ q.index = p.index /\ q.pieces = p.pieces
                        /\ ~Fits(p.index, len)
<1>1. Fits(p.index, len) \in BOOLEAN
  BY DEF Fits
<1>2. CASE Fits(p.index, len)
  BY <1>1, <1>2 DEF Add
<1>3. CASE ~Fits(p.index, len)
  BY <1>1, <1>3 DEF Add
<1> QED BY <1>1, <1>2, <1>3

-----------------------------------------------------------------------------
(* What is sent has been printed.                                              *)

\* write_index is not past the end of the text.
Sound(p) == p.index \in Nat /\ p.end \in Nat /\ p.index <= p.end

\* The lengths in the tables are numbers, and every page is longer than every
\* line that is printed before it.
LEMMA Lengths ==
  /\ \A ext \in DOMAIN TypeLen : TypeLen[ext] \in Nat
  /\ \A code \in Codes : /\ TitleLen[code] \in Nat /\ FormLen[code] \in Nat
                         /\ 15 + TitleLen[code] < FormLen[code]
                         /\ 24 < FormLen[code]
  BY DEF TypeLen, TitleLen, FormLen, Codes

\* Three headers keep write_index within the text.
LEMMA HeadersSound ==
  ASSUME BufferAssumption, NEW p, Sound(p), NEW digits \in Nat, NEW keep \in BOOLEAN
  PROVE  Sound(Headers(p, digits, keep))
<1> DEFINE l == ContentLength(p, digits)
           c == Keepalive(l, keep)
<1>1. Sound(l)
  BY AddKeepsEnd DEF Sound, ContentLength
<1>2. Sound(c)
  BY <1>1, AddKeepsEnd DEF Sound, Keepalive
<1>3. Sound(BlankLine(c))
  BY <1>2, AddKeepsEnd DEF Sound, BlankLine
<1>4. l.ok \in BOOLEAN /\ c.ok \in BOOLEAN
  BY DEF ContentLength, Keepalive, Add, Fits
<1> QED BY <1>1, <1>2, <1>3, <1>4 DEF Headers

\* Whatever the buffer's size and wherever a response starts, write_index stays within
\* the text.
LEMMA ResponseSound ==
  ASSUME BufferAssumption, NEW index \in Nat, NEW keep \in BOOLEAN
  PROVE  /\ \A code \in Codes : Sound(Page(code, index, keep))
         /\ \A file \in Files : Sound(FileHead(file, index, keep))
<1>1. Sound(StartAt(index))
  BY DEF Sound, StartAt
<1>2. ASSUME NEW code \in Codes PROVE Sound(StatusLine(StartAt(index), code))
  BY <1>1, AddKeepsEnd, Lengths DEF Sound, StatusLine
<1>3. ASSUME NEW code \in Codes PROVE Sound(Page(code, index, keep))
  <2> DEFINE h == Headers(StatusLine(StartAt(index), code), 2, keep)
  <2>1. Sound(h)
    BY <1>2, HeadersSound
  <2>2. Sound(Content(h, FormLen[code]))
    BY <2>1, AddKeepsEnd, Lengths DEF Sound, Content
  <2> QED BY <2>2 DEF Page
<1>4. ASSUME NEW file \in Files PROVE Sound(FileHead(file, index, keep))
  <2> DEFINE s == StatusLine(StartAt(index), "FILE_REQUEST")
             t == ContentType(s, file.ext)
  <2>1. Sound(s)
    BY <1>2 DEF Codes
  <2>2. file.ext \in DOMAIN TypeLen /\ file.digits \in Nat
    BY DEF Files
  <2>3. Sound(t)
    BY <2>1, <2>2, AddKeepsEnd, Lengths DEF Sound, ContentType
  <2> QED BY <2>2, <2>3, HeadersSound DEF FileHead
<1> QED BY <1>3, <1>4

\* Whatever the buffer's size and wherever a response starts, the bytes that
\* m_iv[0] sends are bytes that vsnprintf() printed (add_response).
THEOREM BufferIsPrinted ==
  ASSUME BufferAssumption
  PROVE  \A keep \in BOOLEAN : /\ \A code \in Codes : PageIsPrinted(code, keep)
                               /\ \A file \in Files : HeadIsPrinted(file, keep)
  BY ResponseSound DEF PageIsPrinted, HeadIsPrinted, Sound, Starts

-----------------------------------------------------------------------------
(* A page whose content was accepted is whole.                                 *)

\* A response starts with no pieces at write_index.
LEMMA StatusMoves ==
  ASSUME BufferAssumption, NEW code \in Codes, NEW index \in Nat
  PROVE  LET s == StatusLine(StartAt(index), code)
         IN  /\ s.index \in Nat /\ s.index >= index
             /\ s.pieces = {"status"} \/ s.pieces = {}
             /\ s.pieces = {} => ~Fits(s.index, 15 + TitleLen[code])
<1> DEFINE b == StartAt(index)
           s == StatusLine(b, code)
<1>1. b.index = index /\ b.pieces = {}
  BY DEF StartAt
<1>2. 15 + TitleLen[code] \in Nat
  BY Lengths
<1>3. s = Add(b, "status", 15 + TitleLen[code])
  BY DEF StatusLine
<1> HIDE DEF b, s
<1>4. /\ s.ok \in BOOLEAN
      /\ s.index \in Nat /\ s.index >= b.index
      /\ s.ok => s.pieces = b.pieces \cup {"status"}
      /\ ~s.ok => /\ s.index = b.index /\ s.pieces = b.pieces
                 /\ ~Fits(b.index, 15 + TitleLen[code])
  BY <1>1, <1>2, <1>3, AddMoves
<1>5. CASE s.ok
  BY <1>1, <1>4, <1>5 DEF s, b
<1>6. CASE ~s.ok
  BY <1>1, <1>4, <1>6 DEF s, b
<1> QED BY <1>4, <1>5, <1>6

\* The headers are printed all three, or write_index stands where one of them,
\* no longer than the longest, did not fit.
LEMMA HeadersMove ==
  ASSUME BufferAssumption, NEW p, p.index \in Nat, NEW keep \in BOOLEAN
  PROVE  LET h == Headers(p, 2, keep)
         IN  /\ h.index \in Nat /\ h.index >= p.index
             /\ \/ h.pieces = p.pieces \cup {"length", "connection", "blank"}
                \/ ~Fits(h.index, 24)
<1> DEFINE l == ContentLength(p, 2)
           c == Keepalive(l, keep)
           b == BlankLine(c)
<1>1. /\ l.ok \in BOOLEAN /\ l.index \in Nat /\ l.index >= p.index
      /\ l.ok => l.pieces = p.pieces \cup {"length"}
      /\ ~l.ok => l.index = p.index /\ ~Fits(p.index, 20)
  BY AddMoves DEF ContentLength
<1>2. /\ c.ok \in BOOLEAN /\ c.index \in Nat /\ c.index >= l.index
      /\ c.ok => c.pieces = l.pieces \cup {"connection"}
      /\ ~c.ok => ~Fits(c.index, 24)
  <2>1. CASE keep
    BY <1>1, <2>1, AddMoves DEF Keepalive
  <2>2. CASE ~keep
    <3>1. /\ c.ok \in BOOLEAN /\ c.index \in Nat /\ c.index >= l.index
          /\ c.ok => c.pieces = l.pieces \cup {"connection"}
          /\ ~c.ok => c.index = l.index /\ ~Fits(l.index, 19)
      BY <1>1, <2>2, AddMoves DEF Keepalive
    <3> QED BY <3>1 DEF Fits, Room
  <2> QED BY <2>1, <2>2
<1>3. /\ b.index \in Nat /\ b.index >= c.index
      /\ \/ b.pieces = c.pieces \cup {"blank"}
         \/ ~Fits(b.index, 2)
  BY <1>2, AddMoves DEF BlankLine
<1>4. \A i \in Nat : ~Fits(i, 2) \/ ~Fits(i, 20) => ~Fits(i, 24)
  BY DEF Fits, Room
<1>5. Headers(p, 2, keep) = IF ~l.ok THEN l ELSE IF ~c.ok THEN c ELSE b
  BY <1>1, <1>2 DEF Headers
<1>6. CASE ~l.ok
  BY <1>1, <1>4, <1>5, <1>6
<1>7. CASE l.ok /\ ~c.ok
  BY <1>1, <1>2, <1>5, <1>7
<1>8. CASE l.ok /\ c.ok
  <2>1. Headers(p, 2, keep) = b
    BY <1>5, <1>8
  <2>2. b.index >= p.index
    BY <1>1, <1>2, <1>3
  <2>3. CASE b.pieces = c.pieces \cup {"blank"}
    BY <1>1, <1>2, <1>3, <1>8, <2>1, <2>2, <2>3
  <2>4. CASE ~Fits(b.index, 2)
    BY <1>3, <1>4, <2>1, <2>2, <2>4
  <2> QED BY <1>3, <2>3, <2>4
<1> QED BY <1>1, <1>2, <1>6, <1>7, <1>8

\* Whatever the buffer's size and wherever a page starts: if add_response()
\* took its content, which is all http_write_buffer() looks at, it took the
\* lines before it.
THEOREM BufferPageIsWhole ==
  ASSUME BufferAssumption PROVE \A code \in Codes, keep \in BOOLEAN : PageIsWhole(code, keep)
<1> SUFFICES ASSUME NEW code \in Codes, NEW index \in Starts, NEW keep \in BOOLEAN,
                    Page(code, index, keep).ok
             PROVE  Page(code, index, keep).pieces = PagePieces
  BY DEF PageIsWhole
<1> DEFINE s == StatusLine(StartAt(index), code)
           h == Headers(s, 2, keep)
           q == Content(h, FormLen[code])
<1>1. Page(code, index, keep) = q
  BY DEF Page
<1>2. index \in Nat
  BY DEF Starts
<1>3. /\ s.index \in Nat
      /\ s.pieces = {"status"} \/ s.pieces = {}
      /\ s.pieces = {} => ~Fits(s.index, 15 + TitleLen[code])
  BY <1>2, StatusMoves
<1>4. /\ h.index \in Nat /\ h.index >= s.index
      /\ \/ h.pieces = s.pieces \cup {"length", "connection", "blank"}
         \/ ~Fits(h.index, 24)
  BY <1>3, HeadersMove
<1>5. Fits(h.index, FormLen[code]) /\ q.pieces = h.pieces \cup {"content"}
  BY <1>1 DEF Content, Add
<1>6. \A len \in Nat : len <= FormLen[code] => Fits(h.index, len) /\ Fits(s.index, len)
  BY <1>3, <1>4, <1>5, Lengths DEF Fits, Room
<1>7. s.pieces = {"status"}
  BY <1>3, <1>6, Lengths
<1>8. h.pieces = s.pieces \cup {"length", "connection", "blank"}
  BY <1>4, <1>6, Lengths
<1> QED BY <1>1, <1>5, <1>7, <1>8 DEF PagePieces

-----------------------------------------------------------------------------
(* The same for the responses of a connection.                                *)

\* The response under way is one that http_write_buffer() knows, and printed.
Known == ret \in Codes /\ connect \in BOOLEAN /\ Sound(buffer)

\* http_write_buffer() is only called with codes that it knows.
LEMMA KnownHolds ==
  ASSUME WriteAssumption PROVE Spec => []Known
<1>0. Sound(StartAt(0))
  BY DEF StartAt, Sound
<1>1. Init => Known
  BY <1>0 DEF Init, Known, Codes
<1>2. Known /\ [Next]_vars => Known'
  <2> SUFFICES ASSUME Known, [Next]_vars PROVE Known'
    OBVIOUS
  <2>1. ASSUME NEW size \in FileLens, NEW keep \in BOOLEAN, Respond(size, keep)
        PROVE  Known'
    <3>1. buffer.index \in Nat /\ connect' \in BOOLEAN
      BY <2>1 DEF Respond, Known, Sound
    <3>2. ASSUME NEW code \in Codes, PrintPage(code, keep) PROVE Known'
      BY <3>1, <3>2, ResponseSound DEF PrintPage, Known
    <3>3. ASSUME NEW file \in FileKinds, PrintHead(file, keep) PROVE Known'
      <4>1. file \in Files
        OBVIOUS
      <4>2. Sound(FileHead(file, buffer.index, keep))
        BY <3>1, <4>1, ResponseSound
      <4> QED BY <3>1, <3>3, <4>2 DEF PrintHead, Known, Codes
    <3> QED BY <2>1, <3>2, <3>3 DEF Respond
  <2>2. CASE Drain
    BY <2>2 DEF Drain, Known, text
  <2>3. CASE EpollOut
    BY <2>3 DEF EpollOut, Known, text
  <2>4. ASSUME NEW n \in 1..Len(Unsent), Writev(n)
        PROVE  Known'
    <3>1. ret' = ret
      BY <2>4 DEF Writev
    <3>2. CASE HttpReset
      BY <1>0, <3>1, <3>2 DEF HttpReset, ResetIndex, Known
    <3>3. CASE UNCHANGED <<buffer, connect>>
      BY <3>1, <3>3 DEF Known
    <3> QED BY <2>4, <3>2, <3>3 DEF Writev
  <2>5. CASE WouldBlock
    BY <2>5 DEF WouldBlock, Known, text
  <2>6. CASE Fail
    BY <2>6 DEF Fail, Known, text
  <2>7. CASE InitConn
    BY <1>0, <2>7 DEF InitConn, HttpReset, ResetIndex, Known
  <2>8. CASE UNCHANGED vars
    BY <2>8 DEF vars, text, Known
  <2> QED BY <2>1, <2>2, <2>3, <2>4, <2>5, <2>6, <2>7, <2>8 DEF Next
<1> QED BY <1>1, <1>2, PTL DEF Spec

\* A page that http_write_buffer() accepts has all its lines, in a buffer of any size.
THEOREM WriteContentImpliesWhole ==
  ASSUME WriteAssumption PROVE Spec => []ContentImpliesWhole
<1>1. Known => ContentImpliesWhole
  BY BufferPageIsWhole DEF Known, ContentImpliesWhole
<1> QED BY <1>1, KnownHolds, PTL

\* What m_iv[0] covers was printed, in a buffer of any size: for the response under way,
\* page or head, and for any of its kind wherever write_index stood before it.
THEOREM WriteOnlyPrintedIsSent ==
  ASSUME WriteAssumption PROVE Spec => []OnlyPrintedIsSent
<1>1. Known => OnlyPrintedIsSent
  BY BufferIsPrinted DEF Known, OnlyPrintedIsSent, Sound
<1> QED BY <1>1, KnownHolds, PTL

-----------------------------------------------------------------------------
(* What the client gets: the entries of writev() and the units it took.       *)

\* A response is under way.
Sending == pc \in {"armed", "write"}
got == Len(received)

HttpUnits == {"head", "file"} \X Nat

\* The types of what is counted; the texts are those of TextInv.
CountsOK == /\ m_iv \in [1..2 -> [base : Nat, len : Nat]]
            /\ m_iv_count \in 0..2
            /\ m_file_size \in FileLens \cup {0}
            /\ mapped \in BOOLEAN /\ connect \in BOOLEAN /\ full \in BOOLEAN
            /\ received \in Seq(HttpUnits) /\ first \in Nat
            /\ result \in {"none", "sent", "failed"}
            /\ pc \in {"idle", "armed", "write", "closed"}

\* While a response is under way its head entry is what the client has not got of the
\* head; the file entry is what is left of the file if the first writev() took the head.
SendingInv ==
  Sending =>
    /\ result = "none"
    /\ m_file_size > 0 => mapped
    /\ m_iv_count = IF m_file_size > 0 THEN 2 ELSE 1
    /\ m_iv[1].len = IF got < HeadLen THEN HeadLen - got ELSE 0
    /\ got < HeadLen => m_iv[1].base = got
    /\ m_iv_count = 1 => m_iv[2].len = 0 /\ got <= HeadLen
    /\ first = 0 <=> got = 0
    /\ first <= got
    /\ got = 0 => m_iv[2].len = m_file_size
    /\ first > HeadLen => m_iv[2].len = HeadLen + m_file_size - got

\* AllReceived, unit by unit.
ReceivedInv ==
  /\ HeadIntact
  /\ HeadAtOnce => /\ got <= HeadLen + m_file_size
                   /\ \A i \in (HeadLen + 1)..got : received[i] = <<"file", i - HeadLen>>
                   /\ result = "sent" => got = HeadLen + m_file_size

IdleInv == pc = "idle" => m_iv = <<Empty, Empty>>

WInv == CountsOK /\ EntriesPointIntoBuffers /\ SendingInv /\ ReceivedInv /\ IdleInv

\* The constants as numbers.
LEMMA Sizes ==
  ASSUME WriteAssumption PROVE HeadLen \in Nat /\ HeadLen > 0 /\ FileLens \subseteq Nat
  OBVIOUS

\* Empty and Entry are entries.
LEMMA Entries ==
  /\ Empty.base = 0 /\ Empty.len = 0 /\ Empty \in [base : Nat, len : Nat]
  /\ \A b, n \in Nat : /\ Entry(b, n) \in [base : Nat, len : Nat]
                       /\ Entry(b, n).base = b /\ Entry(b, n).len = n
  BY DEF Empty, Entry

\* The part of s that follows its first b elements and has n of them.
LEMMA Slice ==
  ASSUME NEW S, NEW s, NEW b \in Nat, NEW n \in Nat, \A i \in 1..n : s[b + i] \in S
  PROVE  /\ SubSeq(s, b + 1, b + n) \in Seq(S) /\ Len(SubSeq(s, b + 1, b + n)) = n
         /\ \A i \in 1..n : SubSeq(s, b + 1, b + n)[i] = s[b + i]
<1>1. b + 1 \in Int /\ b + n \in Int
  OBVIOUS
<1>2. ASSUME NEW j \in (b + 1)..(b + n) PROVE s[j] \in S
  <2>1. j - b \in 1..n /\ b + (j - b) = j
    OBVIOUS
  <2> QED BY <2>1
<1> DEFINE t == SubSeq(s, b + 1, b + n)
<1>3. /\ t \in Seq(S)
      /\ Len(t) = IF b + 1 <= b + n THEN b + n - (b + 1) + 1 ELSE 0
      /\ \A i \in 1..(b + n - (b + 1) + 1) : t[i] = s[b + 1 + i - 1]
  BY <1>1, <1>2, SubSeqProperties
<1> HIDE DEF t
<1>4. Len(t) = n
  BY <1>3
<1>5. ASSUME NEW i \in 1..n PROVE t[i] = s[b + i]
  <2>1. i \in 1..(b + n - (b + 1) + 1) /\ b + 1 + i - 1 = b + i
    OBVIOUS
  <2> QED BY <1>3, <2>1
<1> QED BY <1>3, <1>4, <1>5 DEF t

\* A function on 1..n is a sequence of length n.
LEMMA FunSeq ==
  ASSUME NEW S, NEW n \in Nat, NEW f \in [1..n -> S] PROVE f \in Seq(S) /\ Len(f) = n
<1>1. f \in Seq(S)
  BY SeqDef
<1>2. DOMAIN f = 1..Len(f) /\ Len(f) \in Nat /\ DOMAIN f = 1..n
  BY <1>1, LenProperties
<1> DEFINE k == Len(f)
<1>3. k \in Nat /\ 1..k = 1..n
  BY <1>2
<1> HIDE DEF k
<1>4. \A i \in Nat : i \in 1..k <=> i \in 1..n
  BY <1>3
<1>5. k = n
  BY <1>3, <1>4
<1> QED BY <1>1, <1>5 DEF k

\* What writev() is given, unit by unit.
LEMMA UnsentUnits ==
  ASSUME WriteAssumption, WInv, Sending
  PROVE  /\ Unsent \in Seq(HttpUnits)
         /\ Len(Unsent) = m_iv[1].len + m_iv[2].len
         /\ \A i \in 1..m_iv[1].len : Unsent[i] = <<"head", got + i>>
         /\ \A i \in 1..m_iv[2].len :
              Unsent[m_iv[1].len + i] = <<"file", m_iv[2].base + i>>
<1> DEFINE l1 == m_iv[1].len
           l2 == m_iv[2].len
           b1 == m_iv[1].base
           b2 == m_iv[2].base
           h == SubSeq(Head0, b1 + 1, b1 + l1)
           f == SubSeq(File0, b2 + 1, b2 + l2)
<1>1. /\ l1 \in Nat /\ l2 \in Nat /\ b1 \in Nat /\ b2 \in Nat /\ m_file_size \in Nat
      /\ l1 > 0 => b1 + l1 = HeadLen /\ b1 = got
      /\ l2 > 0 => b2 + l2 = m_file_size
      /\ got \in Nat
  <2>1. l1 \in Nat /\ l2 \in Nat /\ b1 \in Nat /\ b2 \in Nat /\ m_file_size \in Nat
    BY Sizes DEF WInv, CountsOK
  <2>2. got \in Nat
    BY LenProperties DEF WInv, CountsOK, got
  <2>3. /\ l1 = IF got < HeadLen THEN HeadLen - got ELSE 0
        /\ got < HeadLen => b1 = got
    BY DEF WInv, SendingInv
  <2>4. l2 > 0 => b2 + l2 = m_file_size
    BY DEF WInv, EntriesPointIntoBuffers
  <2> QED BY <2>1, <2>2, <2>3, <2>4, Sizes
<1>2. Unsent = h \o f
  BY DEF Unsent
<1> HIDE DEF l1, l2, b1, b2
<1>3. \A i \in Nat : <<"head", i>> \in HttpUnits /\ <<"file", i>> \in HttpUnits
  BY DEF HttpUnits
<1>4. ASSUME NEW i \in 1..l1
      PROVE  Head0[b1 + i] = <<"head", b1 + i>> /\ Head0[b1 + i] \in HttpUnits
  <2>1. b1 + i \in 1..HeadLen /\ b1 + i \in Nat
    BY <1>1
  <2>2. Head0[b1 + i] = <<"head", b1 + i>>
    BY <2>1 DEF Head0
  <2> QED BY <1>3, <2>1, <2>2
<1>5. ASSUME NEW i \in 1..l2
      PROVE  File0[b2 + i] = <<"file", b2 + i>> /\ File0[b2 + i] \in HttpUnits
  <2>1. b2 + i \in 1..m_file_size /\ b2 + i \in Nat
    BY <1>1
  <2>2. File0[b2 + i] = <<"file", b2 + i>>
    BY <2>1 DEF File0
  <2> QED BY <1>3, <2>1, <2>2
<1>6. /\ h \in Seq(HttpUnits) /\ Len(h) = l1
      /\ \A i \in 1..l1 : h[i] = Head0[b1 + i]
  BY ONLY <1>1, <1>4, Slice
<1>7. /\ f \in Seq(HttpUnits) /\ Len(f) = l2
      /\ \A i \in 1..l2 : f[i] = File0[b2 + i]
  BY ONLY <1>1, <1>5, Slice
<1> HIDE DEF h, f
<1>8. /\ Unsent \in Seq(HttpUnits) /\ Len(Unsent) = l1 + l2
      /\ \A i \in 1..(l1 + l2) : Unsent[i] = IF i <= l1 THEN h[i] ELSE f[i - l1]
  BY ONLY <1>2, <1>6, <1>7, ConcatProperties
<1>9. ASSUME NEW i \in 1..l1 PROVE Unsent[i] = <<"head", got + i>>
  <2>1. i \in 1..(l1 + l2) /\ i <= l1 /\ l1 > 0
    BY <1>1
  <2> QED BY <1>1, <1>4, <1>6, <1>8, <2>1
<1>10. ASSUME NEW i \in 1..l2 PROVE Unsent[l1 + i] = <<"file", b2 + i>>
  <2>1. PICK j \in 1..(l1 + l2) : j = l1 + i /\ ~(j <= l1) /\ j - l1 = i
    BY <1>1
  <2>2. Unsent[j] = f[i]
    BY <1>8, <2>1
  <2>3. Unsent[j] = <<"file", b2 + i>>
    BY <1>5, <1>7, <2>2
  <2> QED BY <2>1, <2>3
<1>11. /\ Unsent \in Seq(HttpUnits) /\ Len(Unsent) = l1 + l2
       /\ \A i \in 1..l1 : Unsent[i] = <<"head", got + i>>
       /\ \A i \in 1..l2 : Unsent[l1 + i] = <<"file", b2 + i>>
  BY <1>8, <1>9, <1>10
<1> QED BY <1>11, Zenon DEF l1, l2, b2

\* One turn of the loop in http_write().
LEMMA PassedEntry ==
  ASSUME WriteAssumption, NEW e \in [base : Nat, len : Nat], NEW n \in Nat
  PROVE  LET p == Passed(e, n)
         IN  /\ p.entry \in [base : Nat, len : Nat] /\ p.rest \in Nat
             /\ p.entry.len = IF n <= e.len THEN e.len - n ELSE 0
             /\ p.entry.len > 0 => p.entry.base = e.base + n
             /\ p.rest = IF e.len > 0 /\ n > e.len THEN n - e.len ELSE n
<1>1. e.len \in Nat /\ e.base \in Nat
  OBVIOUS
<1>2. CASE e.len = 0
  <2>1. ~(e.len > 0)
    BY <1>2
  <2>2. Passed(e, n) = [entry |-> e, rest |-> n]
    BY <1>2, <2>1, Zenon DEF Passed
  <2> QED BY <1>1, <1>2, <2>2
<1>3. CASE e.len > 0 /\ n > e.len
  <2>1. e.len # 0 /\ ~(n <= e.len)
    BY <1>1, <1>3
  <2>2. Passed(e, n) = [entry |-> Empty, rest |-> n - e.len]
    BY <1>3, <2>1, Zenon DEF Passed
  <2> QED BY <1>1, <1>3, <2>2, Entries
<1>4. CASE e.len > 0 /\ n <= e.len
  <2>1. e.len # 0 /\ ~(n > e.len)
    BY <1>1, <1>4
  <2>2. Passed(e, n) = [entry |-> Entry(e.base + n, e.len - n), rest |-> n]
    BY <1>4, <2>1, Zenon DEF Passed
  <2> QED BY <1>1, <1>4, <2>2, Entries
<1> QED BY <1>1, <1>2, <1>3, <1>4

\* m_iv after a writev(): the head entry shrinks by what was sent of it; the file entry
\* does, too, but by the wrong number when the head had not gone out before.
LEMMA AdvancedEntries ==
  ASSUME WriteAssumption, CountsOK, NEW n \in Nat
  PROVE  /\ Advanced(n) \in [1..2 -> [base : Nat, len : Nat]]
         /\ Advanced(n)[1].len = IF n <= m_iv[1].len THEN m_iv[1].len - n ELSE 0
         /\ Advanced(n)[1].len > 0 => Advanced(n)[1].base = m_iv[1].base + n
         /\ m_iv_count # 2 => Advanced(n)[2] = m_iv[2]
         /\ m_iv_count = 2 =>
              LET rest == IF m_iv[1].len > 0 /\ n > m_iv[1].len THEN n - m_iv[1].len ELSE n
              IN  /\ Advanced(n)[2].len = IF rest <= m_iv[2].len THEN m_iv[2].len - rest ELSE 0
                  /\ Advanced(n)[2].len > 0 => Advanced(n)[2].base = m_iv[2].base + rest
<1> DEFINE p == Passed(m_iv[1], n)
           q == Passed(m_iv[2], p.rest)
<1>1. m_iv[1] \in [base : Nat, len : Nat] /\ m_iv[2] \in [base : Nat, len : Nat]
  BY DEF CountsOK
<1>2. /\ p.entry \in [base : Nat, len : Nat] /\ p.rest \in Nat
      /\ p.entry.len = IF n <= m_iv[1].len THEN m_iv[1].len - n ELSE 0
      /\ p.entry.len > 0 => p.entry.base = m_iv[1].base + n
      /\ p.rest = IF m_iv[1].len > 0 /\ n > m_iv[1].len THEN n - m_iv[1].len ELSE n
  BY <1>1, PassedEntry
<1>3. /\ q.entry \in [base : Nat, len : Nat]
      /\ q.entry.len = IF p.rest <= m_iv[2].len THEN m_iv[2].len - p.rest ELSE 0
      /\ q.entry.len > 0 => q.entry.base = m_iv[2].base + p.rest
  BY <1>1, <1>2, PassedEntry
<1>4. Advanced(n) = <<p.entry, IF m_iv_count = 2 THEN q.entry ELSE m_iv[2]>>
  BY DEF Advanced
<1> HIDE DEF p, q
<1> QED BY <1>1, <1>2, <1>3, <1>4

\* write() takes n units more out of m_iv: what the client has got then, unit by unit.
LEMMA WritevUnits ==
  ASSUME WriteAssumption, WInv, NEW n \in 1..Len(Unsent), Writev(n)
  PROVE  /\ n \in Nat /\ n > 0 /\ n <= m_iv[1].len + m_iv[2].len
         /\ got \in Nat
         /\ received' \in Seq(HttpUnits) /\ got' = got + n
         /\ \A i \in 1..got : received'[i] = received[i]
         /\ \A i \in (got + 1)..(got + n) :
              received'[i] = IF i - got <= m_iv[1].len THEN <<"head", i>>
                             ELSE <<"file", m_iv[2].base + (i - got - m_iv[1].len)>>
<1> DEFINE l1 == m_iv[1].len
           l2 == m_iv[2].len
           b2 == m_iv[2].base
           s == SubSeq(Unsent, 1, n)
<1>1. Sending /\ received' = received \o s
  BY DEF Writev, Sending
<1>2. /\ Unsent \in Seq(HttpUnits) /\ Len(Unsent) = l1 + l2
      /\ \A i \in 1..l1 : Unsent[i] = <<"head", got + i>>
      /\ \A i \in 1..l2 : Unsent[l1 + i] = <<"file", b2 + i>>
  BY <1>1, UnsentUnits
<1>3. l1 \in Nat /\ l2 \in Nat /\ b2 \in Nat
  BY DEF WInv, CountsOK
<1> HIDE DEF l1, l2, b2
<1>4. n \in Nat /\ n > 0 /\ n <= l1 + l2
  BY <1>2, <1>3
<1>5. /\ s \in Seq(HttpUnits) /\ Len(s) = n
      /\ \A i \in 1..n : s[i] = Unsent[i]
  <2>1. \A i \in 1..n : Unsent[i] \in HttpUnits
    BY <1>2, <1>4, ElementOfSeq
  <2>2. 0 + 1 = 1 /\ 0 + n = n /\ \A i \in 1..n : 0 + i = i
    BY <1>4
  <2>3. /\ SubSeq(Unsent, 0 + 1, 0 + n) \in Seq(HttpUnits)
        /\ Len(SubSeq(Unsent, 0 + 1, 0 + n)) = n
        /\ \A i \in 1..n : SubSeq(Unsent, 0 + 1, 0 + n)[i] = Unsent[0 + i]
    BY <1>4, <2>1, <2>2, Slice
  <2> QED BY <2>2, <2>3
<1> HIDE DEF s
<1>6. received \in Seq(HttpUnits) /\ got = Len(received) /\ got \in Nat
  BY LenProperties DEF WInv, CountsOK, got
<1>7. /\ received' \in Seq(HttpUnits) /\ Len(received') = got + n
      /\ \A i \in 1..(got + n) : received'[i] = IF i <= got THEN received[i] ELSE s[i - got]
  BY <1>1, <1>5, <1>6, ConcatProperties
<1>8. got' = got + n
  BY <1>7 DEF got
<1>9. \A i \in 1..got : received'[i] = received[i]
  BY <1>4, <1>6, <1>7
<1>10. ASSUME NEW i \in (got + 1)..(got + n)
       PROVE  received'[i] = IF i - got <= l1 THEN <<"head", i>>
                             ELSE <<"file", b2 + (i - got - l1)>>
  <2>1. /\ i \in 1..(got + n) /\ ~(i <= got) /\ i - got \in 1..n
        /\ got + (i - got) = i
    BY <1>4, <1>6
  <2>2. received'[i] = Unsent[i - got]
    BY <1>5, <1>7, <2>1
  <2>3. CASE i - got <= l1
    <3>1. i - got \in 1..l1
      BY <1>3, <1>4, <2>1, <2>3
    <3> QED BY <1>2, <2>1, <2>2, <2>3, <3>1
  <2>4. CASE ~(i - got <= l1)
    <3>1. i - got - l1 \in 1..l2 /\ l1 + (i - got - l1) = i - got
      BY <1>3, <1>4, <1>6, <2>1, <2>4
    <3> QED BY <1>2, <2>2, <2>4, <3>1
  <2> QED BY <2>3, <2>4
<1>11. /\ n <= l1 + l2
       /\ \A i \in (got + 1)..(got + n) :
              received'[i] = IF i - got <= l1 THEN <<"head", i>>
                             ELSE <<"file", b2 + (i - got - l1)>>
  BY <1>4, <1>10
<1>12. /\ n <= m_iv[1].len + m_iv[2].len
       /\ \A i \in (got + 1)..(got + n) :
              received'[i] = IF i - got <= m_iv[1].len THEN <<"head", i>>
                             ELSE <<"file", m_iv[2].base + (i - got - m_iv[1].len)>>
  BY <1>11, Zenon DEF l1, l2, b2
<1> QED BY <1>4, <1>6, <1>7, <1>8, <1>9, <1>12

\* The numbers of a writev(): what it leaves in m_iv, and what the client has.
LEMMA WritevNumbers ==
  ASSUME WriteAssumption, WInv, NEW n \in 1..Len(Unsent), Writev(n)
  PROVE  LET a == Advanced(n)
         IN  /\ a \in [1..2 -> [base : Nat, len : Nat]]
             /\ a[1].len = IF got' < HeadLen THEN HeadLen - got' ELSE 0
             /\ got' < HeadLen => a[1].base = got'
             /\ a[2].len > 0 => a[2].base + a[2].len = m_file_size /\ mapped
             /\ m_iv_count = 1 => a[2].len = 0 /\ got' <= HeadLen /\ m_file_size = 0
             /\ first' \in Nat /\ 0 < first' /\ first' <= got' /\ got' \in Nat
             /\ first' > HeadLen => a[2].len = HeadLen + m_file_size - got' /\ m_iv_count = 2
<1> DEFINE l1 == m_iv[1].len
           l2 == m_iv[2].len
           b1 == m_iv[1].base
           b2 == m_iv[2].base
           a  == Advanced(n)
           rest == IF l1 > 0 /\ n > l1 THEN n - l1 ELSE n
<1>1. /\ n \in Nat /\ n > 0 /\ n <= l1 + l2
      /\ got \in Nat /\ got' = got + n
  BY WritevUnits
<1>2. /\ l1 \in Nat /\ l2 \in Nat /\ b1 \in Nat /\ b2 \in Nat /\ m_file_size \in Nat
      /\ first \in Nat /\ m_iv_count \in 0..2
  BY Sizes DEF WInv, CountsOK
<1>3. /\ a \in [1..2 -> [base : Nat, len : Nat]]
      /\ a[1].len = IF n <= l1 THEN l1 - n ELSE 0
      /\ a[1].len > 0 => a[1].base = b1 + n
      /\ m_iv_count # 2 => a[2] = m_iv[2]
      /\ m_iv_count = 2 => /\ a[2].len = IF rest <= l2 THEN l2 - rest ELSE 0
                           /\ a[2].len > 0 => a[2].base = b2 + rest
  BY <1>1, AdvancedEntries DEF WInv
<1>4. /\ m_iv_count = IF m_file_size > 0 THEN 2 ELSE 1
      /\ l1 = IF got < HeadLen THEN HeadLen - got ELSE 0
      /\ got < HeadLen => b1 = got
      /\ m_iv_count = 1 => l2 = 0 /\ got <= HeadLen
      /\ first = 0 <=> got = 0
      /\ first <= got
      /\ got = 0 => l2 = m_file_size
      /\ first > HeadLen => l2 = HeadLen + m_file_size - got
  BY DEF WInv, SendingInv, Sending, Writev
<1>5. l2 > 0 => b2 + l2 = m_file_size
  BY DEF WInv, EntriesPointIntoBuffers
<1>6. m_file_size > 0 => mapped
  BY DEF WInv, SendingInv, Sending, Writev
<1>7. first' = IF got = 0 THEN n ELSE first
  <2>1. received = <<>> <=> got = 0
    BY EmptySeq DEF WInv, CountsOK, got
  <2> QED BY <2>1 DEF Writev
<1> DEFINE c1 == a[1].len
           c2 == a[2].len
<1>8. c1 \in Nat /\ c2 \in Nat /\ a[2].base \in Nat
  BY <1>3
<1>9. m_iv_count = 1 => c2 = 0
  BY <1>2, <1>3, <1>4
<1>10. rest \in Nat
  BY <1>1, <1>2
<1>11. c1 = IF n <= l1 THEN l1 - n ELSE 0
  BY <1>3
<1>12. c1 > 0 => a[1].base = b1 + n
  BY <1>3
<1>13. m_iv_count = 2 => c2 = (IF rest <= l2 THEN l2 - rest ELSE 0) /\ (c2 > 0 => a[2].base = b2 + rest)
  BY <1>3
<1> HIDE DEF l1, l2, b1, b2, c1, c2, a
<1>14. /\ c1 = IF got' < HeadLen THEN HeadLen - got' ELSE 0
       /\ got' < HeadLen => a[1].base = got'
  BY <1>1, <1>2, <1>4, <1>11, <1>12, Sizes
<1>15. c2 > 0 => a[2].base + c2 = m_file_size /\ m_file_size > 0
  <2> HIDE DEF rest
  <2>1. SUFFICES ASSUME c2 > 0 PROVE a[2].base + c2 = m_file_size /\ m_file_size > 0
    BY <1>8
  <2>2. m_iv_count = 2 /\ m_file_size > 0
    BY <1>2, <1>4, <1>9, <2>1
  <2>3. rest <= l2 /\ c2 = l2 - rest /\ a[2].base = b2 + rest
    BY <1>2, <1>10, <1>13, <2>1, <2>2
  <2> QED BY <1>2, <1>5, <1>8, <1>10, <2>1, <2>2, <2>3
<1>16. m_iv_count = 1 => got' <= HeadLen /\ m_file_size = 0
  BY <1>1, <1>2, <1>4, Sizes
<1>17. first' \in Nat /\ 0 < first' /\ first' <= got' /\ got' \in Nat
  BY <1>1, <1>2, <1>4, <1>7
<1>18. first' > HeadLen => c2 = HeadLen + m_file_size - got' /\ m_iv_count = 2
  <2>1. CASE got = 0
    BY <1>1, <1>2, <1>4, <1>7, <1>13, <2>1, Sizes
  <2>2. CASE got # 0
    BY <1>1, <1>2, <1>4, <1>7, <1>13, <2>2, Sizes
  <2> QED BY <2>1, <2>2
<1>19. /\ a \in [1..2 -> [base : Nat, len : Nat]]
       /\ c2 > 0 => a[2].base + c2 = m_file_size /\ mapped
       /\ m_iv_count = 1 => c2 = 0 /\ got' <= HeadLen /\ m_file_size = 0
  BY <1>3, <1>6, <1>9, <1>15, <1>16
<1>20. /\ a \in [1..2 -> [base : Nat, len : Nat]]
       /\ c1 = IF got' < HeadLen THEN HeadLen - got' ELSE 0
       /\ got' < HeadLen => a[1].base = got'
       /\ c2 > 0 => a[2].base + c2 = m_file_size /\ mapped
       /\ m_iv_count = 1 => c2 = 0 /\ got' <= HeadLen /\ m_file_size = 0
       /\ first' \in Nat /\ 0 < first' /\ first' <= got' /\ got' \in Nat
       /\ first' > HeadLen => c2 = HeadLen + m_file_size - got' /\ m_iv_count = 2
  BY <1>14, <1>17, <1>18, <1>19
<1> QED BY <1>20 DEF c1, c2, a

-----------------------------------------------------------------------------

\* Each part of WInv after a writev().
LEMMA WritevKeeps ==
  ASSUME WriteAssumption, WInv, NEW n \in 1..Len(Unsent), Writev(n)
  PROVE  WInv'
<1> DEFINE a == Advanced(n)
<1>1. /\ a \in [1..2 -> [base : Nat, len : Nat]]
      /\ a[1].len = IF got' < HeadLen THEN HeadLen - got' ELSE 0
      /\ got' < HeadLen => a[1].base = got'
      /\ a[2].len > 0 => a[2].base + a[2].len = m_file_size /\ mapped
      /\ m_iv_count = 1 => a[2].len = 0 /\ got' <= HeadLen /\ m_file_size = 0
      /\ first' \in Nat /\ 0 < first' /\ first' <= got' /\ got' \in Nat
      /\ first' > HeadLen => a[2].len = HeadLen + m_file_size - got' /\ m_iv_count = 2
  BY WritevNumbers
<1>2. m_iv_count' = m_iv_count /\ m_file_size' = m_file_size /\ ret' = ret
  BY DEF Writev
<1>3. \/ /\ m_iv' = a /\ pc' = "write" /\ result' = result /\ mapped' = mapped
         /\ connect' = connect /\ ~(a[1].len = 0 /\ a[2].len = 0)
      \/ /\ m_iv' = a /\ pc' = "closed" /\ result' = "sent" /\ mapped' = mapped
         /\ connect' = connect /\ a[1].len = 0 /\ a[2].len = 0
      \/ /\ m_iv' = <<Empty, Empty>> /\ pc' = "idle" /\ result' = "sent" /\ mapped' = FALSE
         /\ connect' = FALSE /\ a[1].len = 0 /\ a[2].len = 0
  <2>1. (\A i \in 1..2 : a[i].len = 0) <=> a[1].len = 0 /\ a[2].len = 0
    OBVIOUS
  <2> QED BY <2>1 DEF Writev, HttpReset, Unmap
<1> HIDE DEF a
<1>4. m_iv_count \in {1, 2} /\ (m_iv_count = 2 <=> m_file_size > 0) /\ m_file_size \in Nat
      /\ result = "none" /\ (m_file_size > 0 => mapped)
  BY Sizes DEF WInv, CountsOK, SendingInv, Sending, Writev
<1>5. CountsOK'
  <2>1. m_iv' \in [1..2 -> [base : Nat, len : Nat]]
    <3>1. <<Empty, Empty>> \in [1..2 -> [base : Nat, len : Nat]]
      BY Entries
    <3> QED BY <1>1, <1>3, <3>1
  <2>2. received' \in Seq(HttpUnits)
    BY WritevUnits
  <2>3. full' \in BOOLEAN /\ mapped' \in BOOLEAN /\ connect' \in BOOLEAN
    BY <1>3 DEF Writev, WInv, CountsOK
  <2> QED BY <1>1, <1>2, <1>3, <2>1, <2>2, <2>3 DEF WInv, CountsOK
<1>6. EntriesPointIntoBuffers'
  <2>1. CASE m_iv' = a /\ mapped' = mapped /\ pc' # "idle"
    BY <1>1, <1>2, <2>1, Sizes DEF EntriesPointIntoBuffers
  <2>2. CASE m_iv' = <<Empty, Empty>> /\ mapped' = FALSE
    <3>1. m_iv'[1].len = 0 /\ m_iv'[2].len = 0
      BY <2>2, Entries
    <3> QED BY <2>2, <3>1 DEF EntriesPointIntoBuffers
  <2> QED BY <1>3, <2>1, <2>2
<1>7. SendingInv'
  <2> SUFFICES ASSUME Sending' PROVE SendingInv'
    BY DEF SendingInv
  <2>1. m_iv' = a /\ result' = "none" /\ mapped' = mapped
    BY <1>3, <1>4 DEF Sending
  <2>2. m_file_size' > 0 => mapped'
    BY <1>2, <1>4, <2>1
  <2>3. /\ m_iv_count' = IF m_file_size' > 0 THEN 2 ELSE 1
        /\ m_iv'[1].len = IF got' < HeadLen THEN HeadLen - got' ELSE 0
        /\ got' < HeadLen => m_iv'[1].base = got'
        /\ m_iv_count' = 1 => m_iv'[2].len = 0 /\ got' <= HeadLen
        /\ first' = 0 <=> got' = 0
        /\ first' <= got'
        /\ got' = 0 => m_iv'[2].len = m_file_size'
        /\ first' > HeadLen => m_iv'[2].len = HeadLen + m_file_size' - got'
    BY <1>1, <1>2, <1>4, <2>1
  <2> QED BY <2>1, <2>2, <2>3 DEF SendingInv
<1>8. ReceivedInv'
  <2> DEFINE l1 == m_iv[1].len
             l2 == m_iv[2].len
             b2 == m_iv[2].base
  <2>1. /\ n \in Nat /\ n > 0 /\ n <= l1 + l2 /\ got \in Nat /\ got' = got + n
        /\ \A i \in 1..got : received'[i] = received[i]
        /\ \A i \in (got + 1)..(got + n) :
              received'[i] = IF i - got <= l1 THEN <<"head", i>>
                             ELSE <<"file", b2 + (i - got - l1)>>
    BY WritevUnits
  <2>2. /\ l1 = (IF got < HeadLen THEN HeadLen - got ELSE 0) /\ l1 \in Nat
        /\ l2 \in Nat /\ b2 \in Nat
    BY DEF WInv, SendingInv, CountsOK, Sending, Writev
  <2>3. l2 > 0 => b2 + l2 = m_file_size
    BY DEF WInv, EntriesPointIntoBuffers
  <2>4. /\ first \in Nat /\ first <= got
        /\ got = 0 => l2 = m_file_size
        /\ first > HeadLen => l2 = HeadLen + m_file_size - got
    BY DEF WInv, SendingInv, CountsOK, Sending, Writev
  <2>5. first' = IF got = 0 THEN n ELSE first
    <3>1. received = <<>> <=> got = 0
      BY EmptySeq DEF WInv, CountsOK, got
    <3> QED BY <3>1 DEF Writev
  <2> HIDE DEF l1, l2, b2
  <2>6. /\ \A i \in 1..got : IF i <= HeadLen THEN received[i] = <<"head", i>>
                                           ELSE received[i][1] = "file"
        /\ HeadAtOnce => \A i \in (HeadLen + 1)..got : received[i] = <<"file", i - HeadLen>>
    BY DEF WInv, ReceivedInv, HeadIntact, got
  <2>7. ASSUME NEW i \in 1..got'
        PROVE  IF i <= HeadLen THEN received'[i] = <<"head", i>> ELSE received'[i][1] = "file"
    <3>1. CASE i \in 1..got
      BY <2>1, <2>6, <3>1
    <3>2. CASE i \in (got + 1)..(got + n)
      <4>1. i - got <= l1 <=> i <= HeadLen
        BY <2>1, <2>2, <3>2, Sizes
      <4>2. CASE i <= HeadLen
        BY <2>1, <3>2, <4>1, <4>2
      <4>3. CASE ~(i <= HeadLen)
        <5>1. received'[i] = <<"file", b2 + (i - got - l1)>>
          BY <2>1, <3>2, <4>1, <4>3
        <5> QED BY <4>3, <5>1
      <4> QED BY <4>2, <4>3
    <3> QED BY <2>1, <3>1, <3>2
  <2>8. HeadIntact'
    BY <2>7 DEF HeadIntact, got
  <2>9. ASSUME HeadAtOnce'
        PROVE  /\ got' <= HeadLen + m_file_size'
               /\ \A i \in (HeadLen + 1)..got' : received'[i] = <<"file", i - HeadLen>>
               /\ result' = "sent" => got' = HeadLen + m_file_size'
    <3>1. first' > HeadLen \/ m_iv_count = 1
      BY <1>1, <1>2, <2>9 DEF HeadAtOnce
    <3>2. result' = "sent" => a[1].len = 0 /\ a[2].len = 0
      BY <1>3, <1>4
    <3>3. CASE m_iv_count = 1
      <4>1. m_file_size = 0 /\ got' <= HeadLen
        BY <1>1, <3>3
      <4>2. a[1].len = 0 => got' = HeadLen
        BY <1>1, <4>1, Sizes
      <4>3. got' <= HeadLen + m_file_size' /\ m_file_size' = 0 /\ HeadLen + m_file_size' = HeadLen
        BY <1>2, <4>1, Sizes
      <4>4. \A i \in (HeadLen + 1)..got' : FALSE
        BY <1>1, <4>1, Sizes
      <4> QED BY <3>2, <4>2, <4>3, <4>4
    <3>4. CASE first' > HeadLen
      <4>1. got' <= HeadLen + m_file_size /\ (result' = "sent" => got' = HeadLen + m_file_size)
        <5> DEFINE c == a[2].len
                   g == got'
        <5>1. c \in Nat
          BY <1>1
        <5>2. c = HeadLen + m_file_size - g
          BY <1>1, <3>4
        <5>3. result' = "sent" => c = 0
          BY <3>2
        <5>4. g \in Nat /\ m_file_size \in Nat
          BY <1>1, <1>4
        <5> HIDE DEF c, g
        <5>5. g <= HeadLen + m_file_size /\ (c = 0 => g = HeadLen + m_file_size)
          BY <5>1, <5>2, <5>4, Sizes
        <5> QED BY <5>3, <5>5 DEF g
      <4>2. ASSUME NEW i \in (HeadLen + 1)..got' PROVE received'[i] = <<"file", i - HeadLen>>
        <5>1. CASE i \in 1..got
          <6>1. first > HeadLen
            BY <2>1, <2>5, <3>4, <5>1, Sizes
          <6>2. HeadAtOnce /\ i \in (HeadLen + 1)..got
            BY <4>2, <5>1, <6>1 DEF HeadAtOnce
          <6> QED BY <2>1, <2>6, <5>1, <6>2
        <5>2. CASE i \in (got + 1)..(got + n)
          <6>1. ~(i - got <= l1)
            BY <2>1, <2>2, <4>2, <5>2, Sizes
          <6>2. received'[i] = <<"file", b2 + (i - got - l1)>>
            BY <2>1, <5>2, <6>1
          <6>3. b2 + (i - got - l1) = i - HeadLen
            <7>1. l2 > 0
              BY <2>1, <2>2, <5>2, <6>1
            <7>2. CASE got = 0
              BY <2>1, <2>2, <2>3, <2>4, <1>4, <5>2, <7>1, <7>2, Sizes
            <7>3. CASE got > 0
              BY <2>1, <2>2, <2>3, <2>4, <2>5, <1>4, <3>4, <5>2, <7>1, <7>3, Sizes
            <7> QED BY <2>1, <7>2, <7>3
          <6> QED BY <6>2, <6>3
        <5> QED BY <2>1, <4>2, <5>1, <5>2, Sizes
      <4> QED BY <1>2, <4>1, <4>2
    <3> QED BY <3>1, <3>3, <3>4
  <2> QED BY <2>8, <2>9 DEF ReceivedInv
<1>9. IdleInv'
  BY <1>3 DEF IdleInv
<1> QED BY <1>5, <1>6, <1>7, <1>8, <1>9 DEF WInv

\* A new response: all of it is to be sent.
LEMMA RespondKeeps ==
  ASSUME WriteAssumption, WInv, NEW size \in FileLens, NEW keep \in BOOLEAN, Respond(size, keep)
  PROVE  WInv'
<1>1. size \in Nat
  BY Sizes
<1>2. /\ received' = <<>> /\ first' = 0 /\ m_file_size' = size /\ connect' = keep /\ full' = full
      /\ pc = "idle"
  BY DEF Respond
<1>3. /\ received' \in Seq(HttpUnits) /\ got' = 0
  BY <1>2, EmptySeq DEF got
<1>4. mapped' \in BOOLEAN /\ (size > 0 => mapped')
  <2>1. mapped' = (size > 0)
    BY DEF Respond
  <2>2. (size > 0) \in BOOLEAN
    OBVIOUS
  <2> QED BY <2>1, <2>2, Zenon
<1>5. ReceivedInv'
  <2>1. result' # "sent"
    BY DEF Respond
  <2>2. \A i \in 1..0 : FALSE
    OBVIOUS
  <2>3. \A i \in (HeadLen + 1)..0 : FALSE
    BY Sizes
  <2>4. HeadIntact'
    BY <1>3, <2>2 DEF HeadIntact, got
  <2>5. got' <= HeadLen + m_file_size'
    BY <1>1, <1>2, <1>3, Sizes
  <2> QED BY <1>3, <2>1, <2>3, <2>4, <2>5 DEF ReceivedInv
<1>6. CASE /\ m_iv' = <<Entry(0, HeadLen), Entry(0, size)>>
           /\ m_iv_count' = IF size > 0 THEN 2 ELSE 1
           /\ result' = "none" /\ pc' = "armed"
  <2>1. /\ m_iv' \in [1..2 -> [base : Nat, len : Nat]]
        /\ m_iv'[1].base = 0 /\ m_iv'[1].len = HeadLen
        /\ m_iv'[2].base = 0 /\ m_iv'[2].len = size
    <3>1. 0 \in Nat /\ HeadLen \in Nat
      BY Sizes
    <3> QED BY <1>1, <1>6, <3>1, Entries
  <2>2. CountsOK'
    BY <1>1, <1>2, <1>3, <1>4, <1>6, <2>1 DEF WInv, CountsOK
  <2>3. EntriesPointIntoBuffers'
    BY <1>1, <1>2, <1>4, <1>6, <2>1, Sizes DEF EntriesPointIntoBuffers
  <2>4. SendingInv'
    BY <1>1, <1>2, <1>3, <1>4, <1>6, <2>1, Sizes DEF SendingInv
  <2>5. IdleInv'
    BY <1>6 DEF IdleInv
  <2> QED BY <1>5, <2>2, <2>3, <2>4, <2>5 DEF WInv
<1>7. CASE /\ result' = "failed" /\ pc' = "closed"
           /\ UNCHANGED <<m_iv, m_iv_count>>
  <2>1. m_iv = <<Empty, Empty>>
    BY <1>2 DEF WInv, IdleInv
  <2>2. CountsOK'
    BY <1>1, <1>2, <1>3, <1>4, <1>7 DEF WInv, CountsOK
  <2>3. EntriesPointIntoBuffers'
    BY <1>7, <2>1, Entries DEF EntriesPointIntoBuffers
  <2>4. SendingInv' /\ IdleInv'
    BY <1>7 DEF SendingInv, Sending, IdleInv
  <2> QED BY <1>5, <2>2, <2>3, <2>4 DEF WInv
<1> QED BY <1>6, <1>7 DEF Respond

\* The steps that neither build a response nor send any of it.
LEMMA OtherKeeps ==
  ASSUME WriteAssumption, WInv, Drain \/ EpollOut \/ WouldBlock \/ Fail \/ InitConn \/ UNCHANGED vars
  PROVE  WInv'
<1>1. CASE Drain \/ EpollOut \/ WouldBlock \/ Fail \/ UNCHANGED vars
  <2>1. UNCHANGED <<m_iv, m_iv_count, m_file_size, mapped, connect, received, first>>
    BY <1>1 DEF Drain, EpollOut, WouldBlock, Fail, vars
  <2>2. /\ full' \in BOOLEAN
        /\ pc' \in {"idle", "armed", "write", "closed"} /\ (pc' = "idle" => pc = "idle")
        /\ result' \in {"none", "sent", "failed"} /\ (result' = "sent" => result = "sent")
        /\ Sending' => Sending /\ result' = result
    BY <1>1 DEF Drain, EpollOut, WouldBlock, Fail, vars, WInv, CountsOK, Sending
  <2>3. got' = got
    BY <2>1 DEF got
  <2>4. CountsOK'
    BY <2>1, <2>2 DEF WInv, CountsOK
  <2>5. EntriesPointIntoBuffers'
    BY <2>1, <2>2 DEF WInv, EntriesPointIntoBuffers
  <2>6. SendingInv'
    BY <2>1, <2>2, <2>3 DEF WInv, SendingInv
  <2>7. ReceivedInv'
    BY <2>1, <2>2, <2>3 DEF WInv, ReceivedInv, HeadIntact, HeadAtOnce
  <2>8. IdleInv'
    BY <2>1, <2>2 DEF WInv, IdleInv
  <2> QED BY <2>4, <2>5, <2>6, <2>7, <2>8 DEF WInv
<1>2. CASE InitConn
  <2>1. /\ UNCHANGED <<m_iv_count, m_file_size, received, first, result>>
        /\ m_iv' = <<Empty, Empty>> /\ mapped' = FALSE /\ connect' = FALSE /\ full' = FALSE
        /\ pc' = "idle"
    BY <1>2 DEF InitConn, HttpReset, Unmap
  <2>2. <<Empty, Empty>> \in [1..2 -> [base : Nat, len : Nat]]
    BY Entries
  <2>3. CountsOK'
    BY <2>1, <2>2 DEF WInv, CountsOK
  <2>4. EntriesPointIntoBuffers'
    BY <2>1, Entries DEF EntriesPointIntoBuffers
  <2>5. got' = got
    BY <2>1 DEF got
  <2>6. ReceivedInv'
    BY <2>1, <2>5 DEF WInv, ReceivedInv, HeadIntact, HeadAtOnce
  <2>7. SendingInv' /\ IdleInv'
    BY <2>1 DEF SendingInv, Sending, IdleInv
  <2> QED BY <2>3, <2>4, <2>6, <2>7 DEF WInv
<1> QED BY <1>1, <1>2

LEMMA InitWInv ==
  ASSUME WriteAssumption PROVE Init => WInv
<1> SUFFICES ASSUME Init PROVE WInv
  OBVIOUS
<1>1. <<Empty, Empty>> \in [1..2 -> [base : Nat, len : Nat]]
  BY Entries
<1>2. received = <<>> /\ received \in Seq(HttpUnits) /\ got = 0
  BY EmptySeq DEF Init, got
<1>3. CountsOK
  <2>1. m_iv \in [1..2 -> [base : Nat, len : Nat]]
    BY <1>1 DEF Init
  <2>2. mapped \in BOOLEAN /\ connect \in BOOLEAN /\ full \in BOOLEAN
    BY DEF Init
  <2> QED BY <1>2, <2>1, <2>2 DEF Init, CountsOK
<1>4. EntriesPointIntoBuffers
  <2>1. m_iv[1].len = 0 /\ m_iv[2].len = 0
    BY Entries DEF Init
  <2> QED BY <2>1 DEF Init, EntriesPointIntoBuffers
<1>5. SendingInv /\ IdleInv
  BY DEF Init, SendingInv, Sending, IdleInv
<1>6. ReceivedInv
  <2>1. (\A i \in 1..0 : FALSE) /\ (\A i \in (HeadLen + 1)..0 : FALSE)
    BY Sizes
  <2>2. got <= HeadLen + m_file_size
    BY <1>2, Sizes DEF Init
  <2> QED BY <1>2, <2>1, <2>2 DEF Init, ReceivedInv, HeadIntact, got
<1> QED BY <1>3, <1>4, <1>5, <1>6 DEF WInv

THEOREM WriteInvariant ==
  ASSUME WriteAssumption PROVE Spec => []WInv
<1>1. WInv /\ [Next]_vars => WInv'
  BY RespondKeeps, WritevKeeps, OtherKeeps DEF Next
<1> QED BY <1>1, InitWInv, PTL DEF Spec

\* Wherever writev() stops, an entry of m_iv with data left ends where the head or the
\* file ends, and the file is still mapped.
THEOREM WriteEntriesPointIntoBuffers ==
  ASSUME WriteAssumption PROVE Spec => []EntriesPointIntoBuffers
<1>1. WInv => EntriesPointIntoBuffers
  BY DEF WInv
<1> QED BY <1>1, WriteInvariant, PTL

\* The head always arrives intact, and so does the file when the first writev() takes
\* more than the head.
THEOREM WriteAllReceived ==
  ASSUME WriteAssumption PROVE Spec => []AllReceived
<1>1. WInv => AllReceived
  <2> SUFFICES ASSUME WInv, HeadAtOnce PROVE PrefixReceived
    BY DEF AllReceived, WInv, ReceivedInv
  <2>1. /\ received \in Seq(HttpUnits) /\ got \in Nat /\ got = Len(received)
        /\ m_file_size \in Nat
    BY LenProperties, Sizes DEF WInv, CountsOK, got
  <2>2. /\ got <= HeadLen + m_file_size
        /\ \A i \in 1..got : i <= HeadLen => received[i] = <<"head", i>>
        /\ \A i \in (HeadLen + 1)..got : received[i] = <<"file", i - HeadLen>>
        /\ result = "sent" => got = HeadLen + m_file_size
    BY DEF WInv, ReceivedInv, HeadIntact, got
  <2>3. /\ Response \in Seq(HttpUnits) /\ Len(Response) = HeadLen + m_file_size
        /\ \A i \in 1..(HeadLen + m_file_size) :
             Response[i] = IF i <= HeadLen THEN <<"head", i>> ELSE <<"file", i - HeadLen>>
    <3>1. \A i \in Nat : <<"head", i>> \in HttpUnits /\ <<"file", i>> \in HttpUnits
      BY DEF HttpUnits
    <3>2. /\ Head0 \in Seq(HttpUnits) /\ Len(Head0) = HeadLen
          /\ \A i \in 1..HeadLen : Head0[i] = <<"head", i>>
      <4>1. ASSUME NEW i \in 1..HeadLen PROVE <<"head", i>> \in HttpUnits
        <5>1. i \in Nat
          BY <2>1, Sizes
        <5> QED BY <3>1, <5>1
      <4>2. Head0 \in [1..HeadLen -> HttpUnits] /\ \A i \in 1..HeadLen : Head0[i] = <<"head", i>>
        BY <4>1 DEF Head0
      <4> QED BY <4>2, <2>1, Sizes, FunSeq
    <3>3. /\ File0 \in Seq(HttpUnits) /\ Len(File0) = m_file_size
          /\ \A i \in 1..m_file_size : File0[i] = <<"file", i>>
      <4>1. ASSUME NEW i \in 1..m_file_size PROVE <<"file", i>> \in HttpUnits
        <5>1. i \in Nat
          BY <2>1, Sizes
        <5> QED BY <3>1, <5>1
      <4>2. File0 \in [1..m_file_size -> HttpUnits] /\ \A i \in 1..m_file_size : File0[i] = <<"file", i>>
        BY <4>1 DEF File0
      <4> QED BY <4>2, <2>1, Sizes, FunSeq
    <3>4. /\ Response \in Seq(HttpUnits) /\ Len(Response) = HeadLen + m_file_size
          /\ \A i \in 1..(HeadLen + m_file_size) :
               Response[i] = IF i <= HeadLen THEN Head0[i] ELSE File0[i - HeadLen]
      BY <3>2, <3>3, ConcatProperties DEF Response
    <3>5. ASSUME NEW i \in 1..(HeadLen + m_file_size)
          PROVE  Response[i] = IF i <= HeadLen THEN <<"head", i>> ELSE <<"file", i - HeadLen>>
      <4>1. CASE i <= HeadLen
        <5>1. i \in 1..HeadLen
          BY <2>1, <4>1, Sizes
        <5> QED BY <3>2, <3>4, <4>1, <5>1
      <4>2. CASE ~(i <= HeadLen)
        <5>1. PICK j \in 1..m_file_size : j = i - HeadLen
          BY <2>1, <4>2, Sizes
        <5>2. Response[i] = File0[j]
          BY <3>4, <4>2, <5>1
        <5> QED BY <3>3, <4>2, <5>1, <5>2
      <4> QED BY <4>1, <4>2
    <3> QED BY <3>4, <3>5
  <2>4. ASSUME NEW i \in 1..got PROVE received[i] = Response[i]
    <3>1. i \in 1..(HeadLen + m_file_size)
      BY <2>1, <2>2, Sizes
    <3>2. i <= HeadLen \/ i \in (HeadLen + 1)..got
      BY <2>1, Sizes
    <3>3. i \in (HeadLen + 1)..got => ~(i <= HeadLen)
      BY <2>1, Sizes
    <3> QED BY <2>2, <2>3, <3>1, <3>2, <3>3
  <2>5. SubSeq(received, 1, got) = SubSeq(Response, 1, got)
    <3>1. /\ SubSeq(received, 1, got) = [i \in 1..got |-> received[i]]
          /\ SubSeq(Response, 1, got) = [i \in 1..got |-> Response[i]]
      BY <2>1, <2>2, <2>3, Sizes
    <3> QED BY <2>4, <3>1
  <2>6. result = "sent" => received = Response
    BY <2>1, <2>2, <2>3, <2>4, SeqEqual
  <2> QED BY <2>1, <2>2, <2>3, <2>5, <2>6 DEF PrefixReceived, IsPrefix
<1> QED BY <1>1, WriteInvariant, PTL

-----------------------------------------------------------------------------
(* What is printed stays within write_buffer, and is this response.           *)

\* The records that printing is about.
Printings == [index : 0..BufferSize, end : 0..BufferSize, ok : BOOLEAN,
              pieces : SUBSET (PagePieces \cup HeadPieces)]

\* add_response() leaves write_index and the text within write_buffer.
LEMMA AddType ==
  ASSUME WriteAssumption, NEW p \in Printings, NEW piece \in PagePieces \cup HeadPieces, NEW len \in Nat
  PROVE  Add(p, piece, len) \in Printings
<1> DEFINE i == p.index
           e == p.end
<1>1. i \in 0..BufferSize /\ e \in 0..BufferSize /\ p.pieces \in SUBSET (PagePieces \cup HeadPieces)
  BY DEF Printings
<1>2. Add(p, piece, len) = [index  |-> IF Fits(i, len) THEN i + len ELSE i,
                            end    |-> Printed(p, len),
                            pieces |-> IF Fits(i, len) THEN p.pieces \cup {piece} ELSE p.pieces,
                            ok     |-> Fits(i, len)]
  BY DEF Add
<1>3. Printed(p, len) = IF i >= BufferSize THEN e
                        ELSE IF len < Room(i) THEN i + len
                        ELSE IF Room(i) > 0 THEN i + Room(i) - 1
                        ELSE i
  BY DEF Printed
<1> HIDE DEF i, e
<1>4. Fits(i, len) \in BOOLEAN
  BY DEF Fits
<1>5. (IF Fits(i, len) THEN i + len ELSE i) \in 0..BufferSize
  BY <1>1 DEF Fits, Room
<1>6. Printed(p, len) \in 0..BufferSize
  BY <1>1, <1>3 DEF Room
<1>7. (IF Fits(i, len) THEN p.pieces \cup {piece} ELSE p.pieces) \in SUBSET (PagePieces \cup HeadPieces)
  BY <1>1, <1>4
<1> QED BY <1>2, <1>4, <1>5, <1>6, <1>7 DEF Printings

\* Three headers keep the types.
LEMMA HeadersType ==
  ASSUME WriteAssumption, NEW p \in Printings, NEW digits \in Nat, NEW keep \in BOOLEAN
  PROVE  Headers(p, digits, keep) \in Printings
<1> DEFINE l == ContentLength(p, digits)
           c == Keepalive(l, keep)
           b == BlankLine(c)
<1>1. "length" \in PagePieces /\ "connection" \in PagePieces /\ "blank" \in PagePieces
  BY DEF PagePieces
<1>2. l \in Printings
  BY <1>1, AddType DEF ContentLength
<1>3. c \in Printings
  BY <1>1, <1>2, AddType DEF Keepalive
<1>4. b \in Printings
  BY <1>1, <1>3, AddType DEF BlankLine
<1>5. l.ok \in BOOLEAN /\ c.ok \in BOOLEAN
  BY <1>2, <1>3 DEF Printings
<1> HIDE DEF l, c, b
<1>6. Headers(p, digits, keep) \in {l, c, b}
  BY <1>5, Zenon DEF Headers, l, c, b
<1> QED BY <1>2, <1>3, <1>4, <1>6

\* Whatever http_write_buffer() prints stays within write_buffer.
LEMMA ResponseType ==
  ASSUME WriteAssumption, NEW index \in 0..BufferSize, NEW keep \in BOOLEAN
  PROVE  /\ \A code \in Codes : Page(code, index, keep) \in Printings
         /\ \A file \in Files : FileHead(file, index, keep) \in Printings
<1>1. /\ "status" \in PagePieces /\ "content" \in PagePieces /\ "type" \in HeadPieces
  BY DEF PagePieces, HeadPieces
<1>2. StartAt(index) \in Printings
  <2>1. {} \in SUBSET (PagePieces \cup HeadPieces)
    OBVIOUS
  <2> QED BY <2>1 DEF StartAt, Printings
<1>3. ASSUME NEW code \in Codes PROVE StatusLine(StartAt(index), code) \in Printings
  BY <1>1, <1>2, Lengths, AddType DEF StatusLine
<1>4. ASSUME NEW code \in Codes PROVE Page(code, index, keep) \in Printings
  <2> DEFINE h == Headers(StatusLine(StartAt(index), code), 2, keep)
  <2>1. h \in Printings
    BY <1>3, HeadersType
  <2>2. FormLen[code] \in Nat
    BY Lengths
  <2> HIDE DEF h
  <2>3. Content(h, FormLen[code]) \in Printings
    BY <1>1, <2>1, <2>2, AddType DEF Content
  <2> QED BY <2>3 DEF Page, h
<1>5. ASSUME NEW file \in Files PROVE FileHead(file, index, keep) \in Printings
  <2> DEFINE s == StatusLine(StartAt(index), "FILE_REQUEST")
             t == ContentType(s, file.ext)
  <2>1. s \in Printings
    BY <1>3 DEF Codes
  <2>2. file.ext \in DOMAIN TypeLen /\ file.digits \in Nat
    BY DEF Files
  <2> HIDE DEF s
  <2>3. t \in Printings
    BY <1>1, <2>1, <2>2, Lengths, AddType DEF ContentType
  <2>4. Headers(t, file.digits, keep) \in Printings
    BY <2>2, <2>3, HeadersType
  <2> QED BY <2>4 DEF FileHead, s
<1> QED BY <1>4, <1>5

\* A piece that fits is printed.
LEMMA AddFits ==
  ASSUME WriteAssumption PROVE \A i, len \in Nat : i + len < BufferSize - 1 => Fits(i, len)
  BY DEF Fits, Room

\* Nothing of the texts is refused by a write_buffer that has room for the longest.
LongestResponse == 140

\* The headers, printed where there is room for them.
LEMMA HeadersFit ==
  ASSUME WriteAssumption, NEW p, p.index \in Nat, NEW digits \in Nat, NEW keep \in BOOLEAN,
         p.index + 44 + digits < BufferSize - 1
  PROVE  LET h == Headers(p, digits, keep)
         IN  /\ h.index = p.index + 18 + digits + (IF keep THEN 24 ELSE 19) + 2
             /\ h.pieces = p.pieces \cup {"length", "connection", "blank"}
<1> DEFINE l == ContentLength(p, digits)
           c == Keepalive(l, keep)
           b == BlankLine(c)
           k == IF keep THEN 24 ELSE 19
<1>1. k \in {19, 24}
  OBVIOUS
<1>2. l.ok = TRUE /\ l.index = p.index + (18 + digits) /\ l.pieces = p.pieces \cup {"length"}
  <2>1. 18 + digits \in Nat /\ p.index + (18 + digits) < BufferSize - 1
    OBVIOUS
  <2> QED BY <2>1, AddFits DEF ContentLength, Add
<1> HIDE DEF l
<1>3. c.ok = TRUE /\ c.index = l.index + k /\ c.pieces = l.pieces \cup {"connection"}
  <2> HIDE DEF k
  <2>1. l.index \in Nat /\ k \in Nat /\ l.index + k < BufferSize - 1
    BY <1>1, <1>2
  <2>2. c = Add(l, "connection", k)
    BY DEF Keepalive, k
  <2> QED BY <2>1, <2>2, AddFits DEF Add
<1> HIDE DEF c
<1>4. b.ok = TRUE /\ b.index = c.index + 2 /\ b.pieces = c.pieces \cup {"blank"}
  <2> HIDE DEF k
  <2>1. c.index \in Nat /\ c.index + 2 < BufferSize - 1
    BY <1>1, <1>2, <1>3
  <2> QED BY <2>1, AddFits DEF BlankLine, Add
<1>5. Headers(p, digits, keep) = b
  <2>1. l.ok /\ c.ok
    BY <1>2, <1>3
  <2> QED BY <2>1, Zenon DEF Headers, l, c
<1> HIDE DEF b
<1>6. b.index = p.index + 18 + digits + k + 2
  <2> HIDE DEF k
  <2> QED BY <1>1, <1>2, <1>3, <1>4
<1>7. b.pieces = p.pieces \cup {"length", "connection", "blank"}
  BY <1>2, <1>3, <1>4
<1> QED BY <1>5, <1>6, <1>7 DEF k

\* A response at the start of a write_buffer that is long enough is whole, and a page
\* ends where write_index stands.
LEMMA FreshResponse ==
  ASSUME WriteAssumption, BufferSize >= LongestResponse + 2, NEW keep \in BOOLEAN
  PROVE  /\ \A code \in Codes : /\ Page(code, 0, keep).pieces = PagePieces
                                /\ Page(code, 0, keep).index = PageLength(code, keep)
         /\ \A file \in Files : FileHead(file, 0, keep).pieces = HeadPieces
<1>1. StartAt(0).index = 0 /\ StartAt(0).pieces = {}
  BY DEF StartAt
<1>2. /\ \A code \in Codes : /\ TitleLen[code] \in 2..14 /\ FormLen[code] \in Nat
                             /\ 15 + TitleLen[code] + 46 + FormLen[code] <= LongestResponse
      /\ \A ext \in DOMAIN TypeLen : TypeLen[ext] \in 8..24
  BY DEF Codes, TitleLen, FormLen, TypeLen, LongestResponse
<1>3. ASSUME NEW code \in Codes
      PROVE  LET s == StatusLine(StartAt(0), code)
             IN  s.index = 15 + TitleLen[code] /\ s.pieces = {"status"}
  <2> DEFINE len == 15 + TitleLen[code]
  <2>1. len \in Nat /\ 0 + len < BufferSize - 1 /\ 0 + len = len
    BY <1>2 DEF LongestResponse
  <2>2. StatusLine(StartAt(0), code) = Add(StartAt(0), "status", len)
    BY DEF StatusLine
  <2> HIDE DEF len
  <2>3. LET q == Add(StartAt(0), "status", len)
        IN  q.index = 0 + len /\ q.pieces = {} \cup {"status"}
    BY <1>1, <2>1, AddFits DEF Add
  <2> QED BY <2>1, <2>2, <2>3 DEF len
<1>4. ASSUME NEW code \in Codes
      PROVE  /\ Page(code, 0, keep).pieces = PagePieces
             /\ Page(code, 0, keep).index = PageLength(code, keep)
  <2> DEFINE s == StatusLine(StartAt(0), code)
             h == Headers(s, 2, keep)
             q == Content(h, FormLen[code])
             t == TitleLen[code]
             k == IF keep THEN 24 ELSE 19
             m == FormLen[code]
  <2>1. /\ t \in 2..14 /\ m \in Nat /\ 15 + t + 46 + m <= 140 /\ k \in {19, 24}
        /\ BufferSize >= 142
    BY <1>2 DEF LongestResponse
  <2>2. s.index = 15 + t /\ s.pieces = {"status"}
    BY <1>3
  <2>3. Page(code, 0, keep) = q /\ q = Add(h, "content", m)
    BY DEF Page, Content
  <2>4. PageLength(code, keep) = 15 + t + 20 + k + 2 + m
    BY DEF PageLength
  <2> HIDE DEF s, q, t, m
  <2>5. s.index \in Nat /\ s.index + 44 + 2 < BufferSize - 1
    BY <2>1, <2>2
  <2>6. /\ h.index = s.index + 18 + 2 + k + 2
        /\ h.pieces = s.pieces \cup {"length", "connection", "blank"}
    BY <2>5, HeadersFit
  <2> HIDE DEF h, k
  <2>7. h.index \in Nat /\ h.index + m < BufferSize - 1
    BY <2>1, <2>2, <2>6
  <2>8. q.index = h.index + m /\ q.pieces = h.pieces \cup {"content"}
    BY <2>1, <2>3, <2>7, AddFits DEF Add
  <2>9. q.index = 15 + t + 20 + k + 2 + m
    BY <2>1, <2>2, <2>6, <2>8
  <2> QED BY <2>2, <2>3, <2>4, <2>6, <2>8, <2>9 DEF PagePieces
<1>5. ASSUME NEW file \in Files PROVE FileHead(file, 0, keep).pieces = HeadPieces
  <2> DEFINE s == StatusLine(StartAt(0), "FILE_REQUEST")
             n == TypeLen[file.ext]
             y == ContentType(s, file.ext)
  <2>1. file.ext \in DOMAIN TypeLen /\ file.digits \in 1..11 /\ n \in 8..24
    BY <1>2 DEF Files
  <2>2. s.index = 17 /\ s.pieces = {"status"}
    <3>1. "FILE_REQUEST" \in Codes /\ TitleLen["FILE_REQUEST"] = 2
      BY DEF Codes, TitleLen
    <3> QED BY <1>3, <3>1
  <2>3. y = Add(s, "type", 16 + n)
    BY DEF ContentType
  <2>4. FileHead(file, 0, keep) = Headers(y, file.digits, keep)
    BY DEF FileHead
  <2> HIDE DEF s, n, y
  <2>5. s.index \in Nat /\ 16 + n \in Nat /\ s.index + (16 + n) < BufferSize - 1 /\ BufferSize >= 142
    BY <2>1, <2>2 DEF LongestResponse
  <2>6. y.index = s.index + (16 + n) /\ y.pieces = {"status", "type"}
    BY <2>2, <2>3, <2>5, AddFits DEF Add
  <2>7. y.index \in Nat /\ file.digits \in Nat /\ y.index + 44 + file.digits < BufferSize - 1
    BY <2>1, <2>2, <2>5, <2>6
  <2>8. Headers(y, file.digits, keep).pieces = y.pieces \cup {"length", "connection", "blank"}
    BY <2>7, HeadersFit
  <2> QED BY <2>4, <2>6, <2>8 DEF HeadPieces
<1> QED BY <1>4, <1>5

TextOK == ret \in Codes /\ buffer \in Printings

\* What is printed stays within write_buffer.
LEMMA TextOKHolds ==
  ASSUME WriteAssumption PROVE Spec => []TextOK
<1>1. Init => TextOK
  <2>1. {} \in SUBSET (PagePieces \cup HeadPieces) /\ 0 \in 0..BufferSize
    OBVIOUS
  <2> QED BY <2>1 DEF Init, TextOK, Codes, StartAt, Printings
<1>2. TextOK /\ [Next]_vars => TextOK'
  <2> SUFFICES ASSUME TextOK, [Next]_vars PROVE TextOK'
    OBVIOUS
  <2>1. ASSUME NEW size \in FileLens, NEW keep \in BOOLEAN, Respond(size, keep)
        PROVE  TextOK'
    <3>1. buffer.index \in 0..BufferSize
      BY DEF TextOK, Printings
    <3>2. CASE \E code \in Codes : PrintPage(code, keep)
      BY <3>1, <3>2, ResponseType DEF PrintPage, TextOK
    <3>3. CASE \E file \in FileKinds : PrintHead(file, keep)
      BY <3>1, <3>3, ResponseType DEF PrintHead, TextOK, Codes
    <3> QED BY <2>1, <3>2, <3>3 DEF Respond
  <2>2. CASE buffer' = StartAt(0) /\ ret' = ret
    <3>1. {} \in SUBSET (PagePieces \cup HeadPieces) /\ 0 \in 0..BufferSize
      OBVIOUS
    <3> QED BY <2>2, <3>1 DEF TextOK, StartAt, Printings
  <2>3. CASE UNCHANGED text
    BY <2>3 DEF TextOK, text
  <2>4. (\E n \in 1..Len(Unsent) : Writev(n)) \/ InitConn
        => (buffer' = StartAt(0) \/ buffer' = buffer) /\ ret' = ret
    BY DEF Writev, InitConn, HttpReset, ResetIndex
  <2>5. Drain \/ EpollOut \/ WouldBlock \/ Fail \/ UNCHANGED vars => UNCHANGED text
    BY DEF Drain, EpollOut, WouldBlock, Fail, vars
  <2> QED BY <2>1, <2>2, <2>3, <2>4, <2>5 DEF Next, text
<1> QED BY <1>1, <1>2, PTL DEF Spec

\* Every variable keeps its type; in particular write_index stays within write_buffer.
THEOREM WriteTypeOK ==
  ASSUME WriteAssumption PROVE Spec => []TypeOK
<1>1. WInv /\ TextOK => TypeOK
  BY DEF WInv, CountsOK, TextOK, Printings, TypeOK
<1> QED BY <1>1, WriteInvariant, TextOKHolds, PTL

\* The text in write_buffer is that of the response whose sending has not begun.
Unbegun == Sending /\ received = <<>>
TextInv ==
  /\ pc = "idle" => buffer.index = 0
  /\ Unbegun => /\ ret \in Codes
                /\ m_file_size > 0 => buffer.pieces = HeadPieces
                /\ ~(m_file_size > 0) => /\ buffer.pieces = PagePieces
                                         /\ buffer.index = PageLength(ret, connect)

LEMMA TextInvHolds ==
  ASSUME WriteAssumption, BufferSize >= LongestResponse + 2
  PROVE  Spec => []TextInv
<1>1. Init => TextInv
  BY DEF Init, TextInv, Unbegun, Sending, StartAt
<1>2. WInv /\ TextInv /\ [Next]_vars => TextInv'
  <2> SUFFICES ASSUME WInv, TextInv, [Next]_vars PROVE TextInv'
    OBVIOUS
  <2>1. ASSUME NEW size \in FileLens, NEW keep \in BOOLEAN, Respond(size, keep)
        PROVE  TextInv'
    <3>1. buffer.index = 0 /\ size \in Nat
      BY <2>1, Sizes DEF Respond, TextInv
    <3>2. pc' # "idle" /\ m_file_size' = size /\ connect' = keep
      BY <2>1 DEF Respond
    <3>3. CASE size = 0 /\ \E code \in Codes : PrintPage(code, keep)
      <4>1. PICK code \in Codes : ret' = code /\ buffer' = Page(code, 0, keep)
        BY <3>1, <3>3 DEF PrintPage
      <4>2. buffer'.pieces = PagePieces /\ buffer'.index = PageLength(ret', connect')
        BY <3>2, <4>1, FreshResponse
      <4> QED BY <3>2, <3>3, <4>1, <4>2 DEF TextInv
    <3>4. CASE size > 0 /\ \E file \in FileKinds : PrintHead(file, keep)
      <4>1. PICK file \in FileKinds : ret' = "FILE_REQUEST" /\ buffer' = FileHead(file, 0, keep)
        BY <3>1, <3>4 DEF PrintHead
      <4>2. buffer'.pieces = HeadPieces /\ ret' \in Codes
        BY <4>1, FreshResponse DEF Codes
      <4> QED BY <3>2, <3>4, <4>2 DEF TextInv
    <3> QED BY <2>1, <3>3, <3>4 DEF Respond
  <2>2. ASSUME NEW n \in 1..Len(Unsent), Writev(n) PROVE TextInv'
    <3>1. received' # <<>>
      <4>1. got' = got + n /\ n > 0 /\ n \in Nat /\ got \in Nat
        BY <2>2, WritevUnits
      <4>2. Len(received') # 0
        BY <4>1 DEF got
      <4> QED BY <4>2, EmptySeq
    <3>2. pc' = "idle" => buffer' = StartAt(0)
      BY <2>2 DEF Writev, HttpReset, ResetIndex
    <3> QED BY <3>1, <3>2 DEF TextInv, Unbegun, StartAt
  <2>3. CASE InitConn
    BY <2>3 DEF InitConn, HttpReset, ResetIndex, StartAt, TextInv, Unbegun, Sending
  <2>4. CASE Drain \/ EpollOut \/ WouldBlock \/ Fail \/ UNCHANGED vars
    <3>1. /\ UNCHANGED <<ret, buffer, m_file_size, connect, received>>
          /\ pc' = "idle" => pc = "idle"
          /\ Sending' => Sending
      BY <2>4 DEF Drain, EpollOut, WouldBlock, Fail, vars, text, Sending
    <3> QED BY <3>1 DEF TextInv, Unbegun
  <2> QED BY <2>1, <2>2, <2>3, <2>4 DEF Next
<1> QED BY <1>1, <1>2, WriteInvariant, PTL DEF Spec

\* A client gets the head of its own response, whole, and nothing of the one before on
\* the connection, if write_buffer has room for the longest text (it has 1024 bytes).
THEOREM WriteHeadIsThisResponse ==
  ASSUME WriteAssumption, BufferSize >= LongestResponse + 2
  PROVE  Spec => []HeadIsThisResponse
<1>1. TextInv => HeadIsThisResponse
  BY DEF TextInv, Unbegun, Sending, HeadIsThisResponse, Built
<1> QED BY <1>1, TextInvHolds, PTL
==============================================================================
