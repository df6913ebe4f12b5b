------------------------------- MODULE HttpWrite -------------------------------
(****************************************************************************)
(* One http_conn as a sender: http_write_buffer() of http_parse.hpp fills m_iv *)
(* with the head in write_buffer (ResponseBuffer) and the mapped file, write() *)
(* of http_conn.hpp calls writev() until the socket takes no more, and         *)
(* http_write() moves m_iv past what was sent.  The threads around it are      *)
(* those of HttpServer.                                                       *)
(*                                                                            *)
(* A unit of the response is <<"head", i>> or <<"file", i>>.                   *)
(*                                                                            *)
(* pc: "idle"  reset, waiting for a request    "armed" EPOLLOUT is awaited    *)
(*     "write" in the loop of write()                                         *)
(*     "closed" the connection is closed, its object not reset                *)
(****************************************************************************)
EXTENDS Integers, SequencesExt, ResponseBuffer

CONSTANTS HeadLen,       \* units that writev() tells apart in a head
          FileLens,      \* sizes of the files in such units, 0 for a response without one
          FileKinds      \* extensions and digits of the files' sizes

\* What the modules that use this one assume.
WriteAssumption == /\ BufferAssumption
                   /\ HeadLen \in Nat \ {0} /\ FileLens \subseteq Nat
                   /\ FileKinds \subseteq Files

VARIABLES ret,                \* what http_parse() returned for the last request
          buffer,             \* what was printed into write_buffer for it
          m_iv,               \* iov_base (an offset) and iov_len of both entries
          m_iv_count,
          m_file_size,        \* size of this response's file, 0 when it has none
          mapped,             \* m_file_address is not NULL
          connect,            \* the connection is kept alive
          full,               \* the socket has no room: writev() would block
          received,           \* units of this response that the client got
          first,              \* how many of them the first writev() took
          result,             \* how the last response ended: "none", "sent", "failed"
          pc

text == <<ret, buffer>>
vars == <<text, m_iv, m_iv_count, m_file_size, mapped, connect,
          full, received, first, result, pc>>

Entry(base, len) == [base |-> base, len |-> len]
Empty == Entry(0, 0)

Init == /\ ret = "FILE_REQUEST"
        /\ buffer = StartAt(0)
        /\ m_iv = <<Empty, Empty>>
        /\ m_iv_count = 0
        /\ m_file_size = 0
        /\ mapped = FALSE
        /\ connect = FALSE
        /\ full = FALSE
        /\ received = <<>> /\ first = 0
        /\ result = "none"
        /\ pc = "idle"

Head0 == [i \in 1..HeadLen |-> <<"head", i>>]
File0 == [i \in 1..m_file_size |-> <<"file", i>>]
Response == Head0 \o File0

Unsent == SubSeq(Head0, m_iv[1].base + 1, m_iv[1].base + m_iv[1].len)
          \o SubSeq(File0, m_iv[2].base + 1, m_iv[2].base + m_iv[2].len)

-----------------------------------------------------------------------------

\* http_write_buffer() after a request: what it prints for a page of the server,
\* or for a file.
PrintPage(code, keep) == /\ ret' = code
                         /\ buffer' = Page(code, buffer.index, keep)
PrintHead(file, keep) == /\ ret' = "FILE_REQUEST"
                         /\ buffer' = FileHead(file, buffer.index, keep)

\* do_request() and http_write_buffer(), by a worker; process() closes the
\* connection when the content of a page was refused.
Respond(size, keep) ==
  /\ pc = "idle"
  /\ m_file_size' = size
  /\ mapped' = (size > 0)
  /\ \/ size = 0 /\ \E code \in Codes : PrintPage(code, keep)
     \/ size > 0 /\ \E file \in FileKinds : PrintHead(file, keep)
  /\ IF size > 0 \/ buffer'.ok
     THEN /\ m_iv' = <<Entry(0, HeadLen), Entry(0, size)>>
          /\ m_iv_count' = IF size > 0 THEN 2 ELSE 1
          /\ result' = "none"
          /\ pc' = "armed"
     ELSE /\ result' = "failed"
          /\ pc' = "closed"
          /\ UNCHANGED <<m_iv, m_iv_count>>
  /\ connect' = keep
  /\ received' = <<>> /\ first' = 0
  /\ UNCHANGED full

\* The client takes what is in the socket.
Drain == /\ full
         /\ full' = FALSE
         /\ UNCHANGED <<text, m_iv, m_iv_count, m_file_size, mapped,
                        connect, received, first, result, pc>>

EpollOut == /\ pc = "armed" /\ ~full
            /\ pc' = "write"
            /\ UNCHANGED <<text, m_iv, m_iv_count, m_file_size, mapped,
                           connect, full, received, first, result>>

\* Mutant of Passed: the length is subtracted without a comparison.
PassedUnchecked(e, n) == [entry |-> Entry(e.base + n, e.len - n), rest |-> n]

\* Mutant of Passed: the length of an entry shrinks but its base stays.
PassedLenOnly(e, n) == IF n > e.len THEN [entry |-> Empty, rest |-> n - e.len]
                                    ELSE [entry |-> Entry(e.base, e.len - n), rest |-> n]

\* One turn of the for loop of http_write(): entry e after n units more.  The
\* else branch leaves bytes_to_send as it is.
Passed(e, n) == CASE e.len = 0               -> [entry |-> e, rest |-> n]
                  [] e.len > 0 /\ n > e.len  -> [entry |-> Empty, rest |-> n - e.len]
                  [] e.len > 0 /\ n <= e.len -> [entry |-> Entry(e.base + n, e.len - n), rest |-> n]

\* m_iv after writev() has sent n units.
Advanced(n) == LET toHead == Passed(m_iv[1], n)
               IN  <<toHead.entry,
                     IF m_iv_count = 2 THEN Passed(m_iv[2], toHead.rest).entry ELSE m_iv[2]>>

\* Mutant of Unmap: the file stays mapped.
NoUnmap == UNCHANGED mapped

\* unmap() as http_reset() calls it.
Unmap == mapped' = FALSE

HttpReset == /\ m_iv' = <<Empty, Empty>>
             /\ buffer' = StartAt(ResetIndex(buffer.index))
             /\ connect' = FALSE
             /\ Unmap
             /\ pc' = "idle"

\* writev() sends n units; when nothing is left the response is finished.
\* http_write() calls unmap() when m_iv was empty before the call: never here.
Writev(n) ==
  /\ pc = "write" /\ ~full
  /\ received' = received \o SubSeq(Unsent, 1, n)
  /\ first' = IF received = <<>> THEN n ELSE first
  /\ full' \in BOOLEAN
  /\ IF \A i \in 1..2 : Advanced(n)[i].len = 0
     THEN /\ result' = "sent"
          /\ IF connect THEN HttpReset
                        ELSE /\ m_iv' = Advanced(n)
                             /\ pc' = "closed"
                             /\ UNCHANGED <<buffer, mapped, connect>>
     ELSE /\ m_iv' = Advanced(n)
          /\ UNCHANGED <<buffer, mapped, connect, result, pc>>
  /\ UNCHANGED <<ret, m_iv_count, m_file_size>>

\* Mutant of WouldBlock: write() tries again at once.
TryAgain == pc = "write" /\ full /\ UNCHANGED vars

\* EAGAIN: modfd(EPOLLOUT).
WouldBlock == /\ pc = "write" /\ full
              /\ pc' = "armed"
              /\ UNCHANGED <<text, m_iv, m_iv_count, m_file_size, mapped,
                             connect, full, received, first, result>>

\* writev() fails, or the reactor sees the client gone: close_conn().
Fail == /\ pc \in {"armed", "write"}
        /\ result' = "failed"
        /\ pc' = "closed"
        /\ UNCHANGED <<text, m_iv, m_iv_count, m_file_size, mapped,
                       connect, full, received, first>>

\* init() of the next connection that has this descriptor.
InitConn == /\ pc = "closed"
            /\ HttpReset
            /\ full' = FALSE
            /\ UNCHANGED <<ret, m_iv_count, m_file_size, received, first, result>>

Next == \/ \E size \in FileLens, keep \in BOOLEAN : Respond(size, keep)
        \/ Drain
        \/ EpollOut
        \/ \E n \in 1..Len(Unsent) : Writev(n)
        \/ WouldBlock
        \/ Fail
        \/ InitConn

\* The thread inside write() goes on; clients and the kernel need do nothing.
WriteStep == (\E n \in 1..Len(Unsent) : Writev(n)) \/ WouldBlock

Fairness == WF_vars(WriteStep)

Spec == Init /\ [][Next]_vars /\ Fairness

-----------------------------------------------------------------------------

TypeOK == /\ ret \in Codes
          /\ buffer \in [index : 0..BufferSize, end : 0..BufferSize, ok : BOOLEAN,
                         pieces : SUBSET (PagePieces \cup HeadPieces)]
          /\ m_iv \in [1..2 -> [base : Nat, len : Nat]]
          /\ m_iv_count \in 0..2
          /\ m_file_size \in FileLens \cup {0}
          /\ mapped \in BOOLEAN /\ connect \in BOOLEAN /\ full \in BOOLEAN
          /\ first \in Nat
          /\ result \in {"none", "sent", "failed"}
          /\ pc \in {"idle", "armed", "write", "closed"}

\* A response was built and nothing of it is sent yet.
Built == pc = "armed" /\ received = <<>>

(* A page that http_write_buffer() accepts has all its lines, although it looks *)
(* only at the answer for the content, whatever write_index was.               *)
ContentImpliesWhole == Built /\ m_file_size = 0 => PageIsWhole(ret, connect)

(* The bytes that m_iv[0] covers were printed: those of this response, and of   *)
(* any page or head of its kind, wherever write_index stood before it.         *)
OnlyPrintedIsSent ==
  Built => /\ buffer.index <= buffer.end
           /\ IF m_file_size = 0 THEN PageIsPrinted(ret, connect)
              ELSE \A file \in FileKinds : HeadIsPrinted(file, connect)

(* m_iv[0] starts at write_buffer and ends at write_index, so a client gets    *)
(* this response, whole, and none of the one before on the same connection.    *)
HeadIsThisResponse ==
  Built => IF m_file_size > 0
           THEN buffer.pieces = HeadPieces
           ELSE buffer.pieces = PagePieces /\ buffer.index = PageLength(ret, connect)

(* Wherever writev() stops, an entry that has data left ends where its buffer *)
(* ends, and the file entry points into a file that is still mapped; a reset  *)
(* object maps nothing, so do_request() never loses a mapping.                *)
EntriesPointIntoBuffers ==
  /\ m_iv[1].len > 0 => m_iv[1].base + m_iv[1].len = HeadLen
  /\ m_iv[2].len > 0 => m_iv[2].base + m_iv[2].len = m_file_size /\ mapped
  /\ pc = "idle" => ~mapped

(* What the client has is a prefix of the response, and all of it when write()*)
(* takes the response for finished (http_conn.hpp:149).                       *)
PrefixReceived == /\ IsPrefix(received, Response)
                  /\ result = "sent" => received = Response

(* The head comes first and undisturbed, even when a writev() stops inside it,  *)
(* and after it nothing but units of the file.                                 *)
HeadIntact == \A i \in 1..Len(received) :
                 IF i <= HeadLen THEN received[i] = <<"head", i>> ELSE received[i][1] = "file"

(* Wherever the writev()s stop, the head arrives intact, and all of the        *)
(* response does when it is the head alone or when the first writev() takes    *)
(* more than the head.                                                        *)
HeadAtOnce == first = 0 \/ first > HeadLen \/ m_iv_count = 1
AllReceived == HeadIntact /\ (HeadAtOnce => PrefixReceived)

(* The loop in write() ends: the reactor comes back to its other connections. *)
WriteReturns == pc = "write" ~> pc \in {"armed", "idle", "closed"}
==============================================================================
