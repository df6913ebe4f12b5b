----------------------------- MODULE ResponseBuffer -----------------------------
(****************************************************************************)
(* What http_write_buffer() of http_parse.hpp prints into write_buffer.  A      *)
(* response is printed piece by piece with add_response(), which refuses a      *)
(* piece that does not fit; of all its answers only the one for the content is  *)
(* looked at.  A piece is its name and the length of its text.                  *)
(*                                                                            *)
(* A printing is a record: index (write_index), end (where the last text in     *)
(* write_buffer ends), pieces (those that were accepted), ok (the answer of     *)
(* the last call).                                                             *)
(****************************************************************************)
EXTENDS Integers

CONSTANT BufferSize             \* HTTP_WRITE_BUFFER_SIZE

\* What the modules that use this one assume.
BufferAssumption == BufferSize \in Nat

Codes == {"INTERNAL_ERROR", "BAD_REQUEST", "FORBIDDEN_REQUEST", "NO_RESOURCE", "FILE_REQUEST"}

\* Extensions in file_types, "" for one that is not there, and the length of
\* the type that goes with each.
TypeLen == [html |-> 9, css |-> 8, js |-> 22, json |-> 16, xml |-> 15, jpg |-> 10,
            png |-> 9, gif |-> 9, pdf |-> 15, txt |-> 10, mp4 |-> 9, webm |-> 10,
            bin |-> 24, other |-> 24]

\* A file with a content: its extension and how many characters %d prints for
\* its size, which has become an int.
Files == [ext : DOMAIN TypeLen, digits : 1..11]

TitleLen == [INTERNAL_ERROR |-> 14, BAD_REQUEST |-> 11, FORBIDDEN_REQUEST |-> 9,
             NO_RESOURCE |-> 9, FILE_REQUEST |-> 2]

\* Mutant of FormLen: a short text for a page that may not be seen.
FormLenTerse == [INTERNAL_ERROR |-> 57, BAD_REQUEST |-> 68, FORBIDDEN_REQUEST |-> 8,
                 NO_RESOURCE |-> 49, FILE_REQUEST |-> 26]

\* Lengths of the pages that are not files; that of FILE_REQUEST is the page
\* sent for an empty file.
FormLen == [INTERNAL_ERROR |-> 57, BAD_REQUEST |-> 68, FORBIDDEN_REQUEST |-> 57,
            NO_RESOURCE |-> 49, FILE_REQUEST |-> 26]

-----------------------------------------------------------------------------

\* Room that add_response() gives vsnprintf(), its terminator included.
Room(index) == BufferSize - 1 - index

\* Mutant of Fits: the terminator is not counted.
FitsExactly(index, len) == index < BufferSize /\ len <= Room(index)

\* add_response() accepts a text of this length.
Fits(index, len) == index < BufferSize /\ len < Room(index)

\* vsnprintf() prints what there is room for, if there is any.
Printed(p, len) == IF p.index >= BufferSize THEN p.end
                   ELSE IF len < Room(p.index) THEN p.index + len
                   ELSE IF Room(p.index) > 0 THEN p.index + Room(p.index) - 1
                   ELSE p.index

Add(p, piece, len) ==
  [index  |-> IF Fits(p.index, len) THEN p.index + len ELSE p.index,
   end    |-> Printed(p, len),
   pieces |-> IF Fits(p.index, len) THEN p.pieces \cup {piece} ELSE p.pieces,
   ok     |-> Fits(p.index, len)]

StatusLine(p, code) == Add(p, "status", 15 + TitleLen[code])
ContentType(p, ext) == Add(p, "type", 16 + TypeLen[ext])
ContentLength(p, digits) == Add(p, "length", 18 + digits)
Keepalive(p, keep) == Add(p, "connection", IF keep THEN 24 ELSE 19)
BlankLine(p) == Add(p, "blank", 2)
Content(p, len) == Add(p, "content", len)

\* http_rep_headers(): && stops at the first that does not fit.
Headers(p, digits, keep) ==
  LET length     == ContentLength(p, digits)
      connection == Keepalive(length, keep)
  IN  CASE ~length.ok                    -> length
        [] length.ok /\ ~connection.ok   -> connection
        [] length.ok /\ connection.ok    -> BlankLine(connection)

\* Mutant of ResetIndex: the next response is printed after the last one.
KeepIndex(index) == index

\* write_index after http_reset().
ResetIndex(index) == 0

\* write_buffer before a response, from write_index on.
StartAt(index) == [index |-> index, end |-> index, pieces |-> {}, ok |-> TRUE]

\* A page of the server: every error, and a file without a content.
Page(code, index, keep) ==
  Content(Headers(StatusLine(StartAt(index), code), 2, keep), FormLen[code])

\* The head of a file; http_write_buffer() returns true whatever was printed.
FileHead(file, index, keep) ==
  Headers(ContentType(StatusLine(StartAt(index), "FILE_REQUEST"), file.ext), file.digits, keep)

-----------------------------------------------------------------------------

Starts == 0..BufferSize

PagePieces == {"status", "length", "connection", "blank", "content"}
HeadPieces == {"status", "type", "length", "connection", "blank"}

(* http_write_buffer() looks only at the answer for the content, and this is   *)
(* enough: wherever write_index stands, a page whose content was accepted has  *)
(* all its pieces, because the content is longer than each line before it.     *)
PageIsWhole(code, keep) ==
  \A index \in Starts : LET page == Page(code, index, keep)
                        IN  page.ok => page.pieces = PagePieces

(* What m_iv[0] will send, write_index bytes, is text that vsnprintf() printed *)
(* and never its terminator or what an earlier response left there.            *)
PageIsPrinted(code, keep) ==
  \A index \in Starts : LET page == Page(code, index, keep) IN page.index <= page.end

HeadIsPrinted(file, keep) ==
  \A index \in Starts : LET head == FileHead(file, index, keep) IN head.index <= head.end

\* The length of a page that starts a buffer.
PageLength(code, keep) == 15 + TitleLen[code] + 20 + (IF keep THEN 24 ELSE 19) + 2 + FormLen[code]
==============================================================================
