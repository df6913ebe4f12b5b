------------------------------- MODULE HttpParse -------------------------------
(****************************************************************************)
(* http_req_t of src/src/http_server/http_parse.hpp as a receiver: http_read() *)
(* puts what recv() returns into read_buffer, http_parse() consumes it line by *)
(* line, and http_reset() starts over.  The client's bytes arrive in segments *)
(* of any size.                                                               *)
(*                                                                            *)
(* A unit of the buffer is CR, LF, or a piece of text that the parser treats  *)
(* as one: "get" a well-formed request line, "keep" and "close" a Connection  *)
(* header, "len" a Content-Length header, "text" any other line or piece.     *)
(* checked_index, start_line and content are offsets in units.  The NULs that  *)
(* are written into the buffer, over a line end that has been passed and after *)
(* a body, fall on units that are not read again and are left out; the one     *)
(* that falls behind the buffer is not.                                       *)
(****************************************************************************)
EXTENDS Integers, SequencesExt

CONSTANTS Requests,      \* what a client may send: a set of sequences of units
          BodyLen,       \* the value of a Content-Length header
          BufferSize     \* HTTP_READ_BUFFER_SIZE

Units == {"CR", "LF", "get", "keep", "close", "len", "text"}

ASSUME ParseAssumption == /\ Requests \subseteq Seq(Units)
                          /\ BodyLen \in Nat \ {0} /\ BufferSize \in Nat \ {0}

VARIABLES stream,         \* units of the client that recv() has not returned
          read_buffer,    \* its first read_index units
          checked_index, start_line, check_state, line_status,
          connect, content_length,
          content,        \* where the body starts; 0, which no body has, is NULL
          asked,          \* do_request() has been called for this request
          cut,            \* a segment of this request ended inside its body
          verdict,        \* what http_parse() returned last; "CLOSED" once the
                          \* client has left
          pc              \* "read", or "parse" inside http_parse()

fields == <<connect, content_length, content>>
vars   == <<stream, read_buffer, checked_index, start_line, check_state, line_status,
            fields, asked, cut, verdict, pc>>

read_index == Len(read_buffer)

Answers == {"BAD_REQUEST", "FILE_REQUEST", "NO_RESOURCE", "FORBIDDEN_REQUEST"}

Init == /\ stream \in Requests
        /\ read_buffer = <<>>
        /\ checked_index = 0 /\ start_line = 0
        /\ check_state = "REQUESTLINE" /\ line_status = "OK"
        /\ connect = FALSE /\ content_length = 0 /\ content = 0
        /\ asked = FALSE /\ cut = FALSE
        /\ verdict = "NO_REQUEST"
        /\ pc = "read"

-----------------------------------------------------------------------------
(* The reference: what a text means, however it arrived. *)

LineEnds(s) == {i \in 1..(Len(s) - 1) : s[i] = "CR" /\ s[i + 1] = "LF"}

\* A CR or LF that is not part of a line end; a CR at the end may become one.
Stray(s) == {i \in 1..Len(s) : \/ s[i] = "CR" /\ i < Len(s) /\ i \notin LineEnds(s)
                               \/ s[i] = "LF" /\ i - 1 \notin LineEnds(s)}

\* The line end of the empty line that ends the head.
HeadEnds(s)   == {i \in LineEnds(s) : i - 2 \in LineEnds(s)}
HeadDone(s)   == \E i \in HeadEnds(s) : \A j \in Stray(s) : i < j
HeadLength(s) == CHOOSE n \in 1..Len(s) : /\ n - 1 \in HeadEnds(s)
                                          /\ \A i \in HeadEnds(s) : n - 1 <= i

\* The first line is there and is not a request line.
BadRequestLine(s) == \E i \in LineEnds(s) : /\ \A j \in LineEnds(s) \cup Stray(s) : i <= j
                                            /\ SubSeq(s, 1, i - 1) # <<"get">>

\* The header lines that are complete: the positions where they start.
Headers(s) == {i \in 1..Len(s) : /\ i - 2 \in LineEnds(s)
                                 /\ \E e \in LineEnds(s) : e > i
                                 /\ \A j \in Stray(s) : \E e \in LineEnds(s) : i < e /\ e < j
                                 /\ \A j \in HeadEnds(s) : i < j}

HasBody(s)   == \E i \in Headers(s) : s[i] = "len"
Malformed(s) == BadRequestLine(s) \/ (Stray(s) # {} /\ ~HeadDone(s))
Complete(s)  == /\ ~BadRequestLine(s) /\ HeadDone(s)
                /\ HasBody(s) => Len(s) >= HeadLength(s) + BodyLen

-----------------------------------------------------------------------------
(* http_read() *)

\* The text s ends inside a body.
InBody(s) == HeadDone(s) /\ HasBody(s) /\ ~Complete(s) /\ Len(s) > HeadLength(s)

Read(n) ==
  /\ pc = "read" /\ verdict = "NO_REQUEST"
  /\ n <= BufferSize - read_index
  /\ read_buffer' = read_buffer \o SubSeq(stream, 1, n)
  /\ cut' = (cut \/ InBody(read_buffer'))
  /\ stream' = SubSeq(stream, n + 1, Len(stream))
  /\ line_status' = "OK"
  /\ pc' = "parse"
  /\ UNCHANGED <<checked_index, start_line, check_state, fields, asked, verdict>>

-----------------------------------------------------------------------------
(* parse_line(): from checked_index to the next CR or LF *)

Special == {i \in (checked_index + 1)..read_index : read_buffer[i] \in {"CR", "LF"}}
Next1   == CHOOSE i \in Special : \A j \in Special : i <= j

Line(status, index) == [status |-> status, checked |-> index]

\* Mutant of AfterCR: checked_index is moved on once too often.
AfterCRTooFar(i) == CASE i = read_index              -> Line("OPEN", i - 1)
                      [] i < read_index /\ read_buffer[i + 1] = "LF" -> Line("OK", i + 2)
                      [] OTHER                       -> Line("BAD", i - 1)

\* Mutant of AfterCR: a CR at the end of the buffer is passed over.
AfterCRPassed(i) == CASE i = read_index              -> Line("OPEN", i)
                      [] i < read_index /\ read_buffer[i + 1] = "LF" -> Line("OK", i + 1)
                      [] OTHER                       -> Line("BAD", i - 1)

AfterCR(i) == CASE i = read_index                    -> Line("OPEN", i - 1)
                [] i < read_index /\ read_buffer[i + 1] = "LF" -> Line("OK", i + 1)
                [] OTHER                             -> Line("BAD", i - 1)

AfterLF(i) == IF i > 1 /\ read_buffer[i - 1] = "CR" THEN Line("OK", i) ELSE Line("BAD", i - 1)

ParseLine == IF Special = {} THEN Line("OPEN", read_index)
             ELSE IF read_buffer[Next1] = "CR" THEN AfterCR(Next1) ELSE AfterLF(Next1)

-----------------------------------------------------------------------------
(* http_parse(): one step for each turn of its loop *)

\* The line that ends where parse_line() stopped, without its line end.
Text(line) == SubSeq(read_buffer, start_line + 1, line.checked - 2)

Return(code) == /\ verdict' = code
                /\ pc' = "read"

\* do_request(): stat() and mmap() of the file decide.
DoRequest == /\ asked' = TRUE
             /\ \E code \in Answers : Return(code)

\* A turn of the loop after parse_line() found a line in the given state.
LineIn(state) == /\ pc = "parse"
                 /\ check_state = state
                 /\ ParseLine.status = "OK"
                 /\ checked_index' = ParseLine.checked
                 /\ start_line' = ParseLine.checked
                 /\ line_status' = "OK"
                 /\ UNCHANGED <<stream, read_buffer, cut>>

RequestLine ==
  /\ LineIn("REQUESTLINE")
  /\ IF Text(ParseLine) = <<"get">>
     THEN check_state' = "HEADER" /\ UNCHANGED <<verdict, pc>>
     ELSE Return("BAD_REQUEST") /\ UNCHANGED check_state
  /\ UNCHANGED <<fields, asked>>

HeaderField ==
  /\ LineIn("HEADER")
  /\ Text(ParseLine) # <<>>
  /\ LET name == Text(ParseLine)[1]
     IN  /\ connect' = IF name \in {"keep", "close"} THEN name = "keep" ELSE connect
         /\ content_length' = IF name = "len" THEN BodyLen ELSE content_length
  /\ UNCHANGED <<content, check_state, asked, verdict, pc>>

\* Mutant of HeadersEnd: the request is taken as complete at the empty line.
HeadersEndIsAll ==
  /\ LineIn("HEADER")
  /\ Text(ParseLine) = <<>>
  /\ DoRequest
  /\ UNCHANGED <<check_state, fields>>

HeadersEnd ==
  /\ LineIn("HEADER")
  /\ Text(ParseLine) = <<>>
  /\ IF content_length # 0
     THEN check_state' = "CONTENT" /\ UNCHANGED <<asked, verdict, pc>>
     ELSE DoRequest /\ UNCHANGED check_state
  /\ UNCHANGED fields

\* content[content_length] = '\0' for a body that ends at the given offset.  Behind a
\* full buffer that is the lowest byte of checked_index, which is at c.
AfterNul(end, c) == IF end = BufferSize THEN 0..c ELSE {c}

\* parse_content() with checked_index at c.  The turn after an incomplete body
\* finds line_status = LINE_OPEN and calls parse_line() on what there is of it.
ParseContent(c) ==
  /\ pc = "parse" /\ check_state = "CONTENT"
  /\ start_line' = c
  /\ content' = IF content = 0 THEN start_line ELSE content
  /\ IF read_index >= content_length + c
     THEN /\ checked_index' \in AfterNul(content' + content_length, c)
          /\ DoRequest
          /\ UNCHANGED line_status
     ELSE checked_index' = c /\ line_status' = "OPEN" /\ UNCHANGED <<asked, verdict, pc>>
  /\ UNCHANGED <<stream, read_buffer, check_state, connect, content_length, cut>>

Content == \/ line_status = "OK" /\ ParseContent(checked_index)
           \/ line_status # "OK" /\ ParseLine.status = "OK" /\ ParseContent(ParseLine.checked)

\* No further line: the loop ends and http_parse() returns.
NoLine ==
  /\ pc = "parse"
  /\ ~(check_state = "CONTENT" /\ line_status = "OK")
  /\ ParseLine.status # "OK"
  /\ checked_index' = ParseLine.checked
  /\ line_status' = ParseLine.status
  /\ Return(IF ParseLine.status = "OPEN" THEN "NO_REQUEST" ELSE "BAD_REQUEST")
  /\ UNCHANGED <<stream, read_buffer, start_line, check_state, fields, asked, cut>>

-----------------------------------------------------------------------------

\* Mutant of ResetFields: the header fields of the last request are kept.
KeepFields == UNCHANGED fields

ResetFields == connect' = FALSE /\ content_length' = 0 /\ content' = 0

\* recv() returns 0 or an error: the connection is closed, its object stays.
HangUp == /\ pc = "read" /\ verdict = "NO_REQUEST"
          /\ verdict' = "CLOSED"
          /\ UNCHANGED <<stream, read_buffer, checked_index, start_line, check_state,
                         line_status, fields, asked, cut, pc>>

\* What the object reads after http_reset(): the client's remaining units as its
\* next request if write() keeps the connection, or the request of another client
\* once the connection is closed, as it may be at any time.
NextStreams == Requests \cup {s \in {stream} : connect /\ verdict # "CLOSED" /\ s # <<>>}

\* http_reset(), after a response or for a new connection.
HttpReset ==
  /\ pc = "read" /\ verdict # "NO_REQUEST"
  /\ stream' \in NextStreams
  /\ read_buffer' = <<>>
  /\ checked_index' = 0 /\ start_line' = 0
  /\ check_state' = "REQUESTLINE" /\ line_status' = "OK"
  /\ ResetFields
  /\ asked' = FALSE /\ cut' = FALSE
  /\ verdict' = "NO_REQUEST"
  /\ UNCHANGED pc

Next == \/ \E n \in 1..Len(stream) : Read(n)
        \/ RequestLine
        \/ HeaderField
        \/ HeadersEnd
        \/ Content
        \/ NoLine
        \/ HangUp
        \/ HttpReset

Spec == Init /\ [][Next]_vars

-----------------------------------------------------------------------------

TypeOK == /\ read_index <= BufferSize
          /\ checked_index \in 0..read_index
          /\ start_line \in 0..read_index /\ (~asked => start_line <= checked_index)
          /\ content \in 0..start_line
          /\ asked /\ content # 0 => content + content_length <= read_index
          /\ check_state \in {"REQUESTLINE", "HEADER", "CONTENT"}
          /\ line_status \in {"OK", "OPEN", "BAD"}
          /\ connect \in BOOLEAN /\ content_length \in {0, BodyLen}
          /\ asked \in BOOLEAN /\ cut \in BOOLEAN
          /\ verdict \in Answers \cup {"NO_REQUEST", "CLOSED"}
          /\ pc \in {"read", "parse"}

(* The verdict does not depend on how the bytes were cut into segments, as    *)
(* long as none ends inside a body: after each call it is the one that the    *)
(* text received so far has.                                                  *)
SegmentsIrrelevant ==
  pc = "read" /\ ~cut => /\ asked <=> Complete(read_buffer)
                 /\ verdict = "BAD_REQUEST" /\ ~asked <=> Malformed(read_buffer)

(* The keep-alive decision is that of the last Connection header among the    *)
(* lines received for this request, and of no earlier request.                *)
ConnectionHeaders(s) == {i \in Headers(s) : s[i] \in {"keep", "close"}}
KeepAliveOfThisRequest ==
  pc = "read" /\ (asked \/ verdict = "NO_REQUEST") =>
    connect = \E i \in ConnectionHeaders(read_buffer) :
                 read_buffer[i] = "keep" /\ \A j \in ConnectionHeaders(read_buffer) : j <= i

(* do_request() looks for a file only when all of the request is there, also   *)
(* when a body that came in parts has been searched for line ends.  (A stray   *)
(* line end in such a body is answered 400 at once.)                          *)
FileOnlyForWhole == pc = "read" /\ asked => Complete(read_buffer)

(* What the comment at http_parse.hpp:596 says: after a head with             *)
(* Content-Length, the content_length bytes of the body are read.  So a       *)
(* request that has arrived completely is answered.                           *)
CompleteIsAnswered == pc = "read" /\ Complete(read_buffer) => verdict # "NO_REQUEST"
==============================================================================
