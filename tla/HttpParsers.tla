------------------------------ MODULE HttpParsers ------------------------------
(****************************************************************************)
(* The receiver of the web server beside the first parser of the repository:   *)
(* both get the same segments of the same requests.                            *)
(****************************************************************************)
EXTENDS HttpParse

VARIABLE first      \* http_parse() of http_parse.c

First == INSTANCE FirstParser

ParsersInit == Init /\ first = First!Started

\* A step of the receiver in which nothing comes.
Alone(step) == step /\ UNCHANGED first

\* A step of both, in which recv() returns: neither is inside its loop.
Both(step, next) == ~first.running /\ step /\ first' = next

\* A turn of the loop in the first parser's parse_content().
FirstTurn == first.running /\ first' = First!parse_content(first) /\ UNCHANGED vars

ParsersNext ==
  \/ \E n \in 1..Len(stream) : Both(Read(n), First!Fed(first, SubSeq(stream, 1, n)))
  \/ Both(HangUp, First!Ended(first))
  \/ Both(HttpReset, First!Started)
  \/ Alone(RequestLine)
  \/ Alone(HeaderField)
  \/ Alone(HeadersEnd)
  \/ Alone(Content)
  \/ Alone(NoLine)
  \/ FirstTurn

ParsersSpec == ParsersInit /\ [][ParsersNext]_<<vars, first>>

(* However the bytes are cut into segments, the first parser accepts and       *)
(* rejects the same heads: it has an answer as soon as the receiver has one,   *)
(* or as soon as the receiver has only the body to wait for.                   *)
ParsersAgree ==
  pc = "read" /\ ~first.running /\ verdict # "CLOSED" =>
    IF check_state = "CONTENT"
    THEN first.ret = "success"
    ELSE /\ first.ret = "success" <=> asked
         /\ first.ret = "failure" <=> verdict = "BAD_REQUEST" /\ ~asked
==============================================================================
