------------------------------ MODULE FirstParser ------------------------------
(****************************************************************************)
(* src/src/http_parse/http_parse.c, from which the receiver of HttpParse was   *)
(* developed: http_parse() calls recv() and parses what has come until the     *)
(* head of a request is complete.  Its local variables are a record here, with *)
(* ret "success" for 0 and "failure" for -1, and running while it is in the    *)
(* loop of parse_content(); the units are those of HttpParse.                  *)
(****************************************************************************)
EXTENDS Integers, SequencesExt, FiniteSetsExt

\* Before the first recv(); main() leaves the request uninitialized.
Started == [buffer |-> <<>>, checked_index |-> 0, start_line |-> 0,
            check_state |-> "REQUESTLINE", connection |-> "unset", ret |-> "none",
            running |-> FALSE]

read_index(p) == Len(p.buffer)

-----------------------------------------------------------------------------

\* Mutant of LastCR: a CR at the end of what has come is an error.
LastCRBad == "BAD"

\* A CR at the end of what has come may be half of a line end.
LastCR == "OPEN"

Specials(p) == {i \in (p.checked_index + 1)..read_index(p) : p.buffer[i] \in {"CR", "LF"}}

\* parse_line(): the status, and checked_index after it.
parse_line(p) ==
  LET i  == Min(Specials(p))
      is(k, c) == k \in 1..read_index(p) /\ p.buffer[k] = c
  IN  IF Specials(p) = {} THEN <<"OPEN", read_index(p)>>
      ELSE CASE is(i, "CR") /\ i = read_index(p)   -> <<LastCR, i - 1>>
             [] is(i, "CR") /\ is(i + 1, "LF")     -> <<"OK", i + 1>>
             [] is(i, "LF") /\ is(i - 1, "CR")     -> <<"OK", i>>
             [] OTHER                              -> <<"BAD", i - 1>>

\* http_parse() returns.
Answer(p, ret) == [p EXCEPT !.ret = ret, !.running = FALSE]

parse_requestline(p, text) == IF text = <<"get">> THEN [p EXCEPT !.check_state = "HEADER"]
                                                  ELSE Answer(p, "failure")

\* Any value of a Connection header counts as keep-alive, and bodies are not known.
parse_headers(p, text) ==
  CASE text = <<>>                                    -> Answer(p, "success")
    [] text # <<>> /\ Head(text) \in {"keep", "close"} -> [p EXCEPT !.connection = "KEEP_ALIVE"]
    [] OTHER                                          -> p

\* A turn of the loop in parse_content() that has found a line.
Turn(p, stop) ==
  LET text == SubSeq(p.buffer, p.start_line + 1, stop - 2)
      next == [p EXCEPT !.checked_index = stop, !.start_line = stop]
  IN  IF p.check_state = "REQUESTLINE" THEN parse_requestline(next, text)
                                       ELSE parse_headers(next, text)

\* One turn of the loop; without a line it ends.
parse_content(p) ==
  LET line == parse_line(p)
      next == [p EXCEPT !.checked_index = line[2]]
  IN  CASE line[1] = "OK"   -> Turn(p, line[2])
        [] line[1] = "OPEN" -> [next EXCEPT !.running = FALSE]
        [] line[1] = "BAD"  -> Answer(next, "failure")

\* recv() returns a segment.
Fed(p, segment) == IF p.ret = "none"
                   THEN [p EXCEPT !.buffer = @ \o segment, !.running = TRUE]
                   ELSE p

\* recv() returns 0: http_parse() returns what it returns for a complete request.
Ended(p) == IF p.ret = "none" THEN Answer(p, "success") ELSE p
==============================================================================
