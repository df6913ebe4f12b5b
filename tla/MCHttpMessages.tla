---------------------------- MODULE MCHttpMessages ----------------------------
(****************************************************************************)
(* The two halves of an http_req_t, the receiver of HttpParsers and the sender *)
(* of HttpWrite, for TLC.  They share nothing that is modelled: the initial     *)
(* state says which of them runs, and the variables of the other stay as they   *)
(* are.                                                                       *)
(****************************************************************************)
EXTENDS HttpParsers

CONSTANTS HeadLen, FileLens, FileKinds, WriteBufferSize

VARIABLES running,      \* "receiver" or "sender"
          ret, buffer, m_iv, m_iv_count, m_file_size, mapped, keepAlive, full,
          received, firstTaken, result, place

parserVars == <<vars, first>>
senderVars == <<ret, buffer, m_iv, m_iv_count, m_file_size, mapped, keepAlive, full,
                received, firstTaken, result, place>>

\* HttpWrite, from the module of its theorems, which extends it.
Sender == INSTANCE HttpWrite_proof
            WITH BufferSize <- WriteBufferSize, connect <- keepAlive, first <- firstTaken,
                 pc <- place

ASSUME SenderAssumption == Sender!WriteAssumption

End == <<"CR", "LF">>

\* Heads of one or two fields, in both orders, with a repeated and an unknown one.
Fields == {<<>>} \cup {<<h>> \o End : h \in {"keep", "len", "text"}}
Heads  == {<<"get">> \o End \o a \o b \o End : a \in Fields, b \in Fields \cup {<<"close">> \o End}}

\* Bodies: text, line ends, and the beginning of a next request.
Bodies == {<<>>, <<"text", "text", "text">>, <<"CR", "LF", "text">>, <<"LF", "text", "CR">>,
           <<"text", "text", "text">> \o <<"get">> \o End}

\* Request lines that are none, and line ends that are broken.
Broken == {<<"text">> \o End \o End,
           End \o <<"get">> \o End,
           <<"get", "text">> \o End \o End,
           <<"get", "CR", "get", "CR", "LF">>,
           <<"get", "LF">> \o End,
           <<"get", "CR", "LF", "keep", "LF">> \o End,
           <<"get", "CR", "LF", "keep", "CR", "LF", "text", "CR">> \o End,
           <<"LF", "get">> \o End}

AllRequests == {h \o b : h \in Heads, b \in Bodies} \cup Broken

\* No file, files shorter than, as long as and longer than the head.
FileSizes == {0, 2, 3, 5}

\* The shortest and the longest head of a file.
Kinds == {[ext |-> "css", digits |-> 1], [ext |-> "other", digits |-> 11]}

-----------------------------------------------------------------------------

MessagesInit == /\ ParsersInit /\ Sender!Init
                /\ \/ running = "receiver"
                   \/ running = "sender" /\ stream = CHOOSE r \in Requests : TRUE

\* A step of the half that runs.
Receiving(step) == running = "receiver" /\ step /\ UNCHANGED <<running, senderVars>>
Sending(step)   == running = "sender" /\ step /\ UNCHANGED <<running, parserVars>>

ReceiverStep ==
  \/ \E n \in 1..Len(stream) :
       Receiving(Both(Read(n), First!Fed(first, SubSeq(stream, 1, n))))
  \/ Receiving(Both(HangUp, First!Ended(first)))
  \/ Receiving(Both(HttpReset, First!Started))
  \/ Receiving(Alone(RequestLine)) \/ Receiving(Alone(HeaderField))
  \/ Receiving(Alone(HeadersEnd)) \/ Receiving(Alone(Content))
  \/ Receiving(Alone(NoLine)) \/ Receiving(FirstTurn)

SenderStep ==
  \/ \E size \in FileLens, keep \in BOOLEAN : Sending(Sender!Respond(size, keep))
  \/ Sending(Sender!Drain) \/ Sending(Sender!EpollOut)
  \/ \E n \in 1..Len(Sender!Unsent) : Sending(Sender!Writev(n))
  \/ Sending(Sender!WouldBlock) \/ Sending(Sender!Fail) \/ Sending(Sender!InitConn)

MessagesSpec == /\ MessagesInit
                /\ [][ReceiverStep \/ SenderStep]_<<running, parserVars, senderVars>>
                /\ Sender!Fairness

-----------------------------------------------------------------------------

(* The type invariant of the sender, whose write_buffer has its real size. *)
SenderTypeOK == Sender!TypeOK

(* Wherever writev() stops, an entry that has data left ends where its buffer *)
(* ends, and the file entry points into a file that is still mapped.           *)
EntriesPointIntoBuffers == Sender!EntriesPointIntoBuffers

(* The head arrives intact, and the response in full when it is the head alone *)
(* or when the first writev() takes more than the head.                        *)
AllReceived == Sender!AllReceived

(* What the client has is a prefix of the response, and all of it when write() *)
(* takes the response for finished.                                            *)
PrefixReceived == Sender!PrefixReceived

(* A page whose content was accepted has all its lines.                        *)
ContentImpliesWhole == Sender!ContentImpliesWhole

(* The bytes that m_iv[0] covers were printed.                                 *)
OnlyPrintedIsSent == Sender!OnlyPrintedIsSent

(* And printed for this response, not for the one before it.                   *)
HeadIsThisResponse == Sender!HeadIsThisResponse

(* The loop of write(), on the only thread that serves every connection, ends. *)
WriteReturns == Sender!WriteReturns
==============================================================================
