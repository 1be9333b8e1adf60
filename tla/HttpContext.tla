----------------------------- MODULE HttpContext -----------------------------
(***************************************************************************)
(* One HTTP connection of the server: TcpConnection::HandleRead fills the  *)
(* input buffer with whatever has arrived, HttpCodec::OnMessage drives the *)
(* parser over it.  The client sends a few messages back to back; how many *)
(* of their bytes a read returns is left open.                             *)
(*                                                                         *)
(* A byte is CR, LF, a body byte, or stands for the text of a line: of the *)
(* text only what the parser looks for matters, its spaces, its colon and  *)
(* the number after "content-length:".                                     *)
(*                                                                         *)
(* Every iteration of the loops in OnMessage and ParseRequest is a step.   *)
(*   pc = "poll"     waiting in HandleRead's loop for the next ReadFd      *)
(*   pc = "codec"    at the head of OnMessage's loop                       *)
(*   pc = "parse"    at the head of ParseRequest's loop                    *)
(*   pc = "parsed"   ParseRequest has returned true                        *)
(*   pc = "invalid"  ParseRequest has returned false                       *)
(***************************************************************************)
EXTENDS Buffer, SequencesExt

CONSTANTS
    Messages,    \* what a client may send: [lines, body, bytes, request]
    MaxMessages, \* bound: messages on one connection
    InitSize,    \* kInitBufferSize
    Extra,       \* size of ReadFd's stack buffer
    Malformed,   \* not a request, not a number
    None         \* no content-length among the headers

ASSUME ConstantsAssumption ==
    /\ InitSize \in Nat /\ Extra \in Nat /\ MaxMessages \in Nat
    /\ {Malformed, None} \cap Int = {} /\ Malformed # None

VARIABLES
    sent,        \* the messages of the client, in order
    pos,         \* bytes of them that have been read
    buf,         \* input_buffer_
    state_,      \* HttpContext::state_
    request_,    \* HttpContext::request_
    pc,
    delivered,   \* history: requests given to http_callback_
    rejected     \* a 400 has been sent and Shutdown() called

httpVars == <<sent, pos, buf, state_, request_, pc, delivered, rejected>>

ParseStates == {"kExpectRequestLine", "kExpectHeaders", "kExpectBody", "kGotAll"}

-----------------------------------------------------------------------------
(* The text of lines.                                                      *)

Spaces == [t \in {"get", "post"} |-> 2]
Lengths == [cl0 |-> 0, cl1 |-> 1, cl2 |-> 2, clneg |-> -1, clbad |-> Malformed]
Colons == {"host"} \cup DOMAIN Lengths

\* Two spaces separate method, URL and version.
ProcessRequestLine(line) ==
    FoldLeft(LAMBDA n, t : IF t \in DOMAIN Spaces THEN n + Spaces[t] ELSE n, 0, line) >= 2

HasColon(line) == \E i \in DOMAIN line : line[i] \in Colons

\* The key is the text before the first colon, so only the line's start counts.
IsContentLength(line) == line[1] \in DOMAIN Lengths

NoRequest == [line |-> <<>>, length |-> None, body |-> <<>>]

-----------------------------------------------------------------------------
(* What a client may send: a request line, headers, none of them empty, an *)
(* empty line and a body of the length that the headers declare; or the    *)
(* same with a line that is wrong, and then its request is Malformed.      *)

Encoded(lines, body) ==
    FlattenSeq([i \in 1..(Len(lines) + 1) |-> Append(lines, <<>>)[i] \o <<CR, LF>>]) \o body

IsSeq(s) == s \in Seq(Range(s))
IsText(line) == IsSeq(line) /\ \A i \in 1..(Len(line) - 1) : ~(line[i] = CR /\ line[i + 1] = LF)

\* The last length that the lines 2..n declare.
DeclaredLength(lines, n) ==
    LET at == {i \in 2..n : IsContentLength(lines[i])}
    IN  IF at = {} THEN None ELSE Lengths[lines[Max(at)][1]]

\* The first n lines are as they should be.
GoodLines(lines, n) ==
    ProcessRequestLine(lines[1]) /\ \A i \in 2..n : HasColon(lines[i])

IsMessage(m) ==
    LET length == DeclaredLength(m.lines, Len(m.lines))
    IN  /\ IsSeq(m.lines) /\ m.lines # <<>> /\ \A i \in DOMAIN m.lines : IsText(m.lines[i])
        /\ \A i \in 2..Len(m.lines) : m.lines[i] # <<>>
        /\ IsSeq(m.body) /\ m.bytes = Encoded(m.lines, m.body)
        /\ IF GoodLines(m.lines, Len(m.lines)) /\ length # Malformed
           THEN /\ m.request = [line |-> m.lines[1], body |-> m.body]
                /\ m.request # Malformed
                /\ Len(m.body) = IF length = None \/ length < 0 THEN 0 ELSE length
           ELSE m.request = Malformed

ASSUME MessagesAssumption == \A m \in Messages : IsMessage(m)

-----------------------------------------------------------------------------

HttpInit ==
    /\ sent \in BoundedSeq(Messages, MaxMessages)
    /\ pos = 0
    /\ buf = NewBuffer(InitSize)
    /\ state_ = "kExpectRequestLine"
    /\ request_ = NoRequest
    /\ pc = "poll"
    /\ delivered = <<>>
    /\ rejected = FALSE

Stream == FlattenSeq([i \in DOMAIN sent |-> sent[i].bytes])

\* One round of HandleRead's loop.  Shutdown() closes only the write side, so
\* reading goes on after a 400.
Read(n) ==
    /\ pc = "poll"
    /\ n <= ReadvLimit(buf, Extra)
    /\ pos + n <= Len(Stream)
    /\ buf' = ReadFd(buf, SubSeq(Stream, pos + 1, pos + n))
    /\ pos' = pos + n
    /\ pc' = "codec"
    /\ UNCHANGED <<sent, state_, request_, delivered, rejected>>

CodecLoop ==
    /\ pc = "codec"
    /\ pc' = IF ReadableBytes(buf) > 0 THEN "parse" ELSE "poll"
    /\ UNCHANGED <<sent, pos, buf, state_, request_, delivered, rejected>>

-----------------------------------------------------------------------------
(* ParseRequest.                                                           *)

Line == SubSeq(Readable(buf), 1, FindCRLF(buf))

ExpectRequestLine ==
    /\ pc = "parse" /\ state_ = "kExpectRequestLine"
    /\ \/ /\ ~HasCRLF(buf)
          /\ pc' = "parsed"
          /\ UNCHANGED <<buf, state_, request_>>
       \/ /\ HasCRLF(buf) /\ ~ProcessRequestLine(Line)
          /\ pc' = "invalid"                    \* the line stays in the buffer
          /\ UNCHANGED <<buf, state_, request_>>
       \/ /\ HasCRLF(buf) /\ ProcessRequestLine(Line)
          /\ request_' = [request_ EXCEPT !.line = Line]
          /\ buf' = RetrieveUntil(buf, FindCRLF(buf))
          /\ state_' = "kExpectHeaders"
          /\ UNCHANGED pc
    /\ UNCHANGED <<sent, pos, delivered, rejected>>

\* The empty line: what follows depends on the length, which stoi may refuse.
\* A refused or non-positive length completes the message all the same.
AfterHeaders(length) ==
    IF length \notin {None, Malformed} /\ length > 0
    THEN [state |-> "kExpectBody", pc |-> "parse"]
    ELSE [state |-> "kGotAll", pc |-> IF length = Malformed THEN "invalid" ELSE "parsed"]

ExpectHeaders ==
    /\ pc = "parse" /\ state_ = "kExpectHeaders"
    /\ \/ /\ ~HasCRLF(buf)
          /\ pc' = "parsed"
          /\ UNCHANGED <<buf, state_, request_>>
       \/ /\ HasCRLF(buf) /\ Line = <<>>
          /\ buf' = RetrieveUntil(buf, FindCRLF(buf))
          /\ state_' = AfterHeaders(request_.length).state
          /\ pc' = AfterHeaders(request_.length).pc
          /\ UNCHANGED request_
       \/ /\ HasCRLF(buf) /\ Line # <<>>
          /\ request_' = IF IsContentLength(Line)
                         THEN [request_ EXCEPT !.length = Lengths[Line[1]]]
                         ELSE request_
          /\ pc' = IF HasColon(Line) THEN "parse" ELSE "invalid"
          /\ buf' = RetrieveUntil(buf, FindCRLF(buf))
          /\ UNCHANGED state_
    /\ UNCHANGED <<sent, pos, delivered, rejected>>

ExpectBody ==
    /\ pc = "parse" /\ state_ = "kExpectBody"
    /\ pc' = "parsed"
    /\ IF ReadableBytes(buf) >= request_.length
       THEN /\ request_' = [request_ EXCEPT !.body = SubSeq(Readable(buf), 1, request_.length)]
            /\ buf' = Retrieve(buf, request_.length)
            /\ state_' = "kGotAll"
       ELSE UNCHANGED <<buf, state_, request_>>
    /\ UNCHANGED <<sent, pos, delivered, rejected>>

\* No branch of the loop is for a message that is already complete, and
\* nothing ends the loop.
NoBranch ==
    /\ pc = "parse" /\ state_ = "kGotAll"
    /\ UNCHANGED httpVars

-----------------------------------------------------------------------------
(* The rest of OnMessage.                                                  *)

\* Variant: the headers of the last request are kept.
ResetKeepsHeaders ==
    [state |-> "kExpectRequestLine", request |-> [NoRequest EXCEPT !.length = request_.length]]

\* Variant: only the request is cleared.
ResetKeepsState == [state |-> state_, request |-> NoRequest]

Reset == [state |-> "kExpectRequestLine", request |-> NoRequest]

GotAll ==
    /\ pc = "parsed" /\ state_ = "kGotAll"
    /\ delivered' = Append(delivered, [line |-> request_.line, body |-> request_.body])
    /\ state_' = Reset.state
    /\ request_' = Reset.request
    /\ pc' = "codec"
    /\ UNCHANGED <<sent, pos, buf, rejected>>

HalfMessage ==
    /\ pc = "parsed" /\ state_ # "kGotAll"
    /\ pc' = "poll"
    /\ UNCHANGED <<sent, pos, buf, state_, request_, delivered, rejected>>

\* 400 and Shutdown(); the parser is left as it is.
BadRequest ==
    /\ pc = "invalid"
    /\ rejected' = TRUE
    /\ pc' = "poll"
    /\ UNCHANGED <<sent, pos, buf, state_, request_, delivered>>

OnMessage ==
    \/ CodecLoop
    \/ ExpectRequestLine
    \/ ExpectHeaders
    \/ ExpectBody
    \/ NoBranch
    \/ GotAll
    \/ HalfMessage
    \/ BadRequest

HttpNext == (\E n \in 1..Len(Stream) : Read(n)) \/ OnMessage

HttpSpec == HttpInit /\ [][HttpNext]_httpVars

\* The loop thread goes on with the handler it is in; nobody owes it data.
FairHttpSpec == HttpSpec /\ WF_httpVars(OnMessage)

-----------------------------------------------------------------------------
(* Properties.                                                             *)

\* The readable part of the input buffer is exactly the end of what has been
\* read from the socket: growing, moving the bytes to the front and the detour
\* through the stack buffer (Buffer::MakeSpace, ReadFd) neither lose, repeat
\* nor overwrite a byte that the parser has not consumed.
BufferHoldsRest ==
    /\ 0 <= buf.read /\ buf.read <= buf.write /\ buf.write <= Len(buf.bytes)
    /\ Readable(buf) = SubSeq(Stream, pos - ReadableBytes(buf) + 1, pos)

\* The messages before the first malformed one, and where message k ends.
FirstMalformed == SelectInSeq(sent, LAMBDA m : m.request = Malformed)
ValidMessages ==
    IF FirstMalformed = 0 THEN sent ELSE SubSeq(sent, 1, FirstMalformed - 1)
End(k) == Len(FlattenSeq([i \in 1..k |-> sent[i].bytes]))

\* Up to the first 400 the callback gets the requests that were sent, in order,
\* each with its own body, however the bytes were cut and joined; between two
\* reads it has got every request that has arrived completely; and a 400 is
\* only sent to a client that did send something malformed.
RequestsAsSent ==
    LET complete == {k \in DOMAIN ValidMessages : End(k) <= pos}
        asSent   == [i \in DOMAIN ValidMessages |-> ValidMessages[i].request]
    IN  IF rejected THEN FirstMalformed # 0
        ELSE /\ IsPrefix(delivered, asSent)
             /\ pc = "poll" => Len(delivered) = Cardinality(complete)

\* OnMessage returns to the event loop, which other connections are waiting
\* for, as long as this connection has not been answered with a 400.
OnMessageReturns == (pc # "poll" /\ ~rejected) ~> (pc = "poll")

=============================================================================
