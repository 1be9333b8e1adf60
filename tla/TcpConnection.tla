---------------------------- MODULE TcpConnection ----------------------------
(***************************************************************************)
(* TcpConnection: what its handlers do to the connection and to the        *)
(* socket, as operators on a record                                        *)
(*   state    state_                                                       *)
(*   ch       the channel                                                  *)
(*   backlog  output_buffer_ is not empty                                  *)
(*   sock     the kernel's side of the descriptor:                         *)
(*              data    bytes wait to be read                              *)
(*              peer    "open", "fin" (peer closed), "rst" (peer reset)    *)
(*              full    the send buffer is full                            *)
(*              wrShut  shutdown(SHUT_WR) has been called                  *)
(*   ups, downs       history: connection callbacks, up and down           *)
(*   removals         history: calls of close_callback_                    *)
(*   shutdownCalled   history: the application called Shutdown()           *)
(* Handlers run on the connection's own loop thread, one at a time.        *)
(***************************************************************************)
EXTENDS Channel

States == {"kConnecting", "kConnected", "kDisconnecting", "kDisconnected"}

SocketType ==
    [data : BOOLEAN, peer : {"open", "fin", "rst"}, full : BOOLEAN,
     wrShut : BOOLEAN]

ConnectionType ==
    [state : States, ch : ChannelType, backlog : BOOLEAN, sock : SocketType,
     ups : Nat, downs : Nat, removals : Nat, shutdownCalled : BOOLEAN]

NewSocket == [data |-> FALSE, peer |-> "open", full |-> FALSE, wrShut |-> FALSE]

NewTcpConnection ==
    [state |-> "kConnecting", ch |-> NewChannel, backlog |-> FALSE,
     sock |-> NewSocket, ups |-> 0, downs |-> 0, removals |-> 0,
     shutdownCalled |-> FALSE]

-----------------------------------------------------------------------------
(* The kernel.                                                             *)

\* What poll() says of the socket.
Poll(sock) ==
    (IF sock.data \/ sock.peer # "open" THEN {"IN"} ELSE {})
    \cup (IF ~sock.full THEN {"OUT"} ELSE {})
    \cup (IF sock.peer = "rst" \/ (sock.peer = "fin" /\ sock.wrShut)
          THEN {"HUP"} ELSE {})
    \cup (IF sock.peer = "rst" THEN {"ERR"} ELSE {})

\* What epoll_wait reports: the registered events, and HUP and ERR always.
Revents(c) ==
    IF c.ch.inTree THEN Poll(c.sock) \cap (c.ch.mask \cup {"HUP", "ERR"}) ELSE {}

-----------------------------------------------------------------------------
(* Calls of the application, made on the loop thread.                      *)

\* The ways SendInLoop can end: the write takes everything, the rest goes to
\* the output buffer, or the write fails for good and the data is dropped.
\* Data behind a backlog is only appended.
SendInLoop(c) ==
    LET buffered ==
          [c EXCEPT !.backlog = TRUE,
                    !.ch = IF IsWriting(@) THEN @ ELSE EnableWriting(@)]
    IN  IF c.state = "kDisconnected" THEN {c}
        ELSE IF c.backlog THEN {buffered}
        ELSE IF c.sock.peer = "rst" \/ c.sock.wrShut THEN {c}
        ELSE IF c.sock.full THEN {buffered}
        ELSE {c, [buffered EXCEPT !.sock.full = TRUE]}

ShutdownInLoop(c) ==
    IF IsWriting(c.ch) THEN c ELSE [c EXCEPT !.sock.wrShut = TRUE]

Shutdown(c) ==
    IF c.state = "kConnected"
    THEN ShutdownInLoop([c EXCEPT !.state = "kDisconnecting",
                                  !.shutdownCalled = TRUE])
    ELSE c

\* What a message callback may do: nothing, reply, close, or reply and close
\* (HttpCodec::OnMessage, ProxySession).
OnMessage(c) ==
    {c} \cup SendInLoop(c) \cup {Shutdown(d) : d \in {c} \cup SendInLoop(c)}

-----------------------------------------------------------------------------
(* Handlers.                                                               *)

ConnectionEstablished(c) ==
    [c EXCEPT !.state = "kConnected", !.ch = EnableReading(@), !.ups = @ + 1]

\* The descriptor itself is closed by the caller's model of the fd table.
ConnectionDestroyed(c) ==
    [c EXCEPT !.state = "kDisconnected", !.ch = RemoveChannel(@)]

\* Variant: the guard against a second close is missing.
HandleCloseUnguarded(c) ==
    [c EXCEPT !.state = "kDisconnecting", !.ch = DisableAll(@),
              !.downs = @ + 1, !.removals = @ + 1]

HandleClose(c) ==
    IF c.state \in {"kDisconnecting", "kDisconnected"}
    THEN c
    ELSE [c EXCEPT !.state = "kDisconnecting", !.ch = DisableAll(@),
                   !.downs = @ + 1, !.removals = @ + 1]

\* Variant: an end of file is taken for an empty socket.
AfterReadingIgnoresEof(c) ==
    IF c.sock.peer = "rst" THEN HandleClose(c) ELSE c

\* What the read that stops the loop says: EAGAIN, or end of file or an error.
AfterReading(c) == IF c.sock.peer # "open" THEN HandleClose(c) ELSE c

\* Read until nothing is left; a reset loses unread data.
HandleRead(c) ==
    LET drained == [c EXCEPT !.sock.data = FALSE]
        served  == IF c.sock.data /\ c.sock.peer # "rst"
                   THEN OnMessage(drained) ELSE {drained}
    IN  {AfterReading(d) : d \in served}

\* The backlog is written; a Shutdown that waited for this now takes effect.
AfterBacklog(c) ==
    IF c.state = "kDisconnecting" THEN [c EXCEPT !.sock.wrShut = TRUE] ELSE c

\* One write: it takes part of the backlog (the send buffer is full again),
\* all of it, or fails and changes nothing.
HandleWrite(c) ==
    IF ~IsWriting(c.ch) \/ c.sock.peer = "rst" \/ c.sock.full THEN {c}
    ELSE {[c EXCEPT !.sock.full = TRUE],
          AfterBacklog([c EXCEPT !.backlog = FALSE, !.ch = DisableWriting(@)])}

\* Channel::HandleEvent; a TcpConnection sets no error callback.
HandleEvent(c, revents) ==
    LET closed == IF "HUP" \in revents /\ "IN" \notin revents
                  THEN HandleClose(c) ELSE c
        read   == IF "IN" \in revents THEN HandleRead(closed) ELSE {closed}
    IN  IF "OUT" \in revents
        THEN UNION {HandleWrite(d) : d \in read}
        ELSE read
=============================================================================
