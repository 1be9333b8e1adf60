---------------------------- MODULE ProxySession ----------------------------
(***************************************************************************)
(* One proxied client: the downstream connection, the upstream connection  *)
(* and the ProxySession between them, all on one loop.  Each side's output *)
(* buffer controls the reading of the other side: it is paused when the    *)
(* output crosses the high-water mark and resumed when it is empty again.  *)
(*                                                                         *)
(* Data are numbered chunks, what one read delivers.  The record p holds   *)
(* what the loop thread and the kernel keep:                               *)
(*   conn     side -> state_, channel, output_buffer_, and whether the     *)
(*            flow-control callbacks are installed                         *)
(*   sock     side -> the socket: chunks to read, room in its send buffer, *)
(*            what the peer has done, whether our write side is shut, and  *)
(*            the chunks the peer has sent (sent) and been sent (got)      *)
(*   paused   down_read_paused_ and up_read_paused_                        *)
(*   upReady, upConn, downConn, tearing, pending   members of the session  *)
(*   client   TcpClient: "connecting", "connected" or "gone"               *)
(*   queue    functors of the loop                                         *)
(*   flushed  history: the length of pending_up_ when it was sent          *)
(* A handler is an operator from p to the p it ends in; reading, a loop in *)
(* the code, is one step per chunk, so the peers move in between.  What    *)
(* epoll may do with the upstream channel once Teardown has released its   *)
(* connection belongs to TcpClient and is left out here.                   *)
(***************************************************************************)
EXTENDS Channel, SequencesExt

CONSTANTS
    MaxSent,        \* bound on the chunks the two peers send
    HighWater,      \* kProxyHighWaterMark, in chunks
    Room            \* the kernel's send buffer, in chunks

ASSUME ProxyAssumption ==
    /\ MaxSent \in Nat
    /\ HighWater \in Nat \ {0} /\ Room \in Nat \ {0}

VARIABLES
    p,
    ready,          \* sides on epoll's ready list
    lpc,            \* where the loop is in its pass
    batch,          \* events reported, not handled yet
    current,        \* the event being handled, its part left to do
    running         \* functors swapped out, not executed yet

vars == <<p, ready, lpc, batch, current, running>>

Sides == {"down", "up"}
Other(s) == IF s = "down" THEN "up" ELSE "down"
Events == [side : Sides, revents : SUBSET {"IN", "OUT", "HUP"}]
Functors == [op : {"complete", "destroy"}, side : Sides]
Idle == [side |-> "down", revents |-> {}]
Chunks == Seq(1 .. MaxSent)

Connections ==
    [state : {"none", "kConnected", "kDisconnecting", "kDisconnected"},
     ch : ChannelType, out : Chunks, flow : BOOLEAN]
Sockets ==
    [in : Chunks, room : 0 .. Room, peer : {"open", "fin", "rst"},
     wrShut : BOOLEAN, sent : Chunks, got : Chunks]

TypeOK ==
    /\ \A s \in Sides : p.conn[s] \in Connections /\ p.sock[s] \in Sockets
    /\ p.paused \in [Sides -> BOOLEAN]
    /\ {p.upReady, p.upConn, p.downConn, p.tearing} \subseteq BOOLEAN
    /\ p.pending \in Chunks
    /\ p.client \in {"connecting", "connected", "gone"}
    /\ p.queue \in Seq(Functors) /\ running \in Seq(Functors)
    /\ p.flushed \in 0 .. MaxSent
    /\ ready \subseteq Sides
    /\ lpc \in {"poll", "dispatch", "functors"}
    /\ batch \subseteq Events /\ current \in Events

Established(flow) ==
    [state |-> "kConnected", ch |-> EnableReading(NewChannel), out |-> <<>>,
     flow |-> flow]

NoConnection ==
    [state |-> "none", ch |-> NewChannel, out |-> <<>>, flow |-> FALSE]

\* The downstream connection is up and Start() has been called.
Init ==
    /\ p = [conn |-> [s \in Sides |->
                        IF s = "down" THEN Established(TRUE) ELSE NoConnection],
            sock |-> [s \in Sides |->
                        [in |-> <<>>, room |-> Room, peer |-> "open",
                         wrShut |-> FALSE, sent |-> <<>>, got |-> <<>>]],
            paused |-> [s \in Sides |-> FALSE], upReady |-> FALSE,
            upConn |-> FALSE, downConn |-> TRUE, tearing |-> FALSE,
            pending |-> <<>>, client |-> "connecting", queue |-> <<>>,
            flushed |-> 0]
    /\ ready = {}
    /\ lpc = "poll"
    /\ batch = {}
    /\ current = Idle
    /\ running = <<>>

-----------------------------------------------------------------------------
(* Flow control.                                                           *)

Holds(q, s) == IF s = "up" THEN q.upConn ELSE q.downConn

\* The high-water callback of the other side.
Pause(q, s) ==
    IF ~q.tearing /\ Holds(q, s) /\ ~q.paused[s]
    THEN [q EXCEPT !.paused[s] = TRUE, !.conn[s].ch = DisableReading(@)]
    ELSE q

\* Variant: the flag is cleared and the channel is not told.
ResumeFlagOnly(q, s) ==
    IF ~q.tearing /\ Holds(q, s) /\ q.paused[s]
    THEN [q EXCEPT !.paused[s] = FALSE] ELSE q

\* The write-complete callback of the other side.
Resume(q, s) ==
    IF ~q.tearing /\ Holds(q, s) /\ q.paused[s]
    THEN [q EXCEPT !.paused[s] = FALSE, !.conn[s].ch = EnableReading(@)]
    ELSE q

\* Variant: the callback trusts what was true when it was queued.
WriteCompleteUnchecked(q, s) == Resume(q, Other(s))

\* The functor looks at the buffer again before it calls back.
WriteComplete(q, s) ==
    IF q.conn[s].out = <<>> THEN Resume(q, Other(s)) ELSE q

QueueWriteComplete(q, s) ==
    IF q.conn[s].flow
    THEN [q EXCEPT !.queue = Append(@, [op |-> "complete", side |-> s])] ELSE q

-----------------------------------------------------------------------------
(* TcpConnection.                                                          *)

\* A write fails for good once the peer has reset or our side is shut.
WriteFails(q, s) == q.sock[s].peer = "rst" \/ q.sock[s].wrShut

\* n chunks of data go to the socket.
Write(q, s, data, n) ==
    [q EXCEPT !.sock[s].room = @ - n, !.sock[s].got = @ \o SubSeq(data, 1, n)]

Crosses(old, new) == old < HighWater /\ new >= HighWater

\* Variant: the socket is tried first although older output is waiting.
DirectlyAlways(q, s, data) == Min({q.sock[s].room, Len(data)})

\* How much of data is written at once: nothing behind a backlog.
Directly(q, s, data) ==
    IF q.conn[s].out = <<>> THEN Min({q.sock[s].room, Len(data)}) ELSE 0

SendInLoop(q, s, data) ==
    LET k    == q.conn[s]
        n    == Directly(q, s, data)
        rest == SubSeq(data, n + 1, Len(data))
        buffered ==
          [Write(q, s, data, n) EXCEPT
              !.conn[s].out = @ \o rest,
              !.conn[s].ch = IF IsWriting(@) THEN @ ELSE EnableWriting(@)]
    IN  IF k.state = "kDisconnected" \/ (k.out = <<>> /\ WriteFails(q, s)) THEN q
        ELSE IF rest = <<>> THEN QueueWriteComplete(Write(q, s, data, n), s)
        ELSE IF k.flow /\ Crosses(Len(k.out), Len(k.out) + Len(rest))
             THEN Pause(buffered, Other(s)) ELSE buffered

Shutdown(q, s) ==
    IF q.conn[s].state = "kConnected"
    THEN [q EXCEPT !.conn[s].state = "kDisconnecting",
                   !.sock[s].wrShut = ~IsWriting(q.conn[s].ch)]
    ELSE q

\* Variant: nobody is told that the buffer is empty.
DrainedSilently(q, s) ==
    LET d == [q EXCEPT !.conn[s].ch = DisableWriting(@)]
    IN  IF d.conn[s].state = "kDisconnecting"
        THEN [d EXCEPT !.sock[s].wrShut = TRUE] ELSE d

\* The output buffer has been emptied.
Drained(q, s) ==
    LET d == QueueWriteComplete([q EXCEPT !.conn[s].ch = DisableWriting(@)], s)
    IN  IF d.conn[s].state = "kDisconnecting"
        THEN [d EXCEPT !.sock[s].wrShut = TRUE] ELSE d

HandleWrite(q, s) ==
    LET out == q.conn[s].out
        n   == Min({q.sock[s].room, Len(out)})
        d   == [Write(q, s, out, n) EXCEPT !.conn[s].out = SubSeq(out, n + 1, Len(out))]
    IN  IF ~IsWriting(q.conn[s].ch) \/ n = 0 \/ WriteFails(q, s) THEN q
        ELSE IF d.conn[s].out = <<>> THEN Drained(d, s) ELSE d

ConnectionDestroyed(q, s) ==
    [q EXCEPT !.conn[s].state = "kDisconnected", !.conn[s].ch = RemoveChannel(@)]

-----------------------------------------------------------------------------
(* ProxySession.                                                           *)

\* The upstream connection is up: what came too early goes first.
OnUpstreamConnected(q) ==
    LET d == [q EXCEPT !.conn["up"] = Established(TRUE), !.client = "connected",
                       !.upConn = TRUE, !.upReady = TRUE,
                       !.flushed = Len(q.pending)]
    IN  IF q.pending = <<>> THEN d
        ELSE [SendInLoop(d, "up", q.pending) EXCEPT !.pending = <<>>]

\* The upstream connection is down: the downstream one is to follow.
OnUpstreamDisconnected(q) ==
    IF q.tearing THEN q
    ELSE Shutdown([q EXCEPT !.upReady = FALSE, !.upConn = FALSE], "down")

OnDownstreamData(q, data) ==
    IF q.tearing THEN q
    ELSE IF q.upReady /\ q.upConn THEN SendInLoop(q, "up", data)
    ELSE [q EXCEPT !.pending = @ \o data]

OnUpstreamData(q, data) ==
    IF q.tearing \/ ~q.downConn THEN q ELSE SendInLoop(q, "down", data)

OnData(q, s, data) ==
    IF s = "down" THEN OnDownstreamData(q, data) ELSE OnUpstreamData(q, data)

\* Disconnect and Stop of the client, then everything is let go.
Teardown(q) ==
    IF q.tearing THEN q
    ELSE [(IF q.client = "connected" THEN Shutdown(q, "up") ELSE q) EXCEPT
             !.tearing = TRUE, !.upReady = FALSE, !.upConn = FALSE,
             !.downConn = FALSE, !.pending = <<>>, !.client = "gone",
             !.paused = [s \in Sides |-> FALSE]]

\* TcpConnection::HandleClose with the callbacks of either side; the removal
\* of the downstream connection by way of the main loop is TcpServer's.
HandleClose(q, s) ==
    LET closed == [q EXCEPT !.conn[s].state = "kDisconnecting",
                            !.conn[s].ch = DisableAll(@),
                            !.queue = Append(@, [op |-> "destroy", side |-> s])]
    IN  IF q.conn[s].state # "kConnected" THEN q
        ELSE IF s = "down" THEN Teardown(closed) ELSE OnUpstreamDisconnected(closed)

-----------------------------------------------------------------------------
(* The peers and the kernel.                                               *)

\* The socket is connected and its connection object is there to hear of it.
Live(s) ==
    /\ p.conn[s].state \notin {"none", "kDisconnected"}
    /\ s = "up" => p.client = "connected"

SocketChanges(s, sock) ==
    /\ p' = [p EXCEPT !.sock[s] = sock]
    /\ ready' = ready \cup {s}
    /\ UNCHANGED <<lpc, batch, current, running>>

PeerSends(s) ==
    LET k == p.sock[s]
        n == Len(k.sent) + 1
    IN  /\ Live(s) /\ k.peer = "open"
        /\ Len(p.sock["down"].sent) + Len(p.sock["up"].sent) < MaxSent
        /\ SocketChanges(s, [k EXCEPT !.in = Append(@, n), !.sent = Append(@, n)])

PeerReads(s) ==
    /\ Live(s) /\ p.sock[s].room < Room
    /\ SocketChanges(s, [p.sock[s] EXCEPT !.room = Room])

PeerCloses(s) ==
    /\ Live(s) /\ p.sock[s].peer = "open"
    /\ SocketChanges(s, [p.sock[s] EXCEPT !.peer = "fin"])

\* A reset loses what was not read yet.
PeerResets(s) ==
    /\ Live(s) /\ p.sock[s].peer # "rst"
    /\ SocketChanges(s, [p.sock[s] EXCEPT !.peer = "rst", !.in = <<>>])

Poll(sock) ==
    (IF sock.in # <<>> \/ sock.peer # "open" THEN {"IN"} ELSE {})
    \cup (IF sock.room > 0 THEN {"OUT"} ELSE {})
    \cup (IF sock.peer = "rst" \/ (sock.peer = "fin" /\ sock.wrShut)
          THEN {"HUP"} ELSE {})

Revents(s) ==
    LET ch == p.conn[s].ch
    IN  IF Live(s) /\ ch.inTree
        THEN Poll(p.sock[s]) \cap (ch.mask \cup {"HUP"}) ELSE {}

-----------------------------------------------------------------------------
(* The loop.                                                               *)

\* The loop thread leaves the session in q; epoll_ctl polls a socket again.
Becomes(q) ==
    /\ p' = q
    /\ ready' = ready \cup {s \in Sides : q.conn[s].ch # p.conn[s].ch}

\* epoll_wait returns, for the two sockets, the Connector's or the wakeup fd.
EpollWait ==
    LET reported == {s \in ready : Revents(s) # {}}
    IN  /\ lpc = "poll"
        /\ reported # {} \/ p.queue # <<>> \/ p.client = "connecting"
        /\ batch' = {[side |-> s, revents |-> Revents(s)] : s \in reported}
        /\ ready' = {}
        /\ lpc' = "dispatch"
        /\ UNCHANGED <<p, current, running>>

Dispatching == lpc = "dispatch" /\ current.revents = {}

\* Channel::HandleEvent starts: a hang-up without data closes at once.
TakeEvent(e) ==
    /\ Dispatching
    /\ e \in batch
    /\ batch' = batch \ {e}
    /\ current' = IF Live(e.side)
                  THEN [e EXCEPT !.revents = @ \ {"HUP"}] ELSE Idle
    /\ Becomes(IF Live(e.side) /\ "HUP" \in e.revents /\ "IN" \notin e.revents
               THEN HandleClose(p, e.side) ELSE p)
    /\ UNCHANGED <<lpc, running>>

\* One turn of the loop in HandleRead.
HandleRead ==
    LET s    == current.side
        sock == p.sock[s]
        more == sock.in # <<>>
        q    == IF more
                THEN OnData([p EXCEPT !.sock[s].in = Tail(@)], s, <<Head(sock.in)>>)
                ELSE IF sock.peer # "open" THEN HandleClose(p, s) ELSE p
    IN  /\ "IN" \in current.revents
        /\ Becomes(q)
        /\ current' = IF more /\ IsReading(q.conn[s].ch) THEN current
                      ELSE [current EXCEPT !.revents = @ \ {"IN"}]
        /\ UNCHANGED <<lpc, batch, running>>

WriteEvent ==
    /\ current.revents = {"OUT"}
    /\ Becomes(HandleWrite(p, current.side))
    /\ current' = Idle
    /\ UNCHANGED <<lpc, batch, running>>

\* The Connector's socket is writable: TcpClient::NewConnection.
UpstreamConnects ==
    /\ Dispatching
    /\ p.client = "connecting"
    /\ Becomes(OnUpstreamConnected(p))
    /\ UNCHANGED <<lpc, batch, current, running>>

DispatchDone ==
    /\ Dispatching
    /\ batch = {}
    /\ running' = p.queue
    /\ p' = [p EXCEPT !.queue = <<>>]
    /\ lpc' = "functors"
    /\ UNCHANGED <<ready, batch, current>>

RunFunctor ==
    /\ lpc = "functors"
    /\ running # <<>>
    /\ LET f == Head(running)
       IN  Becomes(IF f.op = "complete" THEN WriteComplete(p, f.side)
                   ELSE ConnectionDestroyed(p, f.side))
    /\ running' = Tail(running)
    /\ UNCHANGED <<lpc, batch, current>>

PassDone ==
    /\ lpc = "functors"
    /\ running = <<>>
    /\ lpc' = "poll"
    /\ UNCHANGED <<p, ready, batch, current, running>>

LoopStep ==
    \/ EpollWait
    \/ \E e \in batch : TakeEvent(e)
    \/ HandleRead \/ WriteEvent
    \/ UpstreamConnects
    \/ DispatchDone \/ RunFunctor \/ PassDone

Next ==
    \/ LoopStep
    \/ \E s \in Sides :
         PeerSends(s) \/ PeerReads(s) \/ PeerCloses(s) \/ PeerResets(s)

Spec == Init /\ [][Next]_vars

\* The loop thread is scheduled, and peers read what they are sent.
Fairness == WF_vars(LoopStep) /\ \A s \in Sides : WF_vars(PeerReads(s))

FairSpec == Spec /\ Fairness

-----------------------------------------------------------------------------
(* Properties.                                                             *)

\* Nobody has closed, reset or torn down anything.
Bridged ==
    /\ ~p.tearing
    /\ \A s \in Sides :
         /\ p.conn[s].state \in {"none", "kConnected"}
         /\ p.sock[s].peer = "open"

\* Reading that flow control has paused is resumed: the other side's output is
\* waiting for EPOLLOUT, or its write-complete functor is on its way.
ResumeComing ==
    \A s \in Sides :
        LET o == Other(s)
        IN  p.paused[s] /\ p.upConn /\ p.downConn =>
              \/ p.conn[o].out # <<>> /\ "OUT" \in p.conn[o].ch.mask
              \/ [op |-> "complete", side |-> o] \in Range(p.queue) \cup Range(running)

\* The high-water mark is a bound on what a slow peer can make the proxy hold:
\* no buffer grows beyond it, or beyond what had come before the upstream was
\* connected, although a read that was already reported is still carried out.
Backpressure ==
    /\ Len(p.conn["down"].out) <= HighWater
    /\ Len(p.conn["up"].out) <= Max({HighWater, p.flushed})

\* Every chunk a peer has sent is in one place on its way, in order, or has
\* been handed to the other peer's socket: nothing is lost, doubled or swapped.
\* The downstream sees end of file only behind everything the upstream sent
\* before it closed, whatever was still buffered then (Teardown, Shutdown).
InOrder ==
    /\ \A s \in Sides : IsPrefix(p.sock[s].got, p.sock[Other(s)].sent)
    /\ Bridged =>
         /\ p.sock["down"].sent = p.sock["up"].got \o p.conn["up"].out
                                    \o p.pending \o p.sock["down"].in
         /\ p.sock["up"].sent = p.sock["down"].got \o p.conn["down"].out
                                  \o p.sock["up"].in
    /\ p.sock["up"].peer = "fin" /\ p.sock["down"].peer # "rst" /\ p.sock["down"].wrShut
         => p.sock["down"].got = p.sock["up"].sent

\* What a peer sends reaches the other one, through any number of pauses,
\* unless a side closes meanwhile; so does the upstream's end of file, unless
\* somebody resets (SendInLoop, HandleWrite, Shutdown, the flow control).
Delivered ==
    /\ \A s \in Sides :
         (p.client = "connected" /\ p.sock[s].got # p.sock[Other(s)].sent)
             ~> (~Bridged \/ p.sock[s].got = p.sock[Other(s)].sent)
    /\ (p.sock["up"].peer = "fin")
         ~> (p.sock["down"].wrShut \/ p.tearing
               \/ \E s \in Sides : p.sock[s].peer = "rst")
=============================================================================
