------------------------------ MODULE TcpClient ------------------------------
(***************************************************************************)
(* TcpClient and its Connector: connecting without blocking, retrying with *)
(* a back-off, handing the connected socket over, and giving up, asked for *)
(* by a handler of the loop's own thread (as the proxy does) or by another *)
(* thread, whose calls are functors of the loop.                           *)
(*                                                                         *)
(* Both objects, the loop's queue and the kernel's view of their sockets   *)
(* are one record c; a call or handler is an operator from c to the set of *)
(* records it can end in:                                                  *)
(*   state, connect, channel, retryTimer, delay    members of Connector;   *)
(*              channel is the socket its channel_ is for, 0 for nullptr   *)
(*   alive, wanted, connection    TcpClient exists, its connect_ and its   *)
(*              connection_ (a socket, 0 for nullptr)                      *)
(*   conn       state_ of that connection object                           *)
(*   open       sockets that are open                                      *)
(*   tree       channels in epoll, by socket and owner                     *)
(*   timers     pending timers of the loop, young those set in this pass   *)
(*   queue      functors queued in the loop                                *)
(*   attempts   sockets created so far, numbered from 1                    *)
(*   gaveUp     history: an attempt failed for good                        *)
(*   handed     history: the socket that was handed over, or 0             *)
(***************************************************************************)
EXTENDS Naturals, Sequences, Functions

CONSTANTS
    MaxAttempts,    \* bound on the attempts to connect
    InitDelay,      \* kInitRetryDelaySec
    MaxDelay        \* kMaxRetryDelaySec

ASSUME TcpClientAssumption ==
    /\ MaxAttempts \in Nat \ {0}
    /\ InitDelay \in Nat \ {0} /\ MaxDelay \in Nat
    /\ InitDelay <= MaxDelay

VARIABLES
    c,
    outcome,        \* socket -> what the kernel knows of its handshake
    peerGone,       \* the other end of the established connection has closed
    lpc,            \* where the loop is in its pass
    events,         \* channels reported, not handled yet
    running,        \* functors swapped out, not executed yet
    owner           \* what the owner of the client has called so far

vars == <<c, outcome, peerGone, lpc, events, running, owner>>

Socks == 1 .. MaxAttempts
Entries == [sock : Socks, of : {"connector", "connection"}]
Functors == {"start", "stop", "disconnect", "reset", "destroy"}
OwnerSteps == {"new", "up", "disconnecting", "stopping", "stopped",
               "releasing", "done"}

TypeOK ==
    /\ c.state \in {"kDisconnected", "kConnecting", "kConnected"}
    /\ c.connect \in BOOLEAN /\ c.wanted \in BOOLEAN /\ c.alive \in BOOLEAN
    /\ {c.channel, c.connection, c.retryTimer, c.handed, c.attempts}
          \subseteq Socks \cup {0}
    /\ c.delay \in InitDelay .. MaxDelay
    /\ c.conn \in {"none", "kConnected", "kDisconnecting", "kDisconnected"}
    /\ c.open \subseteq Socks /\ c.tree \subseteq Entries
    /\ c.young \subseteq c.timers /\ c.timers \subseteq Socks
    /\ c.queue \in Seq(Functors) /\ running \in Seq(Functors)
    /\ c.gaveUp \in BOOLEAN
    /\ outcome \in [Socks -> {"pending", "ok", "failed"}]
    /\ peerGone \in BOOLEAN
    /\ lpc \in {"poll", "dispatch", "functors"}
    /\ events \subseteq Entries
    /\ owner \in OwnerSteps

Init ==
    /\ c = [state |-> "kDisconnected", connect |-> FALSE, channel |-> 0,
            retryTimer |-> 0, delay |-> InitDelay, alive |-> TRUE,
            wanted |-> TRUE, connection |-> 0, conn |-> "none", open |-> {},
            tree |-> {}, timers |-> {}, young |-> {}, queue |-> <<>>,
            attempts |-> 0, gaveUp |-> FALSE, handed |-> 0]
    /\ outcome = [s \in Socks |-> "pending"]
    /\ peerGone = FALSE
    /\ lpc = "poll"
    /\ events = {}
    /\ running = <<>>
    /\ owner = "new"

-----------------------------------------------------------------------------
(* Connector.                                                              *)

\* ::close, which also takes the socket off epoll.
Close(k, s) == [k EXCEPT !.open = @ \ {s}, !.tree = {e \in @ : e.sock # s}]

\* Variant: the channel stays in epoll.
RemoveAndResetChannelKeepsEntry(k) == [k EXCEPT !.queue = Append(@, "reset")]

\* The channel leaves epoll now; the object is destroyed by a functor.
RemoveAndResetChannel(k) ==
    [k EXCEPT !.tree = @ \ {[sock |-> k.channel, of |-> "connector"]},
              !.queue = Append(@, "reset")]

StopInLoop(k) ==
    LET quiet == [k EXCEPT !.timers = @ \ {k.retryTimer},
                           !.young = @ \ {k.retryTimer}, !.retryTimer = 0]
    IN  IF k.state = "kConnecting" /\ k.channel # 0
        THEN Close(RemoveAndResetChannel([quiet EXCEPT !.state = "kDisconnected"]),
                   k.channel)
        ELSE quiet

\* error_callback_: the owner may take the opportunity to call Stop().
ErrorCallback(k) ==
    {k} \cup (IF k.alive
              THEN {StopInLoop([k EXCEPT !.wanted = FALSE, !.connect = FALSE])}
              ELSE {})

Connecting(k, s) ==
    [k EXCEPT !.state = "kConnecting", !.channel = s,
              !.tree = @ \cup {[sock |-> s, of |-> "connector"]}]

Doubled(delay) == IF 2 * delay < MaxDelay THEN 2 * delay ELSE MaxDelay

\* RunAfter with the current delay; the timer has the number of the socket.
ArmRetry(k, s) ==
    [k EXCEPT !.timers = @ \cup {s}, !.young = @ \cup {s}, !.retryTimer = s,
              !.delay = Doubled(@)]

\* Variant: the failure is reported and that is all.
RetryReportsOnly(k, s) ==
    ErrorCallback([Close(k, s) EXCEPT !.state = "kDisconnected"])

Retry(k, s) ==
    LET closed == [Close(k, s) EXCEPT !.state = "kDisconnected"]
    IN  IF ~k.connect THEN {closed}
        ELSE {ArmRetry(d, s) : d \in ErrorCallback(closed)}

\* socket() or the address fails, connect() fails for good, fails and may be
\* repeated, or is under way.
Connect(k) ==
    LET s      == k.attempts + 1
        tried  == [k EXCEPT !.attempts = s]
        opened == [tried EXCEPT !.open = @ \cup {s}]
    IN  ErrorCallback([tried EXCEPT !.gaveUp = TRUE])
        \cup Retry(opened, s)
        \cup {Connecting(opened, s)}

\* Variant: a connector that has been stopped is not recognised.
StartInLoopRegardless(k) == IF k.state = "kDisconnected" THEN Connect(k) ELSE {k}

StartInLoop(k) ==
    IF k.connect /\ k.state = "kDisconnected" THEN Connect(k) ELSE {k}

\* The timer's callback.
RetryCallback(k, t) ==
    StartInLoop([k EXCEPT !.timers = @ \ {t}, !.retryTimer = 0])

-----------------------------------------------------------------------------
(* TcpClient.                                                              *)

\* Also the new-connection callback, which has no client left to call when
\* the client has been released.
NewConnection(k, s) ==
    IF k.alive /\ k.wanted
    THEN [k EXCEPT !.connection = s, !.conn = "kConnected", !.handed = s,
                   !.tree = @ \cup {[sock |-> s, of |-> "connection"]}]
    ELSE Close(k, s)

\* Variant: a socket that is no longer wanted is left alone.
HandOverOnlyIfWanted(k, s) == IF k.connect THEN NewConnection(k, s) ELSE k

\* The end of HandleWrite: the socket is handed over or closed.
HandOver(k, s) == IF k.connect THEN NewConnection(k, s) ELSE Close(k, s)

\* Connector::HandleWrite: the handshake failed, connected to itself, or
\* succeeded.
HandleWrite(k, result) ==
    LET s == k.channel
        d == RemoveAndResetChannel(k)
    IN  IF k.state # "kConnecting" THEN {k}
        ELSE Retry(d, s)
             \cup (IF result = "ok"
                   THEN {HandOver([d EXCEPT !.state = "kConnected",
                                            !.delay = InitDelay], s)}
                   ELSE {})

\* TcpConnection::HandleClose with RemoveConnection as its close callback.
HandleClose(k) ==
    IF k.conn = "kConnected"
    THEN [k EXCEPT !.conn = "kDisconnecting", !.connection = 0,
                   !.queue = Append(@, "destroy")]
    ELSE k

\* TcpConnection::ConnectionDestroyed.
ConnectionDestroyed(k) == Close([k EXCEPT !.conn = "kDisconnected"], k.handed)

\* The functor of Disconnect: Shutdown() of the connection, if there is one
\* and the client has not been released.
DisconnectInLoop(k) ==
    IF k.connection # 0 /\ k.conn = "kConnected"
    THEN [k EXCEPT !.conn = "kDisconnecting"] ELSE k

\* The owner drops its pointer: the client goes, and its pointer with it.
Release(k) == [k EXCEPT !.alive = FALSE, !.connection = 0]

-----------------------------------------------------------------------------
(* The owner.  Connect is called once, then the client is taken down by    *)
(* Disconnect, Stop and the release of the pointer, as ProxySession does.  *)
(* On the loop's own thread every call acts at once, inside a handler.     *)

InHandler == lpc \in {"dispatch", "functors"}

ConnectInLoop ==
    /\ owner = "new" /\ InHandler
    /\ owner' = "up"
    /\ c' \in StartInLoop([c EXCEPT !.wanted = TRUE, !.connect = TRUE])
    /\ UNCHANGED <<outcome, peerGone, lpc, events, running>>

ConnectFromThread ==
    /\ owner = "new"
    /\ owner' = "up"
    /\ c' = [c EXCEPT !.wanted = TRUE, !.connect = TRUE,
                      !.queue = Append(@, "start")]
    /\ UNCHANGED <<outcome, peerGone, lpc, events, running>>

TeardownInLoop ==
    /\ owner = "up" /\ InHandler
    /\ owner' = "done"
    /\ c' = Release(StopInLoop(DisconnectInLoop(
                [c EXCEPT !.wanted = FALSE, !.connect = FALSE])))
    /\ UNCHANGED <<outcome, peerGone, lpc, events, running>>

\* From another thread each store and each push is a step of its own.
OwnerStep(from, to, k) ==
    /\ owner = from
    /\ owner' = to
    /\ c' = k
    /\ UNCHANGED <<outcome, peerGone, lpc, events, running>>

Disconnect == OwnerStep("up", "disconnecting", [c EXCEPT !.wanted = FALSE])
DisconnectQueues ==
    OwnerStep("disconnecting", "stopping", [c EXCEPT !.queue = Append(@, "disconnect")])
Stop == OwnerStep("stopping", "stopped", [c EXCEPT !.connect = FALSE])
StopQueues == OwnerStep("stopped", "releasing", [c EXCEPT !.queue = Append(@, "stop")])
ReleaseFromThread == OwnerStep("releasing", "done", Release(c))

-----------------------------------------------------------------------------
(* The kernel.                                                             *)

HandshakeEnds(s) ==
    /\ s \in c.open /\ outcome[s] = "pending"
    /\ \E r \in {"ok", "failed"} : outcome' = [outcome EXCEPT ![s] = r]
    /\ UNCHANGED <<c, peerGone, lpc, events, running, owner>>

PeerCloses ==
    /\ c.handed \in c.open /\ ~peerGone
    /\ peerGone' = TRUE
    /\ UNCHANGED <<c, outcome, lpc, events, running, owner>>

Reportable ==
    {e \in c.tree : IF e.of = "connector" THEN outcome[e.sock] # "pending"
                                          ELSE peerGone}

-----------------------------------------------------------------------------
(* The loop: events (other channels' handlers among them), then functors.  *)

\* The connection object exists: the client or a functor points to it.
ConnectionExists == c.connection # 0 \/ "destroy" \in Range(c.queue \o running)

\* Every pass sees what is ready; one with nothing of ours serves others.
EpollWait ==
    /\ lpc = "poll"
    /\ lpc' = "dispatch"
    /\ events' = Reportable
    /\ UNCHANGED <<c, outcome, peerGone, running, owner>>

\* Channel::HandleEvent; for the connector an error and a result both end in
\* HandleWrite.  What an event for a connection that is gone does is left out.
Dispatch(e) ==
    /\ lpc = "dispatch"
    /\ e \in events
    /\ events' = events \ {e}
    /\ c' \in CASE e.of = "connector" -> HandleWrite(c, outcome[e.sock])
                [] e.of = "connection" -> IF ConnectionExists THEN {HandleClose(c)} ELSE {c}
    /\ UNCHANGED <<outcome, peerGone, lpc, running, owner>>

\* A retry timer is at least InitDelay old when it fires; a pass of the loop
\* is taken to be shorter than that.
RetryFires(t) ==
    /\ lpc = "dispatch"
    /\ t \in c.timers \ c.young
    /\ c.attempts < MaxAttempts
    /\ c' \in RetryCallback(c, t)
    /\ UNCHANGED <<outcome, peerGone, lpc, events, running, owner>>

DispatchDone ==
    /\ lpc = "dispatch" /\ events = {}
    /\ lpc' = "functors"
    /\ running' = c.queue
    /\ c' = [c EXCEPT !.queue = <<>>]
    /\ UNCHANGED <<outcome, peerGone, events, owner>>

\* What a functor does.
Run(k, f) ==
    CASE f = "start" -> StartInLoop(k)
      [] f = "stop" -> {StopInLoop(k)}
      [] f = "disconnect" -> {DisconnectInLoop(k)}
      [] f = "reset" -> {[k EXCEPT !.channel = 0]}
      [] f = "destroy" -> {ConnectionDestroyed(k)}

RunFunctor ==
    /\ lpc = "functors" /\ running # <<>>
    /\ running' = Tail(running)
    /\ c' \in Run(c, Head(running))
    /\ UNCHANGED <<outcome, peerGone, lpc, events, owner>>

PassDone ==
    /\ lpc = "functors" /\ running = <<>>
    /\ lpc' = "poll"
    /\ c' = [c EXCEPT !.young = {}]
    /\ UNCHANGED <<outcome, peerGone, events, running, owner>>

-----------------------------------------------------------------------------
LoopStep ==
    \/ EpollWait
    \/ \E e \in Entries : Dispatch(e)
    \/ DispatchDone \/ RunFunctor \/ PassDone

Next ==
    \/ ConnectInLoop \/ ConnectFromThread \/ TeardownInLoop
    \/ Disconnect \/ DisconnectQueues \/ Stop \/ StopQueues \/ ReleaseFromThread
    \/ \E s \in Socks : HandshakeEnds(s)
    \/ PeerCloses
    \/ LoopStep
    \/ \E t \in Socks : RetryFires(t)

Spec == Init /\ [][Next]_vars

\* The loop is scheduled, the kernel ends every handshake (its own timeout at
\* the latest) and a pending timer is served by some pass.  The owner owes
\* nothing.
Fairness ==
    /\ WF_vars(LoopStep)
    /\ \A s \in Socks : WF_vars(HandshakeEnds(s)) /\ SF_vars(RetryFires(s))

FairSpec == Spec /\ Fairness

-----------------------------------------------------------------------------
(* Properties.                                                             *)

\* No leak on the way to a connection (Retry, StopInLoop, HandleWrite,
\* NewConnection): a socket that has not been handed over is open only while
\* the connector waits for its handshake, whenever Stop or the release of the
\* client comes.
AttemptSocketsOwned ==
    \A s \in c.open \ {c.handed} :
        /\ c.state = "kConnecting" /\ c.channel = s
        /\ [sock |-> s, of |-> "connector"] \in c.tree

\* ResetChannel comes late enough and never too late: a channel of the
\* connector that epoll knows, or whose event is still to be dispatched, is
\* the object channel_ owns.  The channel of an established connection is in
\* epoll only while the connection exists, until the client is released: its
\* destructor takes the connection along and leaves the channel registered.
ChannelOutlivesEvents ==
    /\ \A e \in c.tree \cup events : e.of = "connector" => c.channel = e.sock
    /\ \A e \in c.tree : e.of = "connection" => ConnectionExists \/ ~c.alive

\* Once connect_ is false no step starts an attempt or makes a connection,
\* not even a timer or a handshake that comes later (StartInLoop, HandleWrite).
StoppedStaysQuiet ==
    [][~c.connect /\ owner # "new"
         => c'.attempts = c.attempts /\ c'.handed = c.handed]_vars

\* A call of Connect ends in a connection, unless the owner changes its mind,
\* an attempt fails for good, or the bound on the attempts is reached: the
\* chain of retries never breaks off (Retry, StartInLoop).
ConnectResolves ==
    owner = "up" ~> \/ c.handed # 0 \/ c.gaveUp \/ c.attempts = MaxAttempts
                    \/ ~c.connect \/ ~c.wanted
=============================================================================
