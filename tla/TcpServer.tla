------------------------------ MODULE TcpServer ------------------------------
(***************************************************************************)
(* The life of the connections of a TcpServer: the main loop (Acceptor,    *)
(* NewConnection, the map connections_), the sub loops that serve the      *)
(* connections, the clients, and the process's descriptor table.           *)
(*                                                                         *)
(* A TcpConnection object lives as long as a shared_ptr to it exists: in   *)
(* connections_, or captured by a functor that is still queued or running. *)
(* The pointer to its channel that epoll holds does not keep it alive.     *)
(* The functor queues of the loops are those of FunctorQueue.              *)
(***************************************************************************)
EXTENDS TcpConnection, Sequences, Functions, FiniteSets

CONSTANTS
    Conns,          \* clients, and the connection objects made for them
    Fds,            \* the descriptors the process may have open
    Loops,          \* sub loops
    FirstLoop,      \* where the round robin of GetNextLoop starts
    NextLoop,       \* its order, a function on Loops
    MaxSends,       \* bound on the messages of all clients
    None

ASSUME TcpServerAssumption ==
    /\ FirstLoop \in Loops
    /\ NextLoop \in [Loops -> Loops]
    /\ MaxSends \in Nat
    /\ None \notin Conns \cup Fds \cup Loops

VARIABLES
    client,         \* client -> "new", "backlog", "accepted", "destroyed"
    conn,           \* client -> its TcpConnection, as TcpConnection describes
    fdOf,           \* conn_fd_
    loopOf,         \* loop_
    owner,          \* descriptor -> the connection whose socket it is
    connections_,
    next_,          \* EventLoopThreadPool::next_
    listenEdge,     \* the listening socket is on the main loop's ready list
    accepting,      \* the main thread is inside Acceptor::HandleRead
    acceptFailed,   \* an error has ended it and no edge has come since
    mainQueue,      \* functors of the main loop: connections to remove
    subQueue,       \* pending_functors_ of each sub loop
    running,        \* the functors a sub loop has swapped out
    phase,          \* where a sub loop is in its pass
    batch,          \* events a sub loop has still to handle
    ready,          \* connections on the ready list of their sub loop
    sends           \* messages the clients have sent

vars == <<client, conn, fdOf, loopOf, owner, connections_, next_, listenEdge,
          accepting, acceptFailed, mainQueue, subQueue, running, phase, batch,
          ready, sends>>
loopVars == <<subQueue, running, phase, batch>>
mainVars == <<connections_, next_, listenEdge, accepting, acceptFailed, mainQueue>>
identity == <<fdOf, loopOf, owner>>

Functors == [op : {"established", "destroyed"}, conn : Conns]
Events == [conn : Conns, revents : SUBSET {"IN", "OUT", "HUP", "ERR"}]

TypeOK ==
    /\ client \in [Conns -> {"new", "backlog", "accepted", "destroyed"}]
    /\ conn \in [Conns -> ConnectionType]
    /\ fdOf \in [Conns -> Fds \cup {None}]
    /\ loopOf \in [Conns -> Loops \cup {None}]
    /\ owner \in [Fds -> Conns \cup {None}]
    /\ connections_ \in [Fds -> Conns \cup {None}]
    /\ next_ \in Loops
    /\ listenEdge \in BOOLEAN
    /\ accepting \in BOOLEAN
    /\ acceptFailed \in BOOLEAN
    /\ mainQueue \in Seq(Conns)
    /\ subQueue \in [Loops -> Seq(Functors)]
    /\ running \in [Loops -> Seq(Functors)]
    /\ phase \in [Loops -> {"poll", "dispatch", "functors"}]
    /\ batch \in [Loops -> SUBSET Events]
    /\ ready \in SUBSET Conns
    /\ sends \in 0 .. MaxSends

Init ==
    /\ client = [c \in Conns |-> "new"]
    /\ conn = [c \in Conns |-> NewTcpConnection]
    /\ fdOf = [c \in Conns |-> None]
    /\ loopOf = [c \in Conns |-> None]
    /\ owner = [f \in Fds |-> None]
    /\ connections_ = [f \in Fds |-> None]
    /\ next_ = FirstLoop
    /\ listenEdge = FALSE
    /\ accepting = FALSE
    /\ acceptFailed = FALSE
    /\ mainQueue = <<>>
    /\ subQueue = [l \in Loops |-> <<>>]
    /\ running = [l \in Loops |-> <<>>]
    /\ phase = [l \in Loops |-> "poll"]
    /\ batch = [l \in Loops |-> {}]
    /\ ready = {}
    /\ sends = 0

-----------------------------------------------------------------------------
(* Clients and the kernel.                                                 *)

Connects(c) ==
    /\ client[c] = "new"
    /\ client' = [client EXCEPT ![c] = "backlog"]
    /\ listenEdge' = TRUE
    /\ acceptFailed' = FALSE
    /\ UNCHANGED <<conn, identity, connections_, next_, accepting, mainQueue,
                   loopVars, ready, sends>>

\* The socket of c changes and its sub loop is told, if it is registered.
SocketChanges(c, sock) ==
    /\ conn' = [conn EXCEPT ![c].sock = sock]
    /\ ready' = IF conn[c].ch.inTree THEN ready \cup {c} ELSE ready
    /\ UNCHANGED <<client, identity, mainVars, loopVars>>

\* The connection's socket exists on this side, accepted or still waiting.
Open(c) ==
    \/ client[c] = "backlog"
    \/ client[c] = "accepted" /\ owner[fdOf[c]] = c

PeerSends(c) ==
    /\ Open(c) /\ conn[c].sock.peer = "open"
    /\ sends < MaxSends
    /\ sends' = sends + 1
    /\ SocketChanges(c, [conn[c].sock EXCEPT !.data = TRUE])

PeerCloses(c) ==
    /\ Open(c) /\ conn[c].sock.peer = "open"
    /\ SocketChanges(c, [conn[c].sock EXCEPT !.peer = "fin"])
    /\ UNCHANGED sends

PeerResets(c) ==
    /\ Open(c) /\ conn[c].sock.peer # "rst"
    /\ SocketChanges(c, [conn[c].sock EXCEPT !.peer = "rst", !.data = FALSE])
    /\ UNCHANGED sends

\* The peer reads: the send buffer has room again.
SendBufferDrains(c) ==
    /\ Open(c) /\ conn[c].sock.full
    /\ SocketChanges(c, [conn[c].sock EXCEPT !.full = FALSE])
    /\ UNCHANGED sends

-----------------------------------------------------------------------------
(* The main loop.                                                          *)

\* epoll_wait reports the listening socket and Acceptor::HandleRead starts.
ListenEvent ==
    /\ listenEdge /\ ~accepting
    /\ listenEdge' = FALSE
    /\ accepting' = TRUE
    /\ UNCHANGED <<client, conn, identity, connections_, next_, acceptFailed,
                   mainQueue, loopVars, ready, sends>>

\* Variant: the map is not told, so only the functor holds the connection.
InsertNothing(fd, c) == connections_

\* connections_[conn_fd] = conn
Insert(fd, c) == [connections_ EXCEPT ![fd] = c]

\* accept4 gives a descriptor; NewConnection.
NewConnection(c, fd) ==
    /\ accepting
    /\ client[c] = "backlog"
    /\ owner[fd] = None
    /\ client' = [client EXCEPT ![c] = "accepted"]
    /\ owner' = [owner EXCEPT ![fd] = c]
    /\ fdOf' = [fdOf EXCEPT ![c] = fd]
    /\ loopOf' = [loopOf EXCEPT ![c] = next_]
    /\ next_' = NextLoop[next_]
    /\ connections_' = Insert(fd, c)
    /\ subQueue' = [subQueue EXCEPT ![next_] =
                      Append(@, [op |-> "established", conn |-> c])]
    /\ UNCHANGED <<conn, listenEdge, accepting, acceptFailed, mainQueue,
                   running, phase, batch, ready, sends>>

\* HandleRead breaks out of its loop; the main loop goes on.
AcceptBreaks(failed) ==
    /\ accepting
    /\ accepting' = FALSE
    /\ acceptFailed' = failed
    /\ UNCHANGED <<client, conn, identity, connections_, next_, listenEdge,
                   mainQueue, loopVars, ready, sends>>

\* Variant: the handler returns after any number of clients.
AcceptEndsAtOnce == AcceptBreaks(FALSE)

\* accept4 says EAGAIN: nobody waits.
AcceptEnds ==
    /\ \A c \in Conns : client[c] # "backlog"
    /\ AcceptBreaks(FALSE)

\* accept4 fails with any other errno: EMFILE when no descriptor is left,
\* ENOBUFS, ENOMEM and others at any moment.  Whoever waits is left in the
\* backlog until a client that comes later causes an edge.
AcceptFails == AcceptBreaks(~listenEdge)

\* Variant: the entry stays in the map.
EraseNothing(fd) == connections_

\* connections_.erase
Erase(fd) == [connections_ EXCEPT ![fd] = None]

\* The outer functor of RemoveConnection.
RemoveInMain ==
    /\ ~accepting
    /\ mainQueue # <<>>
    /\ LET c == Head(mainQueue)
       IN  /\ mainQueue' = Tail(mainQueue)
           /\ connections_' = Erase(fdOf[c])
           /\ subQueue' = [subQueue EXCEPT ![loopOf[c]] =
                             Append(@, [op |-> "destroyed", conn |-> c])]
    /\ UNCHANGED <<client, conn, identity, next_, listenEdge, accepting,
                   acceptFailed, running, phase, batch, ready, sends>>

-----------------------------------------------------------------------------
(* A sub loop: events, then functors, as in EventLoop.                     *)

Reported(l) == {c \in ready : loopOf[c] = l /\ Revents(conn[c]) # {}}

\* epoll_wait returns, for events or for the wakeup of a queued functor.  An
\* entry registered without EPOLLET stays on the ready list.
EpollWait(l) ==
    /\ phase[l] = "poll"
    /\ Reported(l) # {} \/ subQueue[l] # <<>>
    /\ batch' = [batch EXCEPT ![l] =
                   {[conn |-> c, revents |-> Revents(conn[c])] : c \in Reported(l)}]
    /\ ready' = ready \ {c \in Reported(l) : "ET" \in conn[c].ch.mask}
    /\ phase' = [phase EXCEPT ![l] = "dispatch"]
    /\ UNCHANGED <<client, conn, identity, mainVars, subQueue, running, sends>>

\* epoll_ctl polls the socket again: what is already there is an edge.
Registered(c, new) ==
    IF new.ch # conn[c].ch /\ Revents(new) # {} THEN ready \cup {c} ELSE ready

Dispatch(l, e) ==
    /\ phase[l] = "dispatch"
    /\ e \in batch[l]
    /\ batch' = [batch EXCEPT ![l] = @ \ {e}]
    /\ \E new \in HandleEvent(conn[e.conn], e.revents) :
         /\ conn' = [conn EXCEPT ![e.conn] = new]
         /\ ready' = Registered(e.conn, new)
         /\ mainQueue' = IF new.removals > conn[e.conn].removals
                         THEN Append(mainQueue, e.conn) ELSE mainQueue
    /\ UNCHANGED <<client, identity, connections_, next_, listenEdge, accepting,
                   acceptFailed, subQueue, running, phase, sends>>

SwapFunctors(l) ==
    /\ phase[l] = "dispatch"
    /\ batch[l] = {}
    /\ running' = [running EXCEPT ![l] = subQueue[l]]
    /\ subQueue' = [subQueue EXCEPT ![l] = <<>>]
    /\ phase' = [phase EXCEPT ![l] = "functors"]
    /\ UNCHANGED <<client, conn, identity, mainVars, batch, ready, sends>>

Establish(l) ==
    /\ phase[l] = "functors"
    /\ running[l] # <<>>
    /\ Head(running[l]).op = "established"
    /\ LET c   == Head(running[l]).conn
           new == ConnectionEstablished(conn[c])
       IN  /\ conn' = [conn EXCEPT ![c] = new]
           /\ ready' = Registered(c, new)
    /\ running' = [running EXCEPT ![l] = Tail(@)]
    /\ UNCHANGED <<client, identity, mainVars, subQueue, phase, batch, sends>>

\* ConnectionDestroyed closes conn_fd_, whoever owns it by now; with the last
\* reference gone the object is destroyed.
Destroy(l) ==
    /\ phase[l] = "functors"
    /\ running[l] # <<>>
    /\ Head(running[l]).op = "destroyed"
    /\ LET c == Head(running[l]).conn
           o == owner[fdOf[c]]
       IN  /\ conn' = [d \in Conns |->
                         IF d = c THEN ConnectionDestroyed(conn[c])
                         ELSE IF d = o THEN [conn[d] EXCEPT !.ch.inTree = FALSE]
                         ELSE conn[d]]
           /\ owner' = [owner EXCEPT ![fdOf[c]] = None]
           /\ client' = [client EXCEPT ![c] = "destroyed"]
           /\ ready' = ready \ {c, o}
    /\ running' = [running EXCEPT ![l] = Tail(@)]
    /\ UNCHANGED <<fdOf, loopOf, mainVars, subQueue, phase, batch, sends>>

PassDone(l) ==
    /\ phase[l] = "functors"
    /\ running[l] = <<>>
    /\ phase' = [phase EXCEPT ![l] = "poll"]
    /\ UNCHANGED <<client, conn, identity, mainVars, subQueue, running, batch,
                   ready, sends>>

-----------------------------------------------------------------------------
MainStep ==
    \/ ListenEvent
    \/ \E c \in Conns, fd \in Fds : NewConnection(c, fd)
    \/ AcceptEnds
    \/ AcceptFails
    \/ RemoveInMain

SubStep(l) ==
    \/ EpollWait(l)
    \/ \E e \in batch[l] : Dispatch(l, e)
    \/ SwapFunctors(l) \/ Establish(l) \/ Destroy(l) \/ PassDone(l)

Next ==
    \/ \E c \in Conns :
         \/ Connects(c) \/ PeerSends(c) \/ PeerCloses(c) \/ PeerResets(c)
         \/ SendBufferDrains(c)
    \/ MainStep
    \/ \E l \in Loops : SubStep(l)

Spec == Init /\ [][Next]_vars

\* Both kinds of loop thread are scheduled; clients owe nothing.
Fairness == WF_vars(MainStep) /\ \A l \in Loops : WF_vars(SubStep(l))

FairSpec == Spec /\ Fairness

-----------------------------------------------------------------------------
(* Properties.                                                             *)

\* The shared_ptrs to the connection object of c.
Referenced(c) ==
    \/ \E fd \in Fds : connections_[fd] = c
    \/ c \in Range(mainQueue)
    \/ \E l \in Loops :
         \E f \in Range(subQueue[l]) \cup Range(running[l]) : f.conn = c

\* The lifetime rule of RemoveConnection's double QueueInLoop: a channel that
\* epoll knows, or whose event a sub loop has still to dispatch, belongs to a
\* connection object that still exists.
NoDanglingChannel ==
    \A c \in Conns :
        (conn[c].ch.inTree \/ \E l \in Loops : \E e \in batch[l] : e.conn = c)
            => Referenced(c)

\* Descriptor numbers are reused without mixing up two clients: a number is in
\* connections_ only under the connection that owns it (RemoveConnection), and
\* ConnectionDestroyed closes its own socket, because until it has run nobody
\* else can have been given the number.
DescriptorsOwned ==
    /\ \A fd \in Fds : connections_[fd] # None => owner[fd] = connections_[fd]
    /\ \A l \in Loops :
         \A f \in Range(subQueue[l]) \cup Range(running[l]) :
             owner[fdOf[f.conn]] = f.conn

\* The application hears of a connection going down at most once, after it has
\* heard of it coming up, and the connection is removed at most once.
CallbacksPaired ==
    \A c \in Conns :
        /\ conn[c].downs <= conn[c].ups /\ conn[c].ups <= 1
        /\ conn[c].removals = conn[c].downs

\* An accepted peer that closes or resets is cleaned up, even if it was gone
\* before it was accepted, unless the application calls Shutdown() on it:
\* HandleClose then returns early and the descriptor is never closed.
GonePeerReleased ==
    \A c \in Conns :
        (client[c] = "accepted" /\ conn[c].sock.peer # "open")
            ~> (client[c] = "destroyed" \/ conn[c].shutdownCalled)

\* Acceptor::HandleRead: there is only one edge for clients that come while
\* others are being accepted, and the loop takes them all: a client stays in
\* the backlog for ever only if an error of accept4 has ended the loop and no
\* edge has come since.
BacklogServed ==
    \A c \in Conns : client[c] = "backlog" ~> (client[c] # "backlog" \/ acceptFailed)
=============================================================================
