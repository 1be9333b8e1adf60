--------------------------- MODULE TcpServerProofs ---------------------------
(***************************************************************************)
(* Proofs about TcpServer, for any clients, descriptors and sub loops, any *)
(* order of the round robin and any bound on the messages.                 *)
(***************************************************************************)
EXTENDS TcpServer, SequenceTheorems, TLAPS

-----------------------------------------------------------------------------
(* What the handlers of a TcpConnection do to its record.                  *)

\* index_ tells whether the channel is in epoll.
InStep(ch) == ch.inTree <=> ch.index \in {1, 2}

Good(k) == k \in ConnectionType /\ InStep(k.ch)

\* A connection that is up, or on its way down.
Serves(k) == Good(k) /\ k.state \in {"kConnected", "kDisconnecting"}

\* From k to n nothing was reported; the connection was closed and reported.
Quietly(k, n) ==
    /\ Serves(n)
    /\ n.ups = k.ups /\ n.downs = k.downs /\ n.removals = k.removals
    /\ k.state = "kDisconnecting" => n.state = "kDisconnecting"

Closing(k, n) ==
    /\ Serves(n)
    /\ k.state = "kConnected" /\ n.state = "kDisconnecting"
    /\ n.ups = k.ups /\ n.downs = k.downs + 1 /\ n.removals = k.removals + 1

Follows(k, n) == Quietly(k, n) \/ Closing(k, n)

\* Every change of the mask keeps index_ in step with epoll.
LEMMA UpdateInStep ==
  ASSUME NEW ch \in ChannelType, InStep(ch), NEW ev \in SUBSET EventBits
  PROVE  /\ UpdateChannel([ch EXCEPT !.events = ev]) \in ChannelType
         /\ InStep(UpdateChannel([ch EXCEPT !.events = ev]))
  BY DEF ChannelType, InStep, UpdateChannel, EpollAdd, EpollMod

\* So do the calls that the handlers make.
LEMMA ChannelCalls ==
  ASSUME NEW ch \in ChannelType, InStep(ch)
  PROVE  /\ EnableReading(ch) \in ChannelType /\ InStep(EnableReading(ch))
         /\ EnableWriting(ch) \in ChannelType /\ InStep(EnableWriting(ch))
         /\ DisableWriting(ch) \in ChannelType /\ InStep(DisableWriting(ch))
         /\ DisableAll(ch) \in ChannelType /\ InStep(DisableAll(ch))
         /\ RemoveChannel(ch) \in ChannelType /\ ~RemoveChannel(ch).inTree
         /\ InStep(RemoveChannel(ch))
  <1>1. ch.events \in SUBSET EventBits /\ {"IN", "OUT", "ET"} = EventBits
    BY DEF ChannelType, EventBits
  <1>2. EnableReading(ch) \in ChannelType /\ InStep(EnableReading(ch))
    BY <1>1, UpdateInStep DEF EnableReading
  <1>3. EnableWriting(ch) \in ChannelType /\ InStep(EnableWriting(ch))
    BY <1>1, UpdateInStep DEF EnableWriting
  <1>4. DisableWriting(ch) \in ChannelType /\ InStep(DisableWriting(ch))
    BY <1>1, UpdateInStep DEF DisableWriting
  <1>5. DisableAll(ch) \in ChannelType /\ InStep(DisableAll(ch))
    BY <1>1, UpdateInStep DEF DisableAll
  <1>6. RemoveChannel(ch) \in ChannelType /\ ~RemoveChannel(ch).inTree /\ InStep(RemoveChannel(ch))
    <2> DEFINE r == [ch EXCEPT !.inTree = FALSE, !.index = -1]
    <2>1. RemoveChannel(ch) = r
      <3>1. CASE ch.index \in {1, 2}
        BY <3>1 DEF RemoveChannel, ChannelType
      <3>2. CASE ch.index \notin {1, 2}
        <4>1. ch.inTree = FALSE
          BY <3>2 DEF InStep, ChannelType
        <4> QED
          BY <3>2, <4>1 DEF RemoveChannel, ChannelType
      <3> QED
        BY <3>1, <3>2
    <2>2. r \in ChannelType /\ r.inTree = FALSE /\ r.index = -1
      BY DEF ChannelType
    <2>3. -1 \notin {1, 2}
      OBVIOUS
    <2> HIDE DEF r
    <2> QED
      BY <2>1, <2>2, <2>3 DEF InStep
  <1> QED
    BY <1>2, <1>3, <1>4, <1>5, <1>6

\* Handlers compose.
LEMMA FollowsTwice ==
  ASSUME NEW k, NEW m, NEW n, Serves(k),
         Follows(k, m), Follows(m, n)
  PROVE  Follows(k, n)
  <1>1. /\ k.downs \in Nat /\ k.removals \in Nat
        /\ k.state = "kConnected" \/ k.state = "kDisconnecting"
    BY DEF Serves, Good, ConnectionType
  <1>2. CASE Quietly(m, n)
    BY <1>1, <1>2 DEF Follows, Quietly, Closing
  <1>3. CASE Closing(m, n)
    BY <1>1, <1>3 DEF Follows, Quietly, Closing
  <1> QED
    BY <1>2, <1>3 DEF Follows

\* A write, or the part of it that goes to the output buffer.
LEMMA SendFollows ==
  ASSUME NEW k, Serves(k), NEW n \in SendInLoop(k)
  PROVE  Quietly(k, n)
  <1> DEFINE ch == IF IsWriting(k.ch) THEN k.ch ELSE EnableWriting(k.ch)
             b  == [k EXCEPT !.backlog = TRUE, !.ch = ch]
  <1>1. k \in ConnectionType /\ k.ch \in ChannelType /\ InStep(k.ch)
    BY DEF Serves, Good, ConnectionType
  <1>2. ch \in ChannelType /\ InStep(ch)
    BY <1>1, ChannelCalls
  <1>3. n \in {k, b, [b EXCEPT !.sock.full = TRUE]}
    BY <1>1 DEF SendInLoop, Serves, ConnectionType
  <1> HIDE DEF ch
  <1>4. Quietly(k, b)
    BY <1>1, <1>2 DEF Quietly, Serves, Good, ConnectionType
  <1>5. Quietly(k, [b EXCEPT !.sock.full = TRUE])
    BY <1>1, <1>2 DEF Quietly, Serves, Good, ConnectionType, SocketType
  <1>6. Quietly(k, k)
    BY DEF Quietly, Serves
  <1> QED
    BY <1>3, <1>4, <1>5, <1>6

\* Shutdown() reports nothing.
LEMMA ShutdownFollows ==
  ASSUME NEW k, Serves(k)
  PROVE  Quietly(k, Shutdown(k))
  BY DEF Quietly, Serves, Good, ConnectionType, SocketType, Shutdown, ShutdownInLoop, States

\* HandleClose reports once, and only from kConnected.
LEMMA CloseFollows ==
  ASSUME NEW k, Serves(k)
  PROVE  Follows(k, HandleClose(k))
  <1>1. k \in ConnectionType /\ k.ch \in ChannelType /\ InStep(k.ch)
    BY DEF Serves, Good, ConnectionType
  <1>2. DisableAll(k.ch) \in ChannelType /\ InStep(DisableAll(k.ch))
    BY <1>1, ChannelCalls
  <1>3. CASE k.state = "kDisconnecting"
    BY <1>3 DEF HandleClose, Follows, Quietly
  <1>4. CASE k.state = "kConnected"
    <2>0. k.downs + 1 \in Nat /\ k.removals + 1 \in Nat
      BY <1>1 DEF ConnectionType
    <2> PICK d \in Nat, r \in Nat, ch \in ChannelType :
           d = k.downs + 1 /\ r = k.removals + 1 /\ ch = DisableAll(k.ch)
      BY <1>2, <2>0
    <2> DEFINE h == [k EXCEPT !.state = "kDisconnecting", !.ch = ch, !.downs = d, !.removals = r]
    <2>1. HandleClose(k) = h
      BY <1>4 DEF HandleClose
    <2>2. h \in ConnectionType
      BY <1>1 DEF ConnectionType, States
    <2>3. /\ h.ch = DisableAll(k.ch) /\ h.state = "kDisconnecting"
          /\ h.ups = k.ups /\ h.downs = k.downs + 1 /\ h.removals = k.removals + 1
      BY <1>1 DEF ConnectionType
    <2> HIDE DEF h
    <2> QED
      BY <1>2, <1>4, <2>1, <2>2, <2>3 DEF Follows, Closing, Serves, Good
  <1> QED
    BY <1>3, <1>4 DEF Serves

\* HandleRead: the message callback, then what the last read says.
LEMMA ReadFollows ==
  ASSUME NEW k, Serves(k), NEW n \in HandleRead(k)
  PROVE  Follows(k, n)
  <1> DEFINE drained == [k EXCEPT !.sock.data = FALSE]
  <1>1. Quietly(k, drained) /\ Serves(drained) /\ k.downs \in Nat /\ k.removals \in Nat
    BY DEF Quietly, Serves, Good, ConnectionType, SocketType
  <1> HIDE DEF drained
  <1>2. PICK d \in OnMessage(drained) \cup {drained} : n = AfterReading(d)
    BY DEF HandleRead, drained
  <1>3. Quietly(drained, d)
    <2>1. Quietly(drained, drained)
      BY <1>1 DEF Quietly
    <2>2. ASSUME NEW e \in {drained} \cup SendInLoop(drained)
          PROVE  Quietly(drained, e) /\ Quietly(drained, Shutdown(e))
      <3>1. Quietly(drained, e)
        BY <1>1, <2>1, SendFollows
      <3>2. Quietly(e, Shutdown(e))
        BY <3>1, ShutdownFollows DEF Quietly
      <3> QED
        BY <3>1, <3>2 DEF Quietly
    <2> QED
      BY <2>1, <2>2 DEF OnMessage
  <1>4. Quietly(k, d) /\ Serves(d)
    BY <1>1, <1>3 DEF Quietly
  <1>5. Follows(d, n)
    <2>1. Follows(d, d)
      BY <1>4 DEF Follows, Quietly
    <2> QED
      BY <1>2, <1>4, <2>1, CloseFollows DEF AfterReading
  <1> QED
    BY <1>1, <1>4, <1>5, FollowsTwice DEF Follows

\* HandleWrite reports nothing.
LEMMA WriteFollows ==
  ASSUME NEW k, Serves(k), NEW n \in HandleWrite(k)
  PROVE  Quietly(k, n)
  <1> DEFINE w == [k EXCEPT !.backlog = FALSE, !.ch = DisableWriting(k.ch)]
  <1>1. k \in ConnectionType /\ k.ch \in ChannelType /\ InStep(k.ch)
    BY DEF Serves, Good, ConnectionType
  <1>2. DisableWriting(k.ch) \in ChannelType /\ InStep(DisableWriting(k.ch))
    BY <1>1, ChannelCalls
  <1>3. n \in {k, [k EXCEPT !.sock.full = TRUE], AfterBacklog(w)}
    BY <1>1 DEF HandleWrite, ConnectionType
  <1>4. Quietly(k, k)
    BY DEF Quietly
  <1>5. Quietly(k, [k EXCEPT !.sock.full = TRUE])
    BY <1>1 DEF Quietly, Serves, Good, ConnectionType, SocketType
  <1>6. Quietly(k, w) /\ Serves(w) /\ w \in ConnectionType
    BY <1>1, <1>2 DEF Quietly, Serves, Good, ConnectionType
  <1> HIDE DEF w
  <1>7. Quietly(w, AfterBacklog(w))
    BY <1>6 DEF Quietly, Serves, Good, ConnectionType, SocketType, AfterBacklog
  <1> QED
    BY <1>3, <1>4, <1>5, <1>6, <1>7 DEF Quietly

\* Whatever epoll reports, HandleEvent takes the connection down once at most.
LEMMA EventFollows ==
  ASSUME NEW k, Serves(k), NEW revents, NEW n \in HandleEvent(k, revents)
  PROVE  Follows(k, n)
  <1> DEFINE closed == IF "HUP" \in revents /\ "IN" \notin revents THEN HandleClose(k) ELSE k
             read   == IF "IN" \in revents THEN HandleRead(closed) ELSE {closed}
  <1>0. k.downs \in Nat /\ k.removals \in Nat /\ Follows(k, k)
    BY DEF Serves, Good, ConnectionType, Follows, Quietly
  <1>1. Follows(k, closed)
    BY <1>0, CloseFollows
  <1>2. Serves(closed) /\ closed.downs \in Nat /\ closed.removals \in Nat
    BY <1>1 DEF Follows, Quietly, Closing, Serves, Good, ConnectionType
  <1>3. n \in read \/ \E r \in read : n \in HandleWrite(r)
    BY DEF HandleEvent
  <1> HIDE DEF closed
  <1>4. ASSUME NEW r \in read
        PROVE  Follows(k, r) /\ Serves(r)
    <2>1. Follows(closed, r)
      BY <1>2, ReadFollows DEF Follows, Quietly
    <2>2. Follows(k, r)
      BY <1>0, <1>1, <2>1, FollowsTwice
    <2> QED
      BY <2>2 DEF Follows, Quietly, Closing
  <1>5. ASSUME NEW r \in read, n \in HandleWrite(r)
        PROVE  Follows(k, n)
    <2>1. Follows(r, n)
      BY <1>4, <1>5, WriteFollows DEF Follows
    <2> QED
      BY <1>0, <1>4, <2>1, FollowsTwice
  <1> QED
    BY <1>3, <1>4, <1>5
-----------------------------------------------------------------------------
(* Functors and queues.                                                    *)

Ops == {"established", "destroyed"}

\* s holds a functor for c; no two for the same connection.
Job(s, op, c) == \E i \in 1 .. Len(s) : s[i] = [op |-> op, conn |-> c]

OnePer(s) == \A i, j \in 1 .. Len(s) : s[i].conn = s[j].conn => i = j

\* The main loop has been asked to remove c; at most once.
In(q, c) == \E i \in 1 .. Len(q) : q[i] = c

Once(q) == \A i, j \in 1 .. Len(q) : q[i] = q[j] => i = j

\* A functor more.
LEMMA JobAppend ==
  ASSUME NEW s \in Seq(Functors), NEW f \in Functors
  PROVE  /\ Append(s, f) \in Seq(Functors)
         /\ \A op, c : Job(Append(s, f), op, c) <=> Job(s, op, c) \/ f = [op |-> op, conn |-> c]
         /\ OnePer(s) /\ (\A op \in Ops : ~Job(s, op, f.conn)) => OnePer(Append(s, f))
  <1> DEFINE t == Append(s, f)
  <1>1. /\ t \in Seq(Functors) /\ Len(t) = Len(s) + 1 /\ Len(s) \in Nat
        /\ \A i \in 1 .. Len(s) : t[i] = s[i]
        /\ t[Len(s) + 1] = f
    BY AppendProperties
  <1> HIDE DEF t
  <1>2. \A op, c : Job(t, op, c) <=> Job(s, op, c) \/ f = [op |-> op, conn |-> c]
    BY <1>1 DEF Job
  <1>3. ASSUME OnePer(s), \A op \in Ops : ~Job(s, op, f.conn)
        PROVE  OnePer(t)
    <2>1. ASSUME NEW i \in 1 .. Len(s)
          PROVE  s[i].conn # f.conn
      <3>1. s[i] \in Functors
        OBVIOUS
      <3>2. s[i].op \in Ops /\ s[i] = [op |-> s[i].op, conn |-> s[i].conn]
        BY <3>1 DEF Functors, Ops
      <3> QED
        BY <1>3, <3>2 DEF Job
    <2> QED
      BY <1>1, <1>3, <2>1 DEF OnePer
  <1> QED
    BY <1>1, <1>2, <1>3 DEF t

\* A functor is taken from the front.
LEMMA JobTail ==
  ASSUME NEW s \in Seq(Functors), s # <<>>, OnePer(s)
  PROVE  /\ Tail(s) \in Seq(Functors)
         /\ Head(s) \in Functors
         /\ Job(s, Head(s).op, Head(s).conn)
         /\ \A op, c : Job(Tail(s), op, c) <=> Job(s, op, c) /\ c # Head(s).conn
         /\ OnePer(Tail(s))
  <1> DEFINE t == Tail(s)
  <1>1. /\ t \in Seq(Functors) /\ Len(t) = Len(s) - 1 /\ Len(s) \in Nat /\ 1 \in 1 .. Len(s)
        /\ Head(s) = s[1]
        /\ \A i \in 1 .. Len(t) : i + 1 \in 1 .. Len(s) /\ t[i] = s[i + 1]
    BY HeadTailProperties
  <1> HIDE DEF t
  <1>2. s[1] \in Functors /\ s[1] = [op |-> s[1].op, conn |-> s[1].conn]
    <2>1. s[1] \in Functors
      BY <1>1
    <2> QED
      BY <2>1 DEF Functors
  <1>3. ASSUME NEW op, NEW c
        PROVE  Job(t, op, c) <=> Job(s, op, c) /\ c # s[1].conn
    <2>1. ASSUME Job(t, op, c)
          PROVE  Job(s, op, c) /\ c # s[1].conn
      <3>1. PICK i \in 1 .. Len(t) : t[i] = [op |-> op, conn |-> c]
        BY <2>1 DEF Job
      <3>2. i + 1 \in 1 .. Len(s) /\ i + 1 # 1 /\ s[i + 1] = [op |-> op, conn |-> c]
        BY <1>1, <3>1
      <3>3. s[i + 1].conn = c
        BY <3>2
      <3> QED
        BY <1>1, <3>2, <3>3 DEF Job, OnePer
    <2>2. ASSUME Job(s, op, c), c # s[1].conn
          PROVE  Job(t, op, c)
      <3>1. PICK i \in 1 .. Len(s) : s[i] = [op |-> op, conn |-> c]
        BY <2>2 DEF Job
      <3>2. i # 1
        BY <2>2, <3>1
      <3>3. i - 1 \in 1 .. Len(t) /\ (i - 1) + 1 = i
        BY <1>1, <3>1, <3>2
      <3>4. t[i - 1] = s[i]
        BY <1>1, <3>3
      <3> QED
        BY <3>1, <3>3, <3>4 DEF Job
    <2> QED
      BY <2>1, <2>2
  <1>4. OnePer(t)
    <2> SUFFICES ASSUME NEW i \in 1 .. Len(t), NEW j \in 1 .. Len(t), t[i].conn = t[j].conn
                 PROVE  i = j
      BY DEF OnePer
    <2>1. i + 1 = j + 1
      BY <1>1 DEF OnePer
    <2> QED
      BY <2>1
  <1> QED
    BY <1>1, <1>2, <1>3, <1>4 DEF t, Job

\* A removal more.
LEMMA InAppend ==
  ASSUME NEW q \in Seq(Conns), NEW c \in Conns
  PROVE  /\ Append(q, c) \in Seq(Conns)
         /\ \A d : In(Append(q, c), d) <=> In(q, d) \/ d = c
         /\ Once(q) /\ ~In(q, c) => Once(Append(q, c))
  <1> DEFINE t == Append(q, c)
  <1>1. /\ t \in Seq(Conns) /\ Len(t) = Len(q) + 1 /\ Len(q) \in Nat
        /\ \A i \in 1 .. Len(q) : t[i] = q[i]
        /\ t[Len(q) + 1] = c
    BY AppendProperties
  <1> HIDE DEF t
  <1>2. \A d : In(t, d) <=> In(q, d) \/ d = c
    BY <1>1 DEF In
  <1>3. Once(q) /\ ~In(q, c) => Once(t)
    BY <1>1 DEF In, Once
  <1> QED
    BY <1>1, <1>2, <1>3 DEF t

\* A removal is taken from the front.
LEMMA InTail ==
  ASSUME NEW q \in Seq(Conns), q # <<>>, Once(q)
  PROVE  /\ Tail(q) \in Seq(Conns)
         /\ Head(q) \in Conns /\ In(q, Head(q))
         /\ \A d : In(Tail(q), d) <=> In(q, d) /\ d # Head(q)
         /\ Once(Tail(q))
  <1> DEFINE t == Tail(q)
  <1>1. /\ t \in Seq(Conns) /\ Len(t) = Len(q) - 1 /\ Len(q) \in Nat /\ 1 \in 1 .. Len(q)
        /\ Head(q) = q[1] /\ q[1] \in Conns
        /\ \A i \in 1 .. Len(t) : i + 1 \in 1 .. Len(q) /\ t[i] = q[i + 1]
    BY HeadTailProperties
  <1> HIDE DEF t
  <1>2. ASSUME NEW d
        PROVE  In(t, d) <=> In(q, d) /\ d # q[1]
    <2>1. ASSUME NEW i \in 1 .. Len(t), t[i] = d
          PROVE  In(q, d) /\ d # q[1]
      <3>1. i + 1 \in 1 .. Len(q) /\ i + 1 # 1 /\ q[i + 1] = d
        BY <1>1, <2>1
      <3> QED
        BY <1>1, <3>1 DEF In, Once
    <2>2. ASSUME NEW i \in 1 .. Len(q), q[i] = d, d # q[1]
          PROVE  In(t, d)
      <3>1. i - 1 \in 1 .. Len(t) /\ (i - 1) + 1 = i
        BY <1>1, <2>2
      <3>2. t[i - 1] = q[i]
        BY <1>1, <3>1
      <3> QED
        BY <2>2, <3>1, <3>2 DEF In
    <2> QED
      BY <2>1, <2>2 DEF In
  <1>3. Once(t)
    <2> SUFFICES ASSUME NEW i \in 1 .. Len(t), NEW j \in 1 .. Len(t), t[i] = t[j]
                 PROVE  i = j
      BY DEF Once
    <2>1. i + 1 = j + 1
      BY <1>1 DEF Once
    <2> QED
      BY <2>1
  <1> QED
    BY <1>1, <1>2, <1>3 DEF t, In


\* A sub loop has a functor to run, swapped out or still queued; no two for the
\* same connection.
Todo(r, s, op, c) == Job(r, op, c) \/ Job(s, op, c)

Distinct(r, s) ==
    /\ OnePer(r) /\ OnePer(s)
    /\ \A o, p \in Ops, c \in Conns : ~(Job(r, o, c) /\ Job(s, p, c))

\* QueueInLoop.
LEMMA TodoQueued ==
  ASSUME NEW r \in Seq(Functors), NEW s \in Seq(Functors), NEW f \in Functors,
         Distinct(r, s), \A op \in Ops : ~Todo(r, s, op, f.conn)
  PROVE  /\ Append(s, f) \in Seq(Functors)
         /\ \A op, c : Todo(r, Append(s, f), op, c) <=> Todo(r, s, op, c) \/ f = [op |-> op, conn |-> c]
         /\ Distinct(r, Append(s, f))
  <1>1. /\ Append(s, f) \in Seq(Functors)
        /\ \A op, c : Job(Append(s, f), op, c) <=> Job(s, op, c) \/ f = [op |-> op, conn |-> c]
        /\ OnePer(Append(s, f))
    BY JobAppend DEF Distinct, Todo
  <1>2. ASSUME NEW o \in Ops, NEW p, NEW c, Job(r, o, c), f = [op |-> p, conn |-> c]
        PROVE  FALSE
    <2>1. f.conn = c
      BY <1>2
    <2> QED
      BY <1>2, <2>1 DEF Todo
  <1> QED
    BY <1>1, <1>2 DEF Todo, Distinct

\* DoPendingFunctors swaps the queue out.
LEMMA TodoSwapped ==
  ASSUME NEW s \in Seq(Functors), Distinct(<<>>, s)
  PROVE  /\ \A op, c : Todo(s, <<>>, op, c) <=> Todo(<<>>, s, op, c)
         /\ Distinct(s, <<>>)
  BY DEF Todo, Distinct

\* A functor is run.
LEMMA TodoRun ==
  ASSUME NEW r \in Seq(Functors), NEW s \in Seq(Functors), Distinct(r, s), r # <<>>
  PROVE  /\ Tail(r) \in Seq(Functors)
         /\ Head(r) \in Functors
         /\ Todo(r, s, Head(r).op, Head(r).conn)
         /\ \A op \in Ops, c \in Conns :
              Todo(Tail(r), s, op, c) <=> Todo(r, s, op, c) /\ c # Head(r).conn
         /\ Distinct(Tail(r), s)
  <1>1. /\ Tail(r) \in Seq(Functors)
        /\ Head(r) \in Functors
        /\ Job(r, Head(r).op, Head(r).conn)
        /\ \A op, c : Job(Tail(r), op, c) <=> Job(r, op, c) /\ c # Head(r).conn
        /\ OnePer(Tail(r))
    BY JobTail DEF Distinct
  <1>2. Head(r).op \in Ops /\ Head(r).conn \in Conns
    BY <1>1 DEF Functors, Ops
  <1> QED
    BY <1>1, <1>2 DEF Todo, Distinct

-----------------------------------------------------------------------------
(* The inductive invariant.                                                *)

\* The sub loop l has a functor for c.
Has(l, op, c) == Todo(running[l], subQueue[l], op, c)

\* A connection record that no handler has touched.
Fresh(k) ==
    /\ Good(k) /\ ~k.ch.inTree
    /\ k.ups = 0 /\ k.downs = 0 /\ k.removals = 0

Up(k) == Serves(k) /\ k.ups = 1 /\ k.downs = 0 /\ k.removals = 0

Down(k) ==
    /\ Serves(k) /\ k.state = "kDisconnecting"
    /\ k.ups = 1 /\ k.downs = 1 /\ k.removals = 1

\* An accepted connection waits to be established, is up, waits for the main
\* loop to remove it, or waits for its own loop to destroy it.  The reference
\* that keeps the object alive passes from the one to the other.
ToEstablish(c) ==
    /\ Fresh(conn[c]) /\ connections_[fdOf[c]] = c /\ ~In(mainQueue, c)
    /\ Has(loopOf[c], "established", c) /\ ~Has(loopOf[c], "destroyed", c)

Serving(c) ==
    /\ Up(conn[c]) /\ connections_[fdOf[c]] = c /\ ~In(mainQueue, c)
    /\ \A op \in Ops : ~Has(loopOf[c], op, c)

ToRemove(c) ==
    /\ Down(conn[c]) /\ connections_[fdOf[c]] = c /\ In(mainQueue, c)
    /\ \A op \in Ops : ~Has(loopOf[c], op, c)

ToDestroy(c) ==
    /\ Down(conn[c]) /\ connections_[fdOf[c]] # c /\ ~In(mainQueue, c)
    /\ Has(loopOf[c], "destroyed", c) /\ ~Has(loopOf[c], "established", c)

Accepted(c) ==
    /\ loopOf[c] \in Loops /\ fdOf[c] \in Fds /\ owner[fdOf[c]] = c
    /\ ToEstablish(c) \/ Serving(c) \/ ToRemove(c) \/ ToDestroy(c)

Stage(c) ==
    /\ client[c] \in {"new", "backlog"} => Fresh(conn[c])
    /\ client[c] = "accepted" => Accepted(c)
    /\ client[c] = "destroyed" =>
         /\ Good(conn[c]) /\ ~conn[c].ch.inTree
         /\ conn[c].ups = 1 /\ conn[c].downs = 1 /\ conn[c].removals = 1

\* Who is named in a queue has been accepted and not destroyed, and is named
\* once and by its own loop.
Queues ==
    /\ \A l \in Loops : Distinct(running[l], subQueue[l])
    /\ \A l \in Loops, op \in Ops, c \in Conns :
         Has(l, op, c) => client[c] = "accepted" /\ loopOf[c] = l
    /\ Once(mainQueue)
    /\ \A c \in Conns : In(mainQueue, c) => client[c] = "accepted"

\* Events come before functors in a pass, so no functor runs while an event of
\* the pass is still to be dispatched.
Passes ==
    /\ \A l \in Loops : phase[l] # "functors" => running[l] = <<>>
    /\ \A l \in Loops : \A e \in batch[l] :
         /\ phase[l] = "dispatch" /\ loopOf[e.conn] = l
         /\ client[e.conn] = "accepted" /\ conn[e.conn].ups = 1

\* The descriptor table and the map know the same connections.
Descriptors ==
    \A fd \in Fds :
        /\ owner[fd] # None => client[owner[fd]] = "accepted" /\ fdOf[owner[fd]] = fd
        /\ connections_[fd] # None => owner[fd] = connections_[fd]

ServerInv ==
    /\ TypeOK
    /\ \A c \in Conns : Stage(c)
    /\ Queues
    /\ Passes
    /\ Descriptors

-----------------------------------------------------------------------------
(* The invariant holds at first.                                           *)

\* A new TcpConnection is fresh.
LEMMA FreshRecord == Fresh(NewTcpConnection)
  BY DEF Fresh, Good, InStep, NewTcpConnection, NewChannel, NewSocket, ConnectionType,
         ChannelType, SocketType, States

\* There is nobody.
LEMMA InitServerInv == Init => ServerInv
  <1> SUFFICES ASSUME Init PROVE ServerInv
    OBVIOUS
  <1>1. TypeOK
    <2>1. NewTcpConnection \in ConnectionType /\ 0 \in 0 .. MaxSends
      BY FreshRecord, TcpServerAssumption DEF Fresh, Good
    <2>2. /\ client \in [Conns -> {"new", "backlog", "accepted", "destroyed"}]
          /\ conn \in [Conns -> ConnectionType]
      BY <2>1 DEF Init
    <2>3. /\ mainQueue \in Seq(Conns)
          /\ subQueue \in [Loops -> Seq(Functors)]
          /\ running \in [Loops -> Seq(Functors)]
      BY DEF Init
    <2> QED
      BY <2>1, <2>2, <2>3, TcpServerAssumption DEF Init, TypeOK
  <1>2. \A c \in Conns : Stage(c)
    BY FreshRecord DEF Init, Stage
  <1>3. Queues
    BY DEF Init, Queues, Distinct, OnePer, Has, Todo, Job, Once, In
  <1>4. Passes
    BY DEF Init, Passes
  <1>5. Descriptors
    BY DEF Init, Descriptors
  <1> QED
    BY <1>1, <1>2, <1>3, <1>4, <1>5 DEF ServerInv

-----------------------------------------------------------------------------
(* Every step keeps it.                                                    *)

\* A connection that a step does not concern stays where it is.
LEMMA StageKept ==
  ASSUME NEW c \in Conns, Stage(c),
         client'[c] = client[c], conn'[c] = conn[c],
         fdOf'[c] = fdOf[c], loopOf'[c] = loopOf[c],
         owner'[fdOf[c]] = owner[fdOf[c]], connections_'[fdOf[c]] = connections_[fdOf[c]],
         In(mainQueue', c) <=> In(mainQueue, c),
         \A l \in Loops, op \in Ops : Has(l, op, c)' <=> Has(l, op, c)
  PROVE  Stage(c)'
  BY DEF Stage, Accepted, ToEstablish, Serving, ToRemove, ToDestroy, Ops, Has

\* The socket of a connection has no part in its stage.
LEMMA SocketKept ==
  ASSUME NEW k \in ConnectionType, NEW s \in SocketType
  PROVE  LET n == [k EXCEPT !.sock = s]
         IN  /\ n \in ConnectionType
             /\ n.state = k.state /\ n.ch = k.ch
             /\ n.ups = k.ups /\ n.downs = k.downs /\ n.removals = k.removals
             /\ Fresh(k) => Fresh(n)
             /\ Up(k) => Up(n)
             /\ Down(k) => Down(n)
  <1> DEFINE n == [k EXCEPT !.sock = s]
  <1>1. /\ n \in ConnectionType
        /\ n.state = k.state /\ n.ch = k.ch
        /\ n.ups = k.ups /\ n.downs = k.downs /\ n.removals = k.removals
    BY DEF ConnectionType
  <1> HIDE DEF n
  <1> QED
    BY <1>1 DEF n, Fresh, Up, Down, Serves, Good

\* The clients and the network change sockets only.
LEMMA SocketChangesKeep ==
  ASSUME ServerInv, NEW c \in Conns, NEW s \in SocketType,
         SocketChanges(c, s), sends' \in 0 .. MaxSends
  PROVE  ServerInv'
  <1> DEFINE n == [conn[c] EXCEPT !.sock = s]
  <1>0. TypeOK /\ conn[c] \in ConnectionType /\ conn' = [conn EXCEPT ![c] = n]
    BY DEF ServerInv, TypeOK, SocketChanges
  <1>1. /\ n \in ConnectionType
        /\ n.state = conn[c].state /\ n.ch = conn[c].ch
        /\ n.ups = conn[c].ups /\ n.downs = conn[c].downs /\ n.removals = conn[c].removals
        /\ Fresh(conn[c]) => Fresh(n)
        /\ Up(conn[c]) => Up(n)
        /\ Down(conn[c]) => Down(n)
    BY <1>0, SocketKept
  <1> HIDE DEF n
  <1>u. UNCHANGED <<client, fdOf, loopOf, owner, connections_, next_, listenEdge, accepting, acceptFailed,
                    mainQueue, subQueue, running, phase, batch>>
    BY DEF SocketChanges, identity, mainVars, loopVars
  <1>2. TypeOK'
    BY <1>0, <1>1, <1>u DEF TypeOK, SocketChanges
  <1>3. \A l \in Loops : \A op, d : Has(l, op, d)' <=> Has(l, op, d)
    BY <1>u DEF Has
  <1>4. ASSUME NEW d \in Conns
        PROVE  Stage(d)'
    <2>1. Stage(d)
      BY DEF ServerInv
    <2>2. CASE d # c
      BY <1>0, <1>3, <1>u, <2>1, <2>2, StageKept DEF TypeOK
    <2>3. CASE d = c
      <3>1. conn'[c] = n
        BY <1>0 DEF TypeOK
      <3>2. client[c] = "destroyed" /\ Good(conn[c]) => Good(n)
        BY <1>1 DEF Good
      <3> QED
        BY <1>1, <1>u, <2>1, <2>3, <3>1, <3>2
        DEF Stage, Accepted, ToEstablish, Serving, ToRemove, ToDestroy, Has
    <2> QED
      BY <2>2, <2>3
  <1>5. Queues'
    BY <1>u DEF ServerInv, Queues, Has
  <1>6. Passes'
    <2>1. \A d \in Conns : conn'[d].ups = conn[d].ups
      BY <1>0, <1>1 DEF TypeOK
    <2> QED
      BY <1>0, <1>u, <2>1 DEF ServerInv, Passes, TypeOK, Events
  <1>7. Descriptors'
    BY <1>u DEF ServerInv, Descriptors
  <1> QED
    BY <1>2, <1>4, <1>5, <1>6, <1>7 DEF ServerInv

\* A client connects.
LEMMA ConnectsKeeps ==
  ASSUME ServerInv, NEW c \in Conns, Connects(c)
  PROVE  ServerInv'
  <1>0. TypeOK /\ client[c] = "new" /\ client' = [client EXCEPT ![c] = "backlog"]
    BY DEF ServerInv, Connects
  <1>u. UNCHANGED <<conn, fdOf, loopOf, owner, connections_, next_, accepting, mainQueue,
                    subQueue, running, phase, batch, ready, sends>>
    BY DEF Connects, identity, loopVars
  <1>1. TypeOK'
    BY <1>0, <1>u DEF TypeOK, Connects
  <1>2. ASSUME NEW d \in Conns
        PROVE  Stage(d)'
    <2>1. Stage(d)
      BY DEF ServerInv
    <2>2. CASE d # c
      BY <1>0, <1>u, <2>1, <2>2, StageKept DEF TypeOK, Has
    <2>3. CASE d = c
      BY <1>0, <1>u, <2>1, <2>3 DEF TypeOK, Stage
    <2> QED
      BY <2>2, <2>3
  <1>3. \A d \in Conns : client[d] = "accepted" => client'[d] = "accepted"
    BY <1>0 DEF TypeOK
  <1>4. Queues'
    BY <1>3, <1>u DEF ServerInv, Queues, Has
  <1>5. Passes'
    BY <1>0, <1>3, <1>u DEF ServerInv, Passes, TypeOK, Events
  <1>6. Descriptors'
    BY <1>0, <1>3, <1>u DEF ServerInv, Descriptors, TypeOK
  <1> QED
    BY <1>1, <1>2, <1>4, <1>5, <1>6 DEF ServerInv

\* Steps of the main loop that touch no connection, and the end of a pass.
LEMMA IdleKeeps ==
  ASSUME ServerInv, TypeOK',
         UNCHANGED <<client, conn, fdOf, loopOf, owner, connections_, mainQueue,
                     subQueue, running, batch>>,
         \A l \in Loops : phase'[l] = phase[l] \/ (phase[l] = "functors" /\ running[l] = <<>>)
  PROVE  ServerInv'
  <1>1. \A c \in Conns : Stage(c)'
    BY StageKept DEF ServerInv, Has
  <1>2. Queues' /\ Descriptors'
    BY DEF ServerInv, Queues, Has, Descriptors
  <1>3. Passes'
    BY DEF ServerInv, Passes
  <1> QED
    BY <1>1, <1>2, <1>3 DEF ServerInv

\* The main loop accepts a client, the functor that establishes it is queued.
LEMMA NewConnectionKeeps ==
  ASSUME ServerInv, NEW c \in Conns, NEW fd \in Fds, NewConnection(c, fd)
  PROVE  ServerInv'
  <1>0. TypeOK /\ Queues /\ Passes /\ Descriptors
    BY DEF ServerInv
  <1> PICK l \in Loops : l = next_
    BY <1>0 DEF TypeOK
  <1> DEFINE f == [op |-> "established", conn |-> c]
  <1>1. /\ client[c] = "backlog" /\ owner[fd] = None
        /\ client' = [client EXCEPT ![c] = "accepted"]
        /\ owner' = [owner EXCEPT ![fd] = c]
        /\ fdOf' = [fdOf EXCEPT ![c] = fd]
        /\ loopOf' = [loopOf EXCEPT ![c] = l]
        /\ next_' = NextLoop[l]
        /\ connections_' = [connections_ EXCEPT ![fd] = c]
        /\ subQueue' = [subQueue EXCEPT ![l] = Append(subQueue[l], f)]
    BY DEF NewConnection, Insert
  <1>u. UNCHANGED <<conn, listenEdge, accepting, acceptFailed, mainQueue, running, phase, batch, ready, sends>>
    BY DEF NewConnection
  <1>2. f \in Functors /\ f.conn = c /\ f.op = "established"
    BY DEF Functors
  <1>3. /\ \A k \in Loops, op \in Ops : ~Has(k, op, c)
        /\ ~In(mainQueue, c) /\ connections_[fd] = None
    BY <1>0, <1>1, TcpServerAssumption DEF Queues, Descriptors, TypeOK
  <1>4. /\ Append(subQueue[l], f) \in Seq(Functors)
        /\ \A op, d : Todo(running[l], Append(subQueue[l], f), op, d)
                        <=> Todo(running[l], subQueue[l], op, d) \/ f = [op |-> op, conn |-> d]
        /\ Distinct(running[l], Append(subQueue[l], f))
    BY <1>0, <1>2, <1>3, TodoQueued DEF TypeOK, Queues, Has
  <1>5. \A op, d : f = [op |-> op, conn |-> d] <=> op = "established" /\ d = c
    OBVIOUS
  <1> HIDE DEF f
  <1>6. TypeOK'
    BY <1>0, <1>1, <1>u, <1>4, TcpServerAssumption DEF TypeOK
  <1>7. ASSUME NEW k \in Loops, NEW op, NEW d
        PROVE  Has(k, op, d)' <=> Has(k, op, d) \/ (k = l /\ op = "established" /\ d = c)
    <2>1. /\ k = l => subQueue'[k] = Append(subQueue[l], f)
          /\ k # l => subQueue'[k] = subQueue[k]
      BY <1>0, <1>1 DEF TypeOK
    <2>2. CASE k # l
      BY <1>u, <2>1, <2>2 DEF Has
    <2>3. CASE k = l
      <3>1. Has(k, op, d)' <=> Todo(running[l], Append(subQueue[l], f), op, d)
        BY <1>u, <2>1, <2>3 DEF Has
      <3> QED
        BY <1>4, <1>5, <2>3, <3>1 DEF Has
    <2> QED
      BY <2>2, <2>3
  <1>8. ASSUME NEW d \in Conns
        PROVE  Stage(d)'
    <2>1. Stage(d)
      BY DEF ServerInv
    <2>2. CASE d # c
      <3>1. client'[d] = client[d] /\ fdOf'[d] = fdOf[d] /\ loopOf'[d] = loopOf[d]
        BY <1>0, <1>1, <2>2 DEF TypeOK
      <3>2. CASE client[d] # "accepted"
        BY <1>u, <2>1, <3>1, <3>2 DEF Stage
      <3>3. CASE client[d] = "accepted"
        <4>1. fdOf[d] \in Fds /\ fdOf[d] # fd
          BY <1>1, <2>1, <3>3, TcpServerAssumption DEF Stage, Accepted
        <4>2. owner'[fdOf[d]] = owner[fdOf[d]] /\ connections_'[fdOf[d]] = connections_[fdOf[d]]
          BY <1>0, <1>1, <4>1 DEF TypeOK
        <4> QED
          BY <1>7, <1>u, <2>1, <2>2, <3>1, <4>2, StageKept
      <3> QED
        BY <3>2, <3>3
    <2>3. CASE d = c
      <3>1. /\ client'[c] = "accepted" /\ fdOf'[c] = fd /\ loopOf'[c] = l
            /\ owner'[fd] = c /\ connections_'[fd] = c
        BY <1>0, <1>1 DEF TypeOK
      <3>2. Fresh(conn[c])'
        BY <1>1, <1>u, <2>1, <2>3 DEF Stage
      <3>3. Has(l, "established", c)' /\ ~Has(l, "destroyed", c)'
        BY <1>3, <1>7 DEF Ops
      <3>4. ToEstablish(c)'
        BY <1>3, <1>u, <3>1, <3>2, <3>3 DEF ToEstablish, Has
      <3> QED
        BY <2>3, <3>1, <3>4 DEF Stage, Accepted
    <2> QED
      BY <2>2, <2>3
  <1>9. Queues'
    <2>1. \A k \in Loops : Distinct(running[k], subQueue[k])'
      BY <1>0, <1>1, <1>4, <1>u DEF Queues, TypeOK
    <2>2. ASSUME NEW k \in Loops, NEW op \in Ops, NEW d \in Conns, Has(k, op, d)'
          PROVE  client'[d] = "accepted" /\ loopOf'[d] = k
      BY <1>0, <1>1, <1>7, <2>2 DEF Queues, TypeOK
    <2>3. ASSUME NEW d \in Conns, In(mainQueue, d)
          PROVE  client'[d] = "accepted"
      BY <1>0, <1>1, <2>3 DEF Queues, TypeOK
    <2> QED
      BY <1>0, <1>u, <2>1, <2>2, <2>3 DEF Queues
  <1>10. Passes'
    <2>1. ASSUME NEW k \in Loops, NEW e \in batch[k]
          PROVE  loopOf'[e.conn] = loopOf[e.conn] /\ client'[e.conn] = "accepted"
      <3>1. e.conn \in Conns /\ client[e.conn] = "accepted" /\ e.conn # c
        BY <1>0, <1>1 DEF Passes, TypeOK, Events
      <3> QED
        BY <1>0, <1>1, <3>1 DEF TypeOK
    <2> QED
      BY <1>0, <1>u, <2>1 DEF Passes
  <1>11. Descriptors'
    <2> SUFFICES ASSUME NEW g \in Fds
                 PROVE  /\ owner'[g] # None => client'[owner'[g]] = "accepted" /\ fdOf'[owner'[g]] = g
                        /\ connections_'[g] # None => owner'[g] = connections_'[g]
      BY DEF Descriptors
    <2>1. CASE g = fd
      BY <1>0, <1>1, <2>1 DEF TypeOK
    <2>2. CASE g # fd
      <3>1. owner'[g] = owner[g] /\ connections_'[g] = connections_[g]
        BY <1>0, <1>1, <2>2 DEF TypeOK
      <3>2. ASSUME owner[g] # None
            PROVE  owner[g] \in Conns /\ owner[g] # c
        BY <1>0, <1>1, <3>2 DEF TypeOK, Descriptors
      <3> QED
        BY <1>0, <1>1, <3>1, <3>2 DEF TypeOK, Descriptors
    <2> QED
      BY <2>1, <2>2
  <1> QED
    BY <1>6, <1>8, <1>9, <1>10, <1>11 DEF ServerInv

\* The main loop erases a connection and queues the functor that destroys it.
LEMMA RemoveInMainKeeps ==
  ASSUME ServerInv, RemoveInMain
  PROVE  ServerInv'
  <1>0. TypeOK /\ Queues /\ Passes /\ Descriptors /\ mainQueue # <<>>
    BY DEF ServerInv, RemoveInMain
  <1>1. /\ Tail(mainQueue) \in Seq(Conns)
        /\ Head(mainQueue) \in Conns /\ In(mainQueue, Head(mainQueue))
        /\ \A d : In(Tail(mainQueue), d) <=> In(mainQueue, d) /\ d # Head(mainQueue)
        /\ Once(Tail(mainQueue))
    BY <1>0, InTail DEF TypeOK, Queues
  <1> PICK c \in Conns : c = Head(mainQueue)
    BY <1>1
  <1>2. Stage(c) /\ client[c] = "accepted"
    BY <1>0, <1>1 DEF ServerInv, Queues
  <1>3. loopOf[c] \in Loops /\ fdOf[c] \in Fds /\ owner[fdOf[c]] = c /\ ToRemove(c)
    BY <1>1, <1>2 DEF Stage, Accepted, ToEstablish, Serving, ToDestroy
  <1> PICK l \in Loops, fd \in Fds : l = loopOf[c] /\ fd = fdOf[c]
    BY <1>3
  <1> DEFINE f == [op |-> "destroyed", conn |-> c]
  <1>4. /\ mainQueue' = Tail(mainQueue)
        /\ connections_' = [connections_ EXCEPT ![fd] = None]
        /\ subQueue' = [subQueue EXCEPT ![l] = Append(subQueue[l], f)]
    BY DEF RemoveInMain, Erase
  <1>u. UNCHANGED <<client, conn, fdOf, loopOf, owner, next_, listenEdge, accepting, acceptFailed, running,
                    phase, batch, ready, sends>>
    BY DEF RemoveInMain, identity
  <1>5. f \in Functors /\ f.conn = c
    BY DEF Functors
  <1>6. /\ Append(subQueue[l], f) \in Seq(Functors)
        /\ \A op, d : Todo(running[l], Append(subQueue[l], f), op, d)
                        <=> Todo(running[l], subQueue[l], op, d) \/ f = [op |-> op, conn |-> d]
        /\ Distinct(running[l], Append(subQueue[l], f))
    BY <1>0, <1>3, <1>5, TodoQueued DEF TypeOK, Queues, ToRemove, Has
  <1>7. \A op, d : f = [op |-> op, conn |-> d] <=> op = "destroyed" /\ d = c
    OBVIOUS
  <1> HIDE DEF f
  <1>8. TypeOK'
    BY <1>0, <1>1, <1>4, <1>u, <1>6 DEF TypeOK
  <1>9. ASSUME NEW k \in Loops, NEW op, NEW d
        PROVE  Has(k, op, d)' <=> Has(k, op, d) \/ (k = l /\ op = "destroyed" /\ d = c)
    <2>1. /\ k = l => subQueue'[k] = Append(subQueue[l], f)
          /\ k # l => subQueue'[k] = subQueue[k]
      BY <1>0, <1>4 DEF TypeOK
    <2>2. CASE k # l
      BY <1>u, <2>1, <2>2 DEF Has
    <2>3. CASE k = l
      <3>1. Has(k, op, d)' <=> Todo(running[l], Append(subQueue[l], f), op, d)
        BY <1>u, <2>1, <2>3 DEF Has
      <3> QED
        BY SMTT(30), <1>6, <1>7, <2>3, <3>1 DEF Has
    <2> QED
      BY <2>2, <2>3
  <1>10. \A d : In(mainQueue, d)' <=> In(mainQueue, d) /\ d # c
    BY <1>1, <1>4
  <1>11. ASSUME NEW d \in Conns
         PROVE  Stage(d)'
    <2>1. Stage(d)
      BY DEF ServerInv
    <2>2. CASE d # c
      <3>1. CASE client[d] # "accepted"
        BY <1>u, <2>1, <3>1 DEF Stage
      <3>2. CASE client[d] = "accepted"
        <4>1. fdOf[d] # fd
          BY <1>3, <2>1, <2>2, <3>2 DEF Stage, Accepted
        <4>2. connections_'[fdOf[d]] = connections_[fdOf[d]]
          BY <1>0, <1>4, <4>1, <2>1, <3>2 DEF TypeOK, Stage, Accepted
        <4> QED
          BY <1>9, <1>10, <1>u, <2>1, <2>2, <4>2, StageKept
      <3> QED
        BY <3>1, <3>2
    <2>3. CASE d = c
      <3>1. connections_'[fd] # c
        BY <1>0, <1>4, TcpServerAssumption DEF TypeOK
      <3>2. Has(l, "destroyed", c)' /\ ~Has(l, "established", c)'
        BY <1>3, <1>9 DEF ToRemove, Ops
      <3>3. ToDestroy(c)'
        BY <1>3, <1>10, <1>u, <3>1, <3>2 DEF ToRemove, ToDestroy, Has
      <3> QED
        BY <1>2, <1>3, <1>u, <2>3, <3>3 DEF Stage, Accepted
    <2> QED
      BY <2>2, <2>3
  <1>12. Queues'
    <2>1. \A k \in Loops : Distinct(running[k], subQueue[k])'
      BY <1>0, <1>4, <1>6, <1>u DEF Queues, TypeOK
    <2>2. ASSUME NEW k \in Loops, NEW op \in Ops, NEW d \in Conns, Has(k, op, d)'
          PROVE  client'[d] = "accepted" /\ loopOf'[d] = k
      BY <1>0, <1>2, <1>9, <1>u, <2>2 DEF Queues
    <2> QED
      BY <1>0, <1>1, <1>4, <1>10, <1>u, <2>1, <2>2 DEF Queues
  <1>13. Passes'
    BY <1>0, <1>u DEF Passes
  <1>14. Descriptors'
    BY <1>0, <1>4, <1>u, TcpServerAssumption DEF Descriptors, TypeOK
  <1> QED
    BY <1>8, <1>11, <1>12, <1>13, <1>14 DEF ServerInv

\* epoll_wait reports connections that are up or going down.
LEMMA EpollWaitKeeps ==
  ASSUME ServerInv, NEW l \in Loops, EpollWait(l)
  PROVE  ServerInv'
  <1>0. TypeOK /\ Queues /\ Passes /\ Descriptors /\ phase[l] = "poll"
    BY DEF ServerInv, EpollWait
  <1>u. UNCHANGED <<client, conn, fdOf, loopOf, owner, connections_, next_, listenEdge, accepting, acceptFailed,
                    mainQueue, subQueue, running, sends>>
    BY DEF EpollWait, identity, mainVars
  <1> DEFINE b == {[conn |-> c, revents |-> Revents(conn[c])] : c \in Reported(l)}
  <1>1. /\ batch' = [batch EXCEPT ![l] = b]
        /\ phase' = [phase EXCEPT ![l] = "dispatch"]
        /\ ready' \in SUBSET ready
    BY DEF EpollWait
  <1>2. ASSUME NEW e \in b
        PROVE  /\ e \in Events
               /\ loopOf[e.conn] = l /\ client[e.conn] = "accepted" /\ conn[e.conn].ups = 1
    <2>1. PICK c \in Reported(l) : e = [conn |-> c, revents |-> Revents(conn[c])]
      OBVIOUS
    <2>2. c \in Conns /\ loopOf[c] = l /\ Revents(conn[c]) # {} /\ e.conn = c
      BY <1>0, <2>1 DEF Reported, TypeOK
    <2>3. conn[c].ch.inTree
      BY <2>2 DEF Revents
    <2>4. client[c] = "accepted" /\ conn[c].ups = 1
      BY <1>0, <2>2, <2>3 DEF ServerInv, TypeOK, Stage, Accepted, ToEstablish, Serving, ToRemove,
                              ToDestroy, Fresh, Up, Down
    <2>5. Revents(conn[c]) \in SUBSET {"IN", "OUT", "HUP", "ERR"}
      BY DEF Revents, Poll
    <2> QED
      BY <2>1, <2>2, <2>4, <2>5 DEF Events
  <1> HIDE DEF b
  <1>3. TypeOK'
    BY <1>0, <1>1, <1>2, <1>u DEF TypeOK
  <1>4. \A c \in Conns : Stage(c)'
    BY <1>u, StageKept DEF ServerInv, Has
  <1>5. Queues' /\ Descriptors'
    BY <1>0, <1>u DEF Queues, Has, Descriptors
  <1>6. Passes'
    BY <1>0, <1>1, <1>2, <1>u DEF Passes, TypeOK
  <1> QED
    BY <1>3, <1>4, <1>5, <1>6 DEF ServerInv

\* An event is handled: the connection stays as it is, or it is taken down and
\* the main loop is asked to remove it.
LEMMA DispatchKeeps ==
  ASSUME ServerInv, NEW l \in Loops, NEW e \in batch[l], Dispatch(l, e)
  PROVE  ServerInv'
  <1>0. TypeOK /\ Queues /\ Passes /\ Descriptors
    BY DEF ServerInv
  <1>1. e \in Events /\ e.conn \in Conns
    BY <1>0 DEF TypeOK, Events
  <1> PICK c \in Conns : c = e.conn
    BY <1>1
  <1>2. /\ phase[l] = "dispatch" /\ client[c] = "accepted" /\ conn[c].ups = 1
        /\ conn[c] \in ConnectionType
    BY <1>0 DEF Passes, TypeOK
  <1>3. PICK n \in HandleEvent(conn[c], e.revents) :
           /\ conn' = [conn EXCEPT ![c] = n]
           /\ ready' = Registered(c, n)
           /\ mainQueue' = IF n.removals > conn[c].removals THEN Append(mainQueue, c) ELSE mainQueue
    BY DEF Dispatch
  <1>u. UNCHANGED <<client, fdOf, loopOf, owner, connections_, next_, listenEdge, accepting, acceptFailed,
                    subQueue, running, phase, sends>>
    BY DEF Dispatch, identity
  <1>4. batch' = [batch EXCEPT ![l] = batch[l] \ {e}]
    BY DEF Dispatch
  <1>5. Stage(c) /\ (Serving(c) \/ ToRemove(c) \/ ToDestroy(c))
    BY <1>2 DEF ServerInv, Stage, Accepted, ToEstablish, Fresh
  <1>6. Serves(conn[c])
    BY <1>5 DEF Serving, ToRemove, ToDestroy, Up, Down
  <1>7. Follows(conn[c], n) /\ n \in ConnectionType /\ n.ups = 1
    <2>1. Follows(conn[c], n)
      BY <1>3, <1>6, EventFollows
    <2> QED
      BY <1>2, <2>1 DEF Follows, Quietly, Closing, Serves, Good
  <1>8. \/ /\ mainQueue' = mainQueue
           /\ Up(conn[c]) => Up(n)
           /\ Down(conn[c]) => Down(n)
        \/ mainQueue' = Append(mainQueue, c) /\ Serving(c) /\ Down(n)
    <2>1. conn[c].removals \in Nat /\ conn[c].downs \in Nat
      BY <1>2 DEF ConnectionType
    <2>2. CASE Quietly(conn[c], n)
      <3>1. ~(n.removals > conn[c].removals)
        BY <2>1, <2>2 DEF Quietly
      <3> QED
        BY <1>3, <2>2, <3>1 DEF Quietly, Up, Down
    <2>3. CASE Closing(conn[c], n)
      <3>1. n.removals > conn[c].removals /\ Serving(c)
        BY <1>5, <2>1, <2>3 DEF Closing, ToRemove, ToDestroy, Down
      <3>2. Down(n)
        BY <2>3, <3>1 DEF Closing, Serving, Up, Down
      <3> QED
        BY <1>3, <3>1, <3>2
    <2> QED
      BY <1>7, <2>2, <2>3 DEF Follows
  <1>9. /\ mainQueue' \in Seq(Conns) /\ Once(mainQueue')
        /\ \A d : d # c => (In(mainQueue', d) <=> In(mainQueue, d))
        /\ mainQueue' = Append(mainQueue, c) => In(mainQueue', c)
    <2>1. CASE mainQueue' = mainQueue
      <3>1. mainQueue # Append(mainQueue, c)
        BY <1>0 DEF TypeOK
      <3> QED
        BY <1>0, <2>1, <3>1 DEF TypeOK, Queues
    <2>2. CASE mainQueue' = Append(mainQueue, c) /\ Serving(c)
      BY <1>0, <2>2, InAppend DEF TypeOK, Queues, Serving
    <2> QED
      BY <1>8, <2>1, <2>2
  <1>10. TypeOK'
    <2>1. ready' \in SUBSET Conns
      BY <1>0, <1>3 DEF Registered, TypeOK
    <2>2. batch' \in [Loops -> SUBSET Events] /\ conn' \in [Conns -> ConnectionType]
      BY <1>0, <1>3, <1>4, <1>7 DEF TypeOK
    <2> QED
      BY <1>0, <1>9, <1>u, <2>1, <2>2 DEF TypeOK
  <1>11. ASSUME NEW d \in Conns
         PROVE  Stage(d)'
    <2>1. Stage(d)
      BY DEF ServerInv
    <2>2. CASE d # c
      BY <1>0, <1>3, <1>9, <1>u, <2>1, <2>2, StageKept DEF TypeOK, Has
    <2>3. CASE d = c
      <3>1. conn'[c] = n
        BY <1>0, <1>3 DEF TypeOK
      <3>2. Accepted(c)
        BY <1>2, <1>5 DEF Stage
      <3>3. CASE mainQueue' = Append(mainQueue, c) /\ Serving(c) /\ Down(n)
        <4>1. ToRemove(c)'
          BY <1>9, <1>u, <3>1, <3>3 DEF Serving, ToRemove, Has
        <4> QED
          BY <1>2, <1>u, <2>3, <3>2, <4>1 DEF Stage, Accepted
      <3>4. CASE mainQueue' = mainQueue /\ (Up(conn[c]) => Up(n)) /\ (Down(conn[c]) => Down(n))
        <4>1. (Serving(c) \/ ToRemove(c) \/ ToDestroy(c))'
          BY <1>5, <1>u, <3>1, <3>4 DEF Serving, ToRemove, ToDestroy, Has
        <4> QED
          BY <1>2, <1>u, <2>3, <3>2, <4>1 DEF Stage, Accepted
      <3> QED
        BY <1>8, <3>3, <3>4
    <2> QED
      BY <2>2, <2>3
  <1>12. Queues'
    <2>1. \A d \in Conns : In(mainQueue', d) => client'[d] = "accepted"
      BY <1>0, <1>2, <1>9, <1>u DEF Queues
    <2> QED
      BY <1>0, <1>9, <1>u, <2>1 DEF Queues, Has
  <1>13. Passes'
    <2>1. \A k \in Loops : batch'[k] \in SUBSET batch[k]
      BY <1>0, <1>4 DEF TypeOK
    <2>2. \A d \in Conns : conn[d].ups = 1 => conn'[d].ups = 1
      BY <1>0, <1>3, <1>7 DEF TypeOK
    <2> QED
      BY <1>0, <1>u, <2>1, <2>2 DEF Passes, TypeOK, Events
  <1>14. Descriptors'
    BY <1>0, <1>u DEF Descriptors
  <1> QED
    BY <1>10, <1>11, <1>12, <1>13, <1>14 DEF ServerInv

\* The functors are swapped out.
LEMMA SwapFunctorsKeeps ==
  ASSUME ServerInv, NEW l \in Loops, SwapFunctors(l)
  PROVE  ServerInv'
  <1>0. TypeOK /\ Queues /\ Passes /\ Descriptors
    BY DEF ServerInv
  <1>1. /\ phase[l] = "dispatch" /\ batch[l] = {} /\ running[l] = <<>>
        /\ running' = [running EXCEPT ![l] = subQueue[l]]
        /\ subQueue' = [subQueue EXCEPT ![l] = <<>>]
        /\ phase' = [phase EXCEPT ![l] = "functors"]
    BY <1>0 DEF SwapFunctors, Passes
  <1>u. UNCHANGED <<client, conn, fdOf, loopOf, owner, connections_, next_, listenEdge, accepting, acceptFailed,
                    mainQueue, batch, ready, sends>>
    BY DEF SwapFunctors, identity, mainVars
  <1>2. TypeOK'
    <2>1. running' \in [Loops -> Seq(Functors)] /\ subQueue' \in [Loops -> Seq(Functors)]
      BY <1>0, <1>1 DEF TypeOK
    <2> QED
      BY <1>0, <1>1, <1>u, <2>1 DEF TypeOK
  <1>3. ASSUME NEW k \in Loops
        PROVE  /\ \A op, d : Has(k, op, d)' <=> Has(k, op, d)
               /\ Distinct(running'[k], subQueue'[k])
    <2>1. CASE k # l
      <3>1. running'[k] = running[k] /\ subQueue'[k] = subQueue[k]
        BY <1>0, <1>1, <2>1 DEF TypeOK
      <3> QED
        BY <1>0, <3>1 DEF Has, Queues
    <2>2. CASE k = l
      <3>1. running'[k] = subQueue[l] /\ subQueue'[k] = <<>>
        BY <1>0, <1>1, <2>2 DEF TypeOK
      <3>2. /\ \A op, d : Todo(subQueue[l], <<>>, op, d) <=> Todo(<<>>, subQueue[l], op, d)
            /\ Distinct(subQueue[l], <<>>)
        <4>1. Distinct(<<>>, subQueue[l]) /\ subQueue[l] \in Seq(Functors)
          BY <1>0, <1>1 DEF Queues, TypeOK
        <4> QED
          BY <4>1, TodoSwapped
      <3> QED
        BY <1>1, <2>2, <3>1, <3>2 DEF Has
    <2> QED
      BY <2>1, <2>2
  <1>4. \A c \in Conns : Stage(c)'
    BY <1>3, <1>u, StageKept DEF ServerInv
  <1>5. Queues'
    BY <1>0, <1>3, <1>u DEF Queues
  <1>6. Passes'
    BY <1>0, <1>1, <1>u DEF Passes, TypeOK
  <1>7. Descriptors'
    BY <1>0, <1>u DEF Descriptors
  <1> QED
    BY <1>2, <1>4, <1>5, <1>6, <1>7 DEF ServerInv

\* The first functor of a sub loop is run; none is left for its connection.
RunsFirst(l, op, c) ==
    /\ running[l] # <<>>
    /\ op = Head(running[l]).op /\ c = Head(running[l]).conn
    /\ running' = [running EXCEPT ![l] = Tail(running[l])]
    /\ subQueue' = subQueue

FirstIsGone(l, op, c) ==
    /\ running' \in [Loops -> Seq(Functors)]
    /\ Has(l, op, c) /\ client[c] = "accepted" /\ loopOf[c] = l
    /\ \A k \in Loops, o \in Ops, d \in Conns : Has(k, o, d)' <=> Has(k, o, d) /\ d # c
    /\ \A k \in Loops : Distinct(running'[k], subQueue[k])
    /\ phase[l] = "functors"
    /\ \A k \in Loops : running[k] = <<>> => running'[k] = <<>>

\* A sub loop runs the first of its functors.
LEMMA FunctorRun ==
  ASSUME ServerInv, NEW l \in Loops, NEW op0 \in Ops, NEW c \in Conns, RunsFirst(l, op0, c)
  PROVE  FirstIsGone(l, op0, c)
  <1>r. /\ running[l] # <<>>
        /\ op0 = Head(running[l]).op /\ c = Head(running[l]).conn
        /\ running' = [running EXCEPT ![l] = Tail(running[l])]
        /\ subQueue' = subQueue
    BY DEF RunsFirst
  <1>0. TypeOK /\ Queues /\ Passes
    BY DEF ServerInv
  <1>1. /\ running[l] \in Seq(Functors) /\ subQueue[l] \in Seq(Functors)
        /\ Distinct(running[l], subQueue[l])
    BY <1>0 DEF TypeOK, Queues
  <1>2. /\ Tail(running[l]) \in Seq(Functors)
        /\ Todo(running[l], subQueue[l], op0, c)
        /\ \A op \in Ops, d \in Conns : Todo(Tail(running[l]), subQueue[l], op, d)
                        <=> Todo(running[l], subQueue[l], op, d) /\ d # c
        /\ Distinct(Tail(running[l]), subQueue[l])
    BY <1>1, <1>r, TodoRun
  <1>3. running' \in [Loops -> Seq(Functors)]
    BY <1>0, <1>2, <1>r DEF TypeOK
  <1>4. Has(l, op0, c) /\ client[c] = "accepted" /\ loopOf[c] = l
    BY <1>0, <1>2 DEF Has, Queues
  <1>5. ASSUME NEW k \in Loops
        PROVE  /\ k = l => running'[k] = Tail(running[l])
               /\ k # l => running'[k] = running[k]
    BY <1>0, <1>r DEF TypeOK
  <1>6. ASSUME NEW k \in Loops, NEW op \in Ops, NEW d \in Conns
        PROVE  Has(k, op, d)' <=> Has(k, op, d) /\ d # c
    <2>1. CASE k = l
      <3>1. Has(k, op, d)' <=> Todo(Tail(running[l]), subQueue[l], op, d)
        BY <1>5, <1>r, <2>1 DEF Has
      <3> QED
        BY <1>2, <2>1, <3>1 DEF Has
    <2>2. CASE k # l
      <3>1. Has(k, op, d)' <=> Has(k, op, d)
        BY <1>5, <1>r, <2>2 DEF Has
      <3> QED
        BY <1>0, <1>4, <2>2, <3>1 DEF Queues
    <2> QED
      BY <2>1, <2>2
  <1>7. \A k \in Loops : Distinct(running'[k], subQueue[k])
    BY <1>0, <1>2, <1>5 DEF Queues
  <1>8. phase[l] = "functors" /\ \A k \in Loops : running[k] = <<>> => running'[k] = <<>>
    BY <1>0, <1>5, <1>r DEF Passes
  <1> QED
    BY <1>3, <1>4, <1>6, <1>7, <1>8 DEF FirstIsGone

\* ConnectionEstablished: the callback says that the connection is up.
LEMMA EstablishedIsUp ==
  ASSUME NEW k, Fresh(k)
  PROVE  Up(ConnectionEstablished(k))
  <1>1. k \in ConnectionType /\ k.ch \in ChannelType /\ InStep(k.ch)
    BY DEF Fresh, Good, ConnectionType
  <1> PICK ch \in ChannelType : ch = EnableReading(k.ch) /\ InStep(ch)
    BY <1>1, ChannelCalls
  <1> DEFINE n == [k EXCEPT !.state = "kConnected", !.ch = ch, !.ups = 1]
  <1>2. ConnectionEstablished(k) = n
    BY DEF ConnectionEstablished, Fresh
  <1>3. n \in ConnectionType
    BY <1>1 DEF ConnectionType, States
  <1>4. /\ n.state = "kConnected" /\ n.ch = ch
        /\ n.ups = 1 /\ n.downs = k.downs /\ n.removals = k.removals
    BY <1>1 DEF ConnectionType
  <1> HIDE DEF n
  <1> QED
    BY <1>2, <1>3, <1>4 DEF Up, Serves, Good, Fresh

\* A sub loop establishes a connection.
LEMMA EstablishKeeps ==
  ASSUME ServerInv, NEW l \in Loops, Establish(l)
  PROVE  ServerInv'
  <1>0. TypeOK /\ Queues /\ Passes /\ Descriptors
    BY DEF ServerInv
  <1>1. Head(running[l]) \in Functors /\ running[l] # <<>> /\ Head(running[l]).op = "established"
    BY <1>0, TodoRun DEF TypeOK, Queues, Establish
  <1>2. Head(running[l]).conn \in Conns
    BY <1>1 DEF Functors
  <1> PICK c \in Conns : c = Head(running[l]).conn
    BY <1>2
  <1> DEFINE n == ConnectionEstablished(conn[c])
  <1>3. /\ conn' = [conn EXCEPT ![c] = n]
        /\ ready' = Registered(c, n)
        /\ running' = [running EXCEPT ![l] = Tail(running[l])]
    BY DEF Establish
  <1>u. UNCHANGED <<client, fdOf, loopOf, owner, connections_, next_, listenEdge, accepting, acceptFailed,
                    mainQueue, subQueue, phase, batch, sends>>
    BY DEF Establish, identity, mainVars
  <1>4. /\ running' \in [Loops -> Seq(Functors)]
        /\ Has(l, "established", c) /\ client[c] = "accepted" /\ loopOf[c] = l
        /\ \A k \in Loops, op \in Ops, d \in Conns : Has(k, op, d)' <=> Has(k, op, d) /\ d # c
        /\ \A k \in Loops : Distinct(running'[k], subQueue[k])
        /\ phase[l] = "functors"
        /\ \A k \in Loops : running[k] = <<>> => running'[k] = <<>>
    <2>1. PICK op \in Ops : op = "established"
      BY DEF Ops
    <2>2. RunsFirst(l, op, c)
      BY <1>1, <1>3, <1>u, <2>1 DEF RunsFirst
    <2>3. FirstIsGone(l, op, c)
      BY <2>2, FunctorRun
    <2> QED
      BY <2>1, <2>3 DEF FirstIsGone
  <1>5. Accepted(c) /\ ToEstablish(c)
    BY <1>4 DEF ServerInv, Stage, Accepted, Serving, ToRemove, ToDestroy, Ops
  <1>6. Up(n) /\ n \in ConnectionType /\ n.ups = 1
    <2>1. Up(n)
      BY <1>5, EstablishedIsUp DEF ToEstablish
    <2> QED
      BY <2>1 DEF Up, Serves, Good
  <1> HIDE DEF n
  <1>7. TypeOK'
    <2>1. ready' \in SUBSET Conns
      BY <1>0, <1>3 DEF Registered, TypeOK
    <2>2. conn' \in [Conns -> ConnectionType]
      BY <1>0, <1>3, <1>6 DEF TypeOK
    <2> QED
      BY <1>0, <1>4, <1>u, <2>1, <2>2 DEF TypeOK
  <1>8. ASSUME NEW d \in Conns
        PROVE  Stage(d)'
    <2>1. Stage(d)
      BY DEF ServerInv
    <2>2. CASE d # c
      BY <1>0, <1>3, <1>4, <1>u, <2>1, <2>2, StageKept DEF TypeOK
    <2>3. CASE d = c
      <3>1. conn'[c] = n
        BY <1>0, <1>3 DEF TypeOK
      <3>2. \A op \in Ops : ~Has(l, op, c)'
        BY <1>4
      <3>3. Serving(c)'
        BY <1>4, <1>5, <1>6, <1>u, <3>1, <3>2 DEF ToEstablish, Serving, Has
      <3> QED
        BY <1>4, <1>5, <1>u, <2>3, <3>3 DEF Stage, Accepted
    <2> QED
      BY <2>2, <2>3
  <1>9. Queues'
    BY <1>0, <1>4, <1>u DEF Queues
  <1>10. Passes'
    <2>1. \A d \in Conns : conn[d].ups = 1 => conn'[d].ups = 1
      BY <1>0, <1>3, <1>6 DEF TypeOK
    <2> QED
      BY <1>0, <1>4, <1>u, <2>1 DEF Passes, TypeOK, Events
  <1>11. Descriptors'
    BY <1>0, <1>u DEF Descriptors
  <1> QED
    BY <1>7, <1>8, <1>9, <1>10, <1>11 DEF ServerInv

\* ConnectionDestroyed takes the channel out of epoll.
LEMMA DestroyedIsOut ==
  ASSUME NEW k, Down(k)
  PROVE  LET n == ConnectionDestroyed(k)
         IN  /\ Good(n) /\ ~n.ch.inTree
             /\ n.ups = 1 /\ n.downs = 1 /\ n.removals = 1
  <1>1. k \in ConnectionType /\ k.ch \in ChannelType /\ InStep(k.ch)
    BY DEF Down, Serves, Good, ConnectionType
  <1> PICK ch \in ChannelType : ch = RemoveChannel(k.ch) /\ InStep(ch) /\ ~ch.inTree
    BY <1>1, ChannelCalls
  <1> DEFINE n == [k EXCEPT !.state = "kDisconnected", !.ch = ch]
  <1>2. ConnectionDestroyed(k) = n
    BY DEF ConnectionDestroyed
  <1>3. n \in ConnectionType
    BY <1>1 DEF ConnectionType, States
  <1>4. n.ch = ch /\ n.ups = k.ups /\ n.downs = k.downs /\ n.removals = k.removals
    BY <1>1 DEF ConnectionType
  <1> HIDE DEF n
  <1> QED
    BY <1>2, <1>3, <1>4 DEF Good, Down

\* A sub loop destroys a connection, whose descriptor is still its own.
LEMMA DestroyKeeps ==
  ASSUME ServerInv, NEW l \in Loops, Destroy(l)
  PROVE  ServerInv'
  <1>0. TypeOK /\ Queues /\ Passes /\ Descriptors
    BY DEF ServerInv
  <1>1. Head(running[l]) \in Functors /\ running[l] # <<>> /\ Head(running[l]).op = "destroyed"
    BY <1>0, TodoRun DEF TypeOK, Queues, Destroy
  <1>2. Head(running[l]).conn \in Conns
    BY <1>1 DEF Functors
  <1> PICK c \in Conns : c = Head(running[l]).conn
    BY <1>2
  <1>3. running' = [running EXCEPT ![l] = Tail(running[l])]
    BY DEF Destroy
  <1>u. UNCHANGED <<fdOf, loopOf, connections_, next_, listenEdge, accepting, acceptFailed,
                    mainQueue, subQueue, phase, batch, sends>>
    BY DEF Destroy, mainVars
  <1>4. /\ running' \in [Loops -> Seq(Functors)]
        /\ Has(l, "destroyed", c) /\ client[c] = "accepted" /\ loopOf[c] = l
        /\ \A k \in Loops, op \in Ops, d \in Conns : Has(k, op, d)' <=> Has(k, op, d) /\ d # c
        /\ \A k \in Loops : Distinct(running'[k], subQueue[k])
        /\ phase[l] = "functors"
        /\ \A k \in Loops : running[k] = <<>> => running'[k] = <<>>
    <2>1. PICK op \in Ops : op = "destroyed"
      BY DEF Ops
    <2>2. RunsFirst(l, op, c)
      BY <1>1, <1>3, <1>u, <2>1 DEF RunsFirst
    <2>3. FirstIsGone(l, op, c)
      BY <2>2, FunctorRun
    <2> QED
      BY <2>1, <2>3 DEF FirstIsGone
  <1>5. fdOf[c] \in Fds /\ owner[fdOf[c]] = c /\ ToDestroy(c)
    BY <1>4 DEF ServerInv, Stage, Accepted, ToEstablish, Serving, ToRemove, Ops
  <1> PICK fd \in Fds : fd = fdOf[c]
    BY <1>5
  <1> DEFINE n == ConnectionDestroyed(conn[c])
  <1>6. /\ conn' = [conn EXCEPT ![c] = n]
        /\ owner' = [owner EXCEPT ![fd] = None]
        /\ client' = [client EXCEPT ![c] = "destroyed"]
        /\ ready' \in SUBSET ready
    <2>1. conn' = [d \in Conns |-> IF d = c THEN n ELSE conn[d]]
      BY <1>5 DEF Destroy
    <2>2. conn' = [conn EXCEPT ![c] = n]
      BY <1>0, <2>1 DEF TypeOK
    <2> QED
      BY <2>2 DEF Destroy
  <1>7. /\ Good(n) /\ ~n.ch.inTree
        /\ n.ups = 1 /\ n.downs = 1 /\ n.removals = 1
        /\ n \in ConnectionType
    <2>1. Down(conn[c])
      BY <1>5 DEF ToDestroy
    <2>2. Good(n) /\ ~n.ch.inTree /\ n.ups = 1 /\ n.downs = 1 /\ n.removals = 1
      BY <2>1, DestroyedIsOut
    <2> QED
      BY <2>2 DEF Good
  <1> HIDE DEF n
  <1>8. TypeOK'
    BY <1>0, <1>4, <1>6, <1>7, <1>u DEF TypeOK
  <1>9. ASSUME NEW d \in Conns, d # c
        PROVE  client'[d] = client[d] /\ conn'[d] = conn[d]
    BY <1>0, <1>6, <1>9 DEF TypeOK
  <1>10. ASSUME NEW d \in Conns
         PROVE  Stage(d)'
    <2>1. Stage(d)
      BY DEF ServerInv
    <2>2. CASE d # c
      <3>1. CASE client[d] # "accepted"
        BY <1>9, <2>1, <2>2, <3>1 DEF Stage
      <3>2. CASE client[d] = "accepted"
        <4>1. fdOf[d] \in Fds /\ fdOf[d] # fd
          BY <1>5, <2>1, <2>2, <3>2 DEF Stage, Accepted
        <4>2. owner'[fdOf[d]] = owner[fdOf[d]]
          BY <1>0, <1>6, <4>1 DEF TypeOK
        <4> QED
          BY <1>4, <1>9, <1>u, <2>1, <2>2, <4>2, StageKept
      <3> QED
        BY <3>1, <3>2
    <2>3. CASE d = c
      <3>1. conn'[c] = n /\ client'[c] = "destroyed"
        BY <1>0, <1>6 DEF TypeOK
      <3> QED
        BY <1>7, <2>3, <3>1 DEF Stage
    <2> QED
      BY <2>2, <2>3
  <1>11. Queues'
    <2>1. ASSUME NEW k \in Loops, NEW op \in Ops, NEW d \in Conns, Has(k, op, d)'
          PROVE  client'[d] = "accepted" /\ loopOf'[d] = k
      BY <1>0, <1>4, <1>9, <1>u, <2>1 DEF Queues
    <2>2. ASSUME NEW d \in Conns, In(mainQueue, d)
          PROVE  client'[d] = "accepted"
      BY <1>0, <1>5, <1>9, <2>2 DEF Queues, ToDestroy
    <2> QED
      BY <1>0, <1>4, <1>u, <2>1, <2>2 DEF Queues
  <1>12. Passes'
    <2>1. ASSUME NEW k \in Loops, NEW e \in batch[k]
          PROVE  e.conn \in Conns /\ e.conn # c
      BY <1>0, <1>4 DEF Passes, TypeOK, Events
    <2> QED
      BY <1>0, <1>4, <1>9, <1>u, <2>1 DEF Passes
  <1>13. Descriptors'
    <2> SUFFICES ASSUME NEW g \in Fds
                 PROVE  /\ owner'[g] # None => client'[owner'[g]] = "accepted" /\ fdOf'[owner'[g]] = g
                        /\ connections_'[g] # None => owner'[g] = connections_'[g]
      BY DEF Descriptors
    <2>1. CASE g = fd
      <3>1. connections_[fd] = None
        BY <1>0, <1>5 DEF ToDestroy, Descriptors
      <3> QED
        BY <1>0, <1>6, <1>u, <2>1, <3>1 DEF TypeOK
    <2>2. CASE g # fd
      <3>1. owner'[g] = owner[g]
        BY <1>0, <1>6, <2>2 DEF TypeOK
      <3>2. ASSUME owner[g] # None
            PROVE  owner[g] \in Conns /\ owner[g] # c
        BY <1>0, <2>2, <3>2 DEF TypeOK, Descriptors
      <3> QED
        BY <1>0, <1>9, <1>u, <3>1, <3>2 DEF Descriptors
    <2> QED
      BY <2>1, <2>2
  <1> QED
    BY <1>8, <1>10, <1>11, <1>12, <1>13 DEF ServerInv

-----------------------------------------------------------------------------
(* Theorems.                                                               *)

\* ServerInv is an invariant of the server: every accepted connection is in
\* exactly one stage from NewConnection to ConnectionDestroyed, and one
\* reference keeps it alive there.
THEOREM ServerInvariant == Spec => []ServerInv
  <1>1. ServerInv /\ [Next]_vars => ServerInv'
    <2> SUFFICES ASSUME ServerInv, [Next]_vars
                 PROVE  ServerInv'
      OBVIOUS
    <2>0. TypeOK
      BY DEF ServerInv
    <2>1. ASSUME NEW c \in Conns, Connects(c)
          PROVE  ServerInv'
      BY <2>1, ConnectsKeeps
    <2>2. ASSUME NEW c \in Conns,
                 PeerSends(c) \/ PeerCloses(c) \/ PeerResets(c) \/ SendBufferDrains(c)
          PROVE  ServerInv'
      <3>1. conn[c].sock \in SocketType
        BY <2>0 DEF TypeOK, ConnectionType
      <3>2. \E s \in SocketType : SocketChanges(c, s)
        <4> DEFINE k == conn[c].sock
        <4>1. /\ [k EXCEPT !.data = TRUE] \in SocketType
              /\ [k EXCEPT !.peer = "fin"] \in SocketType
              /\ [k EXCEPT !.peer = "rst", !.data = FALSE] \in SocketType
              /\ [k EXCEPT !.full = FALSE] \in SocketType
          BY <3>1 DEF SocketType
        <4>2. \/ SocketChanges(c, [k EXCEPT !.data = TRUE])
              \/ SocketChanges(c, [k EXCEPT !.peer = "fin"])
              \/ SocketChanges(c, [k EXCEPT !.peer = "rst", !.data = FALSE])
              \/ SocketChanges(c, [k EXCEPT !.full = FALSE])
          BY <2>2 DEF PeerSends, PeerCloses, PeerResets, SendBufferDrains
        <4> QED
          BY <4>1, <4>2, Zenon
      <3>3. sends' \in 0 .. MaxSends
        BY <2>0, <2>2, TcpServerAssumption
        DEF PeerSends, PeerCloses, PeerResets, SendBufferDrains, TypeOK
      <3> QED
        BY <3>2, <3>3, SocketChangesKeep
    <2>3. CASE ListenEvent \/ AcceptEnds \/ AcceptFails
      <3>1. TypeOK'
        BY <2>0, <2>3 DEF TypeOK, ListenEvent, AcceptEnds, AcceptFails, AcceptBreaks, identity, loopVars
      <3>2. UNCHANGED <<client, conn, fdOf, loopOf, owner, connections_, mainQueue,
                        subQueue, running, batch, phase>>
        BY <2>3 DEF ListenEvent, AcceptEnds, AcceptFails, AcceptBreaks, identity, loopVars
      <3> QED
        BY <3>1, <3>2, IdleKeeps
    <2>4. ASSUME NEW c \in Conns, NEW fd \in Fds, NewConnection(c, fd)
          PROVE  ServerInv'
      BY <2>4, NewConnectionKeeps
    <2>5. CASE RemoveInMain
      BY <2>5, RemoveInMainKeeps
    <2>6. ASSUME NEW l \in Loops, SubStep(l)
          PROVE  ServerInv'
      <3>1. CASE PassDone(l)
        <4>1. TypeOK'
          BY <2>0, <3>1 DEF TypeOK, PassDone, identity, mainVars
        <4>2. /\ UNCHANGED <<client, conn, fdOf, loopOf, owner, connections_, mainQueue,
                             subQueue, running, batch>>
              /\ phase[l] = "functors" /\ running[l] = <<>>
              /\ phase' = [phase EXCEPT ![l] = "poll"]
          BY <3>1 DEF PassDone, identity, mainVars
        <4>3. \A k \in Loops : phase'[k] = phase[k] \/ (phase[k] = "functors" /\ running[k] = <<>>)
          BY <2>0, <4>2 DEF TypeOK
        <4> QED
          BY <4>1, <4>2, <4>3, IdleKeeps
      <3> QED
        BY <2>6, <3>1, EpollWaitKeeps, DispatchKeeps, SwapFunctorsKeeps, EstablishKeeps,
           DestroyKeeps DEF SubStep
    <2>7. CASE UNCHANGED vars
      <3>1. UNCHANGED <<client, conn, fdOf, loopOf, owner, connections_, next_, listenEdge, accepting, acceptFailed,
                        mainQueue, subQueue, running, phase, batch, ready, sends>>
        BY <2>7 DEF vars
      <3>2. TypeOK'
        BY <2>0, <3>1 DEF TypeOK
      <3> QED
        BY <3>1, <3>2, IdleKeeps
    <2> QED
      BY <2>1, <2>2, <2>3, <2>4, <2>5, <2>6, <2>7 DEF Next, MainStep
  <1> QED
    BY <1>1, InitServerInv, PTL DEF Spec

\* The variables have their types in every reachable state.
THEOREM TypeCorrect == Spec => []TypeOK
  <1>1. ServerInv => TypeOK
    BY DEF ServerInv
  <1> QED
    BY <1>1, ServerInvariant, PTL

\* A functor for c that a sub loop has is in one of its queues, and the other
\* way round.
LEMMA HasFunctor ==
  ASSUME TypeOK, NEW l \in Loops
  PROVE  /\ \A c \in Conns, op \in Ops : Has(l, op, c) =>
              \E f \in Range(subQueue[l]) \cup Range(running[l]) : f.conn = c
         /\ \A f \in Range(subQueue[l]) \cup Range(running[l]) :
              f.op \in Ops /\ f.conn \in Conns /\ Has(l, f.op, f.conn)
  <1> PICK r \in Seq(Functors), s \in Seq(Functors) : r = running[l] /\ s = subQueue[l]
    BY DEF TypeOK
  <1>1. ASSUME NEW q \in Seq(Functors)
        PROVE  /\ \A c \in Conns, op \in Ops : Job(q, op, c) => \E f \in Range(q) : f.conn = c
               /\ \A f \in Range(q) : f \in Functors /\ Job(q, f.op, f.conn)
    <2>1. \A i \in 1 .. Len(q) : q[i] \in Functors /\ q[i] \in Range(q)
      BY DEF Range
    <2>2. \A f \in Range(q) : \E i \in 1 .. Len(q) : f = q[i]
      BY DEF Range
    <2>3. \A f \in Functors : f = [op |-> f.op, conn |-> f.conn]
      BY DEF Functors
    <2> QED
      BY <2>1, <2>2, <2>3 DEF Job
  <1>2. \A f \in Functors : f.op \in Ops /\ f.conn \in Conns
    BY DEF Functors, Ops
  <1>3. \A op, c : Has(l, op, c) <=> Job(r, op, c) \/ Job(s, op, c)
    BY DEF Has, Todo
  <1> QED
    BY <1>1, <1>2, <1>3

\* The shared_ptr hand-over of RemoveConnection: a channel that epoll knows, or
\* whose event is still to be dispatched, belongs to an object that exists.
THEOREM ChannelsDoNotDangle == Spec => []NoDanglingChannel
  <1>1. ServerInv => NoDanglingChannel
    <2> SUFFICES ASSUME ServerInv, NEW c \in Conns,
                        conn[c].ch.inTree \/ \E l \in Loops : \E e \in batch[l] : e.conn = c
                 PROVE  Referenced(c)
      BY DEF NoDanglingChannel
    <2>1. TypeOK /\ Stage(c) /\ Passes
      BY DEF ServerInv
    <2>2. client[c] = "accepted"
      BY <2>1 DEF TypeOK, Stage, Fresh, Passes
    <2>3. loopOf[c] \in Loops /\ fdOf[c] \in Fds
      BY <2>1, <2>2 DEF Stage, Accepted
    <2>4. connections_[fdOf[c]] = c \/ Has(loopOf[c], "destroyed", c)
      BY <2>1, <2>2 DEF Stage, Accepted, ToEstablish, Serving, ToRemove, ToDestroy
    <2> QED
      BY <2>1, <2>3, <2>4, HasFunctor DEF Referenced, Ops
  <1> QED
    BY <1>1, ServerInvariant, PTL

\* Descriptor numbers are reused without mixing up two clients: connections_
\* names the owner of a number, and a functor's connection owns its number.
THEOREM DescriptorsKeepOwner == Spec => []DescriptorsOwned
  <1>1. ServerInv => DescriptorsOwned
    <2> SUFFICES ASSUME ServerInv
                 PROVE  DescriptorsOwned
      OBVIOUS
    <2>1. TypeOK /\ Queues /\ Descriptors
      BY DEF ServerInv
    <2>2. ASSUME NEW l \in Loops, NEW f \in Range(subQueue[l]) \cup Range(running[l])
          PROVE  owner[fdOf[f.conn]] = f.conn
      <3>1. f.op \in Ops /\ f.conn \in Conns /\ Has(l, f.op, f.conn)
        BY <2>1, HasFunctor
      <3>2. client[f.conn] = "accepted"
        BY <2>1, <3>1 DEF Queues
      <3> QED
        BY <3>1, <3>2 DEF ServerInv, Stage, Accepted
    <2> QED
      BY <2>1, <2>2 DEF DescriptorsOwned, Descriptors
  <1> QED
    BY <1>1, ServerInvariant, PTL

\* Whatever the order of events, the application hears once that a connection
\* is up, at most once afterwards that it is down, and it is removed as often.
THEOREM CallbacksComeInPairs == Spec => []CallbacksPaired
  <1>1. ServerInv => CallbacksPaired
    <2> SUFFICES ASSUME ServerInv, NEW c \in Conns
                 PROVE  /\ conn[c].downs <= conn[c].ups /\ conn[c].ups <= 1
                        /\ conn[c].removals = conn[c].downs
      BY DEF CallbacksPaired
    <2>1. TypeOK /\ Stage(c)
      BY DEF ServerInv
    <2> QED
      BY <2>1 DEF TypeOK, Stage, Accepted, ToEstablish, Serving, ToRemove, ToDestroy, Fresh, Up, Down
  <1> QED
    BY <1>1, ServerInvariant, PTL

=============================================================================
