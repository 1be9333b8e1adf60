--------------------------- MODULE TcpClientProofs ---------------------------
(***************************************************************************)
(* Proofs about TcpClient and its Connector, for any bound on the attempts *)
(* and any initial and maximal delay.                                      *)
(***************************************************************************)
EXTENDS TcpClient, SequenceTheorems, TLAPS

Nums == Socks \cup {0}

ClientType ==
    [state : {"kDisconnected", "kConnecting", "kConnected"}, connect : BOOLEAN,
     channel : Nums, retryTimer : Nums, delay : InitDelay .. MaxDelay,
     alive : BOOLEAN, wanted : BOOLEAN, connection : Nums,
     conn : {"none", "kConnected", "kDisconnecting", "kDisconnected"},
     open : SUBSET Socks, tree : SUBSET Entries, timers : SUBSET Socks,
     young : SUBSET Socks, queue : Seq(Functors), attempts : Nums,
     gaveUp : BOOLEAN, handed : Nums]

-----------------------------------------------------------------------------
(* The invariant: what the two objects and the kernel know of the sockets. *)

\* The connector waits for one socket at a time, and has no timer while it
\* waits; a socket is in epoll for the connector only then.
OneAttempt(k) ==
    /\ k.state = "kConnecting" =>
         /\ k.channel \in k.open
         /\ [sock |-> k.channel, of |-> "connector"] \in k.tree
         /\ k.timers = {}
    /\ \A e \in k.tree : e.of = "connector" => k.state = "kConnecting" /\ e.sock = k.channel
    /\ \A s \in k.open : s # k.handed => k.state = "kConnecting" /\ k.channel = s
    /\ \A s, t \in k.timers : s = t
    /\ k.young \subseteq k.timers
    /\ k.attempts = 0 => k.state = "kDisconnected" /\ k.channel = 0 /\ k.timers = {}

\* A socket is handed over once, and is the only one a connection has.
OneHandOver(k) ==
    /\ k.handed # 0 => k.state = "kConnected"
    /\ \A e \in k.tree : e.of = "connection" => e.sock = k.handed

Sound(k) == k \in ClientType /\ OneAttempt(k) /\ OneHandOver(k)

\* The functor f is queued in q.
In(q, f) == \E i \in 1 .. Len(q) : q[i] = f

\* The functor that starts the connector is queued once at most.
OneStart(q) == \A i, j \in 1 .. Len(q) : q[i] = "start" /\ q[j] = "start" => i = j

Pending(f) == In(c.queue, f) \/ In(running, f)

\* Start comes before the first attempt and stop after connect_ is false.  The
\* functor that destroys the channel finds no later attempt's channel: it runs
\* at the end of the pass that queued it, before a new timer can fire.
FunctorsInTime ==
    /\ OneStart(c.queue) /\ OneStart(running)
    /\ ~(In(c.queue, "start") /\ In(running, "start"))
    /\ Pending("start") => c.attempts = 0
    /\ Pending("stop") => ~c.connect
    /\ Pending("reset") =>
         /\ c.attempts # 0 /\ c.state # "kConnecting"
         /\ c.connect => c.timers \subseteq c.young
    /\ In(c.queue, "reset") /\ c.connect => lpc = "dispatch"
    /\ lpc # "functors" => running = <<>>

\* An event for the connector is for the channel it has; only the owner's stop
\* comes between the report and the handler.
EventsInTime ==
    /\ lpc # "dispatch" => events = {}
    /\ \A e \in events : e.of = "connector" =>
         c.channel = e.sock /\ (c.state = "kConnecting" \/ ~c.connect)

\* Someone keeps the connection whose channel is in epoll.
ConnectionKept ==
    \A e \in c.tree : e.of = "connection" =>
        c.connection # 0 \/ Pending("destroy") \/ ~c.alive

OwnerInTime ==
    /\ owner = "new" => c.attempts = 0 /\ ~Pending("start") /\ ~Pending("stop")
    /\ owner \in {"stopped", "releasing", "done"} => ~c.connect

Typed ==
    /\ running \in Seq(Functors)
    /\ outcome \in [Socks -> {"pending", "ok", "failed"}]
    /\ peerGone \in BOOLEAN
    /\ lpc \in {"poll", "dispatch", "functors"}
    /\ events \in SUBSET Entries
    /\ owner \in OwnerSteps

ClientInv ==
    /\ Sound(c)
    /\ Typed
    /\ FunctorsInTime
    /\ EventsInTime
    /\ ConnectionKept
    /\ OwnerInTime

-----------------------------------------------------------------------------
(* What the handlers do to a sound record.                                 *)

\* Fields that only NewConnection, HandleClose and Release change.
SameConnection(k, n) ==
    n.alive = k.alive /\ n.connection = k.connection /\ n.handed = k.handed

\* ::close.
LEMMA CloseEffect ==
  ASSUME NEW k \in ClientType, NEW s
  PROVE  LET n == Close(k, s)
         IN  /\ n \in ClientType
             /\ n.open = k.open \ {s} /\ n.tree = {e \in k.tree : e.sock # s}
             /\ n.state = k.state /\ n.connect = k.connect /\ n.channel = k.channel
             /\ n.timers = k.timers /\ n.young = k.young /\ n.queue = k.queue
             /\ n.attempts = k.attempts /\ SameConnection(k, n)
  BY DEF Close, ClientType, SameConnection

\* The channel leaves epoll and the functor that destroys it is queued.
LEMMA RemoveEffect ==
  ASSUME NEW k \in ClientType
  PROVE  LET n == RemoveAndResetChannel(k)
         IN  /\ n \in ClientType
             /\ n.tree = k.tree \ {[sock |-> k.channel, of |-> "connector"]}
             /\ n.queue = Append(k.queue, "reset")
             /\ n.open = k.open
             /\ n.state = k.state /\ n.connect = k.connect /\ n.channel = k.channel
             /\ n.timers = k.timers /\ n.young = k.young
             /\ n.attempts = k.attempts /\ SameConnection(k, n)
  <1> DEFINE t == k.tree \ {[sock |-> k.channel, of |-> "connector"]}
  <1>1. k.queue \in Seq(Functors) /\ "reset" \in Functors
    BY DEF ClientType, Functors
  <1>2. Append(k.queue, "reset") \in Seq(Functors)
    BY <1>1, AppendProperties
  <1> PICK q \in Seq(Functors) : q = Append(k.queue, "reset")
    BY <1>2
  <1>3. t \in SUBSET Entries
    BY DEF ClientType
  <1>4. RemoveAndResetChannel(k) = [k EXCEPT !.tree = t, !.queue = q]
    BY DEF RemoveAndResetChannel, ClientType
  <1> HIDE DEF t
  <1>5. [k EXCEPT !.tree = t, !.queue = q] \in ClientType
    BY <1>3 DEF ClientType
  <1> QED
    BY <1>3, <1>4, <1>5 DEF ClientType, SameConnection, t

\* StopInLoop: the timer is cancelled, and an attempt that is under way ends.
LEMMA StopEffect ==
  ASSUME NEW k, Sound(k)
  PROVE  LET n == StopInLoop(k)
         IN  /\ Sound(n) /\ n.state # "kConnecting"
             /\ n.connect = k.connect /\ n.channel = k.channel /\ n.attempts = k.attempts
             /\ SameConnection(k, n)
             /\ n.timers \subseteq k.timers
             /\ n.tree \subseteq k.tree
             /\ \/ n.queue = k.queue /\ n.state = k.state /\ n.open = k.open /\ n.tree = k.tree
                \/ n.queue = Append(k.queue, "reset") /\ k.state = "kConnecting"
  <1>1. k \in ClientType /\ OneAttempt(k) /\ OneHandOver(k)
    BY DEF Sound
  <1> DEFINE quiet == [k EXCEPT !.timers = @ \ {k.retryTimer},
                                !.young = @ \ {k.retryTimer}, !.retryTimer = 0]
  <1>2. /\ quiet \in ClientType
        /\ quiet.timers = k.timers \ {k.retryTimer} /\ quiet.young = k.young \ {k.retryTimer}
        /\ quiet.open = k.open /\ quiet.tree = k.tree
        /\ quiet.state = k.state /\ quiet.connect = k.connect /\ quiet.channel = k.channel
        /\ quiet.queue = k.queue /\ quiet.attempts = k.attempts /\ SameConnection(k, quiet)
    BY <1>1 DEF ClientType, SameConnection, Nums
  <1>3. k.state = "kConnecting" => k.channel # 0
    BY <1>1 DEF OneAttempt, ClientType, Socks
  <1>4. CASE k.state # "kConnecting"
    <2>1. StopInLoop(k) = quiet
      BY <1>4 DEF StopInLoop
    <2> HIDE DEF quiet
    <2>2. OneAttempt(quiet) /\ OneHandOver(quiet)
      BY <1>1, <1>2, <1>4 DEF OneAttempt, OneHandOver, SameConnection
    <2> QED
      BY <1>2, <1>4, <2>1, <2>2 DEF Sound
  <1>5. CASE k.state = "kConnecting"
    <2> DEFINE a == [quiet EXCEPT !.state = "kDisconnected"]
               b == RemoveAndResetChannel(a)
               n == Close(b, k.channel)
    <2>1. StopInLoop(k) = n
      BY <1>3, <1>5 DEF StopInLoop
    <2> HIDE DEF quiet
    <2>2. /\ a \in ClientType
          /\ a.timers = quiet.timers /\ a.young = quiet.young /\ a.open = k.open /\ a.tree = k.tree
          /\ a.state = "kDisconnected" /\ a.connect = k.connect /\ a.channel = k.channel
          /\ a.queue = k.queue /\ a.attempts = k.attempts /\ SameConnection(k, a)
      BY <1>2 DEF ClientType, SameConnection
    <2> HIDE DEF a
    <2>3. /\ b \in ClientType
          /\ b.tree = k.tree \ {[sock |-> k.channel, of |-> "connector"]}
          /\ b.queue = Append(k.queue, "reset")
          /\ b.open = k.open
          /\ b.state = "kDisconnected" /\ b.connect = k.connect /\ b.channel = k.channel
          /\ b.timers = quiet.timers /\ b.young = quiet.young
          /\ b.attempts = k.attempts /\ SameConnection(k, b)
      BY <2>2, RemoveEffect DEF SameConnection
    <2> HIDE DEF b
    <2>4. /\ n \in ClientType
          /\ n.open = k.open \ {k.channel} /\ n.tree = {e \in b.tree : e.sock # k.channel}
          /\ n.queue = Append(k.queue, "reset")
          /\ n.state = "kDisconnected" /\ n.connect = k.connect /\ n.channel = k.channel
          /\ n.timers = quiet.timers /\ n.young = quiet.young
          /\ n.attempts = k.attempts /\ SameConnection(k, n)
      BY <2>3, CloseEffect DEF SameConnection
    <2> HIDE DEF n
    <2>5. n.tree \subseteq k.tree /\ \A e \in n.tree : e.of # "connector"
      BY <1>1, <2>3, <2>4 DEF OneAttempt
    <2>6. n.timers = {} /\ n.young = {} /\ n.open \subseteq {k.handed} /\ k.attempts # 0
      BY <1>1, <1>2, <1>5, <2>4 DEF OneAttempt
    <2>7. OneAttempt(n) /\ OneHandOver(n)
      BY <1>1, <1>5, <2>4, <2>5, <2>6 DEF OneAttempt, OneHandOver, SameConnection
    <2> QED
      BY <1>5, <2>1, <2>4, <2>5, <2>6, <2>7 DEF Sound
  <1> QED
    BY <1>4, <1>5

\* error_callback_, which may stop the client.
LEMMA ErrorEffect ==
  ASSUME NEW k, Sound(k), k.state # "kConnecting", NEW n \in ErrorCallback(k)
  PROVE  /\ Sound(n) /\ n.state = k.state
         /\ n.connect => k.connect
         /\ n.channel = k.channel /\ n.attempts = k.attempts /\ SameConnection(k, n)
         /\ n.open = k.open /\ n.tree = k.tree /\ n.timers \subseteq k.timers /\ n.queue = k.queue
  <1> DEFINE a == [k EXCEPT !.wanted = FALSE, !.connect = FALSE]
  <1>1. n = k \/ n = StopInLoop(a)
    BY DEF ErrorCallback
  <1>2. /\ a \in ClientType
        /\ a.timers = k.timers /\ a.young = k.young /\ a.open = k.open /\ a.tree = k.tree
        /\ a.state = k.state /\ a.connect = FALSE /\ a.channel = k.channel
        /\ a.queue = k.queue /\ a.attempts = k.attempts /\ SameConnection(k, a)
    BY DEF Sound, ClientType, SameConnection
  <1> HIDE DEF a
  <1>3. Sound(a)
    BY <1>2 DEF Sound, OneAttempt, OneHandOver, SameConnection
  <1>4. CASE n = k
    BY <1>4 DEF SameConnection
  <1>5. CASE n = StopInLoop(a)
    BY <1>2, <1>3, <1>5, StopEffect DEF SameConnection
  <1> QED
    BY <1>1, <1>4, <1>5

\* Retry closes the socket, and a timer starts the next attempt.
LEMMA RetryEffect ==
  ASSUME NEW k \in ClientType, NEW s \in Socks, k.attempts # 0, k.timers = {}, k.young = {},
         k.handed = 0, k.open \subseteq {s},
         \A e \in k.tree : e.sock = s,
         NEW n \in Retry(k, s)
  PROVE  /\ Sound(n) /\ n.state = "kDisconnected" /\ n.tree = {}
         /\ n.connect => k.connect
         /\ n.channel = k.channel /\ n.attempts = k.attempts /\ SameConnection(k, n)
         /\ n.timers \subseteq n.young /\ n.queue = k.queue
  <1> DEFINE a == Close(k, s)
             b == [a EXCEPT !.state = "kDisconnected"]
  <1>1. /\ a \in ClientType
        /\ a.open = {} /\ a.tree = {}
        /\ a.connect = k.connect /\ a.channel = k.channel
        /\ a.timers = {} /\ a.young = {} /\ a.queue = k.queue
        /\ a.attempts = k.attempts /\ SameConnection(k, a)
    <2>1. k.open \ {s} = {} /\ {e \in k.tree : e.sock # s} = {}
      OBVIOUS
    <2> QED
      BY <2>1, CloseEffect
  <1>2. (n = b /\ ~k.connect) \/ \E d \in ErrorCallback(b) : n = ArmRetry(d, s)
    BY DEF Retry
  <1> HIDE DEF a
  <1>3. /\ b \in ClientType
        /\ b.open = {} /\ b.tree = {} /\ b.state = "kDisconnected"
        /\ b.connect = k.connect /\ b.channel = k.channel
        /\ b.timers = {} /\ b.young = {} /\ b.queue = k.queue
        /\ b.attempts = k.attempts /\ SameConnection(k, b)
    BY <1>1 DEF ClientType, SameConnection
  <1> HIDE DEF b
  <1>4. Sound(b)
    BY <1>3 DEF Sound, OneAttempt, OneHandOver, SameConnection
  <1>5. CASE n = b
    BY <1>3, <1>4, <1>5
  <1>6. ASSUME NEW d \in ErrorCallback(b), n = ArmRetry(d, s)
        PROVE  /\ Sound(n) /\ n.state = "kDisconnected" /\ n.tree = {}
               /\ n.connect => k.connect
               /\ n.channel = k.channel /\ n.attempts = k.attempts /\ SameConnection(k, n)
               /\ n.timers \subseteq n.young /\ n.queue = k.queue
    <2>1. /\ Sound(d) /\ d.state = "kDisconnected"
          /\ d.connect => k.connect
          /\ d.channel = k.channel /\ d.attempts = k.attempts /\ SameConnection(k, d)
          /\ d.open = {} /\ d.tree = {} /\ d.timers = {} /\ d.queue = k.queue
      BY <1>3, <1>4, ErrorEffect DEF SameConnection
    <2>2. d \in ClientType /\ d.young = {}
      BY <2>1 DEF Sound, OneAttempt
    <2>3. Doubled(d.delay) \in InitDelay .. MaxDelay
      BY <2>2, TcpClientAssumption DEF Doubled, ClientType
    <2> PICK y \in InitDelay .. MaxDelay : y = Doubled(d.delay)
      BY <2>3
    <2>4. n = [d EXCEPT !.timers = {s}, !.young = {s}, !.retryTimer = s, !.delay = y]
      BY <1>6, <2>1, <2>2 DEF ArmRetry, ClientType
    <2>5. /\ n \in ClientType /\ n.state = "kDisconnected"
          /\ n.connect => k.connect
          /\ n.timers = {s} /\ n.young = {s}
          /\ n.open = {} /\ n.tree = {} /\ n.channel = k.channel /\ n.queue = k.queue
          /\ n.attempts = k.attempts /\ SameConnection(k, n)
      BY ZenonT(30), <2>1, <2>2, <2>4 DEF ClientType, SameConnection, Nums
    <2>6. OneAttempt(n) /\ OneHandOver(n)
      BY <2>5 DEF OneAttempt, OneHandOver, SameConnection
    <2> QED
      BY <2>5, <2>6 DEF Sound
  <1> QED
    BY <1>2, <1>5, <1>6

\* A connector that is not connected has no socket but the one it waits for.
LEMMA NothingElse ==
  ASSUME NEW k, Sound(k), k.state # "kConnected"
  PROVE  /\ k.handed = 0
         /\ \A e \in k.tree : k.state = "kConnecting" /\ e.of = "connector" /\ e.sock = k.channel
         /\ \A s \in k.open : k.state = "kConnecting" /\ s = k.channel
  <1>1. k.handed = 0
    BY DEF Sound, OneHandOver
  <1>2. \A e \in k.tree : e.sock # 0 /\ (e.of = "connector" \/ e.of = "connection")
    BY DEF Sound, ClientType, Entries, Socks
  <1>3. \A s \in k.open : s # 0
    BY DEF Sound, ClientType, Socks
  <1> QED
    BY <1>1, <1>2, <1>3 DEF Sound, OneAttempt, OneHandOver

\* What an attempt may change.
Attempted(k, n) ==
    /\ k.connect /\ k.state = "kDisconnected"
    /\ Sound(n) /\ n.attempts # 0 /\ n.state # "kConnected"
    /\ n.queue = k.queue /\ SameConnection(k, n)

\* StartInLoop does nothing, or makes an attempt.
LEMMA StartEffect ==
  ASSUME NEW k, Sound(k), k.timers = {}, k.attempts < MaxAttempts, NEW n \in StartInLoop(k)
  PROVE  n = k \/ Attempted(k, n)
  <1> SUFFICES ASSUME k.connect, k.state = "kDisconnected", n \in Connect(k)
               PROVE  Attempted(k, n)
    BY DEF StartInLoop
  <1>0. k \in ClientType /\ OneAttempt(k) /\ k.young = {}
    BY DEF Sound, OneAttempt
  <1>1. k.handed = 0 /\ k.tree = {} /\ k.open = {}
    BY NothingElse
  <1>2. k.attempts + 1 \in Socks /\ k.attempts + 1 # 0
    BY <1>0, TcpClientAssumption DEF ClientType, Nums, Socks
  <1> PICK s \in Socks : s = k.attempts + 1 /\ s # 0
    BY <1>2
  <1> DEFINE tried  == [k EXCEPT !.attempts = s]
             opened == [tried EXCEPT !.open = @ \cup {s}]
  <1>3. \/ n \in ErrorCallback([tried EXCEPT !.gaveUp = TRUE])
        \/ n \in Retry(opened, s)
        \/ n = Connecting(opened, s)
    BY DEF Connect
  <1>4. CASE n \in ErrorCallback([tried EXCEPT !.gaveUp = TRUE])
    <2> DEFINE g == [tried EXCEPT !.gaveUp = TRUE]
    <2>1. /\ g \in ClientType /\ g.attempts = s /\ g.state = "kDisconnected"
          /\ g.open = {} /\ g.tree = {} /\ g.timers = {} /\ g.young = {} /\ g.handed = 0
          /\ g.queue = k.queue /\ SameConnection(k, g)
      BY ZenonT(30), <1>0, <1>1 DEF ClientType, Nums, SameConnection
    <2> HIDE DEF g
    <2>2. Sound(g)
      BY <2>1 DEF Sound, OneAttempt, OneHandOver
    <2>3. n \in ErrorCallback(g)
      BY <1>4 DEF g
    <2> QED
      BY <2>1, <2>2, <2>3, ErrorEffect DEF Attempted, SameConnection
  <1>5. /\ opened \in ClientType /\ opened.attempts = s
        /\ opened.open = {s} /\ opened.tree = {} /\ opened.timers = {} /\ opened.young = {}
        /\ opened.handed = 0 /\ opened.queue = k.queue /\ SameConnection(k, opened)
    BY ZenonT(30), <1>0, <1>1 DEF ClientType, Nums, SameConnection
  <1>6. CASE n \in Retry(opened, s)
    <2> HIDE DEF opened
    <2> QED
      BY <1>5, <1>6, RetryEffect DEF Attempted, SameConnection
  <1>7. CASE n = Connecting(opened, s)
    <2> HIDE DEF opened
    <2> PICK e \in Entries : e = [sock |-> s, of |-> "connector"]
      BY DEF Entries
    <2>1. n = [opened EXCEPT !.state = "kConnecting", !.channel = s, !.tree = {e}]
      BY <1>5, <1>7 DEF Connecting, ClientType
    <2>2. /\ n \in ClientType /\ n.attempts = s /\ n.state = "kConnecting" /\ n.channel = s
          /\ n.open = {s} /\ n.tree = {e} /\ n.timers = {} /\ n.young = {}
          /\ n.handed = 0 /\ n.queue = k.queue /\ SameConnection(k, n)
      BY ZenonT(30), <1>5, <2>1 DEF ClientType, Nums, SameConnection
    <2>3. e.sock = s /\ e.of = "connector"
      OBVIOUS
    <2>4. OneAttempt(n) /\ OneHandOver(n)
      BY <2>2, <2>3 DEF OneAttempt, OneHandOver
    <2> QED
      BY <2>2, <2>4 DEF Attempted, Sound
  <1> QED
    BY <1>3, <1>4, <1>6, <1>7

\* What the end of a handshake may change.
HandshakeHandled(k, n) ==
    /\ k.state = "kConnecting"
    /\ Sound(n) /\ n.state # "kConnecting"
    /\ n.channel = k.channel /\ n.attempts = k.attempts /\ n.alive = k.alive
    /\ n.connect => k.connect
    /\ n.handed # k.handed => k.connect
    /\ n.timers \subseteq n.young
    /\ n.queue = Append(k.queue, "reset")
    /\ \A e \in n.tree : e.of = "connection" => n.connection # 0

\* HandleWrite ignores a late event, tries again, or gives the socket away.
LEMMA HandleWriteEffect ==
  ASSUME NEW k, Sound(k), NEW result, NEW n \in HandleWrite(k, result)
  PROVE  n = k \/ HandshakeHandled(k, n)
  <1> SUFFICES ASSUME k.state = "kConnecting"
               PROVE  HandshakeHandled(k, n)
    BY DEF HandleWrite
  <1>0. k \in ClientType /\ OneAttempt(k) /\ OneHandOver(k)
    BY DEF Sound
  <1>1. /\ k.channel \in Socks /\ k.channel # 0
        /\ k.timers = {} /\ k.young = {} /\ k.attempts # 0
    BY <1>0 DEF OneAttempt, ClientType, Socks
  <1> PICK s \in Socks : s = k.channel /\ s # 0
    BY <1>1
  <1>2. /\ k.handed = 0
        /\ \A e \in k.tree : e.of = "connector" /\ e.sock = s
        /\ \A t \in k.open : t = s
    BY NothingElse
  <1> DEFINE d == RemoveAndResetChannel(k)
  <1>3. /\ d \in ClientType
        /\ d.tree = {}
        /\ d.queue = Append(k.queue, "reset")
        /\ d.open = k.open
        /\ d.connect = k.connect /\ d.channel = s
        /\ d.timers = {} /\ d.young = {}
        /\ d.attempts = k.attempts /\ SameConnection(k, d)
    <2>1. k.tree \ {[sock |-> k.channel, of |-> "connector"]} = {}
      BY <1>0, <1>2 DEF ClientType, Entries
    <2> QED
      BY <1>0, <1>1, <2>1, RemoveEffect
  <1>4. n \in Retry(d, s) \/ n = HandOver([d EXCEPT !.state = "kConnected", !.delay = InitDelay], s)
    BY DEF HandleWrite
  <1> HIDE DEF d
  <1>5. CASE n \in Retry(d, s)
    BY <1>1, <1>2, <1>3, <1>5, RetryEffect DEF HandshakeHandled, SameConnection
  <1>6. CASE n = HandOver([d EXCEPT !.state = "kConnected", !.delay = InitDelay], s)
    <2> DEFINE h == [d EXCEPT !.state = "kConnected", !.delay = InitDelay]
    <2>1. InitDelay \in InitDelay .. MaxDelay
      BY TcpClientAssumption
    <2>2. /\ h \in ClientType /\ h.state = "kConnected" /\ h.tree = {} /\ h.open \subseteq {s}
          /\ h.queue = Append(k.queue, "reset") /\ h.connect = k.connect /\ h.channel = s
          /\ h.timers = {} /\ h.young = {} /\ h.attempts = k.attempts /\ SameConnection(k, h)
      BY <1>2, <1>3, <2>1 DEF ClientType, SameConnection
    <2>3. (k.connect /\ n = [h EXCEPT !.connection = s, !.conn = "kConnected", !.handed = s,
                                      !.tree = @ \cup {[sock |-> s, of |-> "connection"]}])
          \/ n = Close(h, s)
      BY <1>6, <2>2 DEF HandOver, NewConnection
    <2> HIDE DEF h
    <2>4. CASE n = Close(h, s)
      <3>1. /\ n \in ClientType /\ n.state = "kConnected" /\ n.tree = {} /\ n.open = {}
            /\ n.queue = Append(k.queue, "reset") /\ n.connect = k.connect /\ n.channel = s
            /\ n.timers = {} /\ n.young = {} /\ n.attempts = k.attempts /\ SameConnection(k, n)
        <4>1. h.open \ {s} = {} /\ {e \in h.tree : e.sock # s} = {}
          BY <2>2
        <4> QED
          BY <2>2, <2>4, <4>1, CloseEffect DEF SameConnection
      <3>2. OneAttempt(n) /\ OneHandOver(n)
        BY <1>1, <1>2, <3>1 DEF OneAttempt, OneHandOver, SameConnection
      <3> QED
        BY <3>1, <3>2 DEF HandshakeHandled, Sound, SameConnection
    <2>5. CASE k.connect /\ n = [h EXCEPT !.connection = s, !.conn = "kConnected", !.handed = s,
                                          !.tree = @ \cup {[sock |-> s, of |-> "connection"]}]
      <3> PICK e \in Entries : e = [sock |-> s, of |-> "connection"]
        BY DEF Entries
      <3>1. n = [h EXCEPT !.connection = s, !.conn = "kConnected", !.handed = s, !.tree = {e}]
        BY <2>2, <2>5 DEF ClientType
      <3>2. /\ n \in ClientType /\ n.state = "kConnected" /\ n.tree = {e} /\ n.open \subseteq {s}
            /\ n.queue = Append(k.queue, "reset") /\ n.connect = k.connect /\ n.channel = s
            /\ n.timers = {} /\ n.young = {} /\ n.attempts = k.attempts
            /\ n.connection = s /\ n.handed = s /\ n.alive = k.alive
        BY <2>2, <3>1 DEF ClientType, Nums, SameConnection
      <3>3. e.sock = s /\ e.of = "connection"
        OBVIOUS
      <3>4. OneAttempt(n) /\ OneHandOver(n)
        BY <1>1, <3>2, <3>3 DEF OneAttempt, OneHandOver
      <3> QED
        BY <2>5, <3>2, <3>4 DEF HandshakeHandled, Sound
    <2> QED
      BY <2>3, <2>4, <2>5
  <1> QED
    BY <1>4, <1>5, <1>6

\* Calls that touch no socket keep a record sound.
SameSockets(k, n) ==
    /\ n \in ClientType
    /\ n.state = k.state /\ n.channel = k.channel /\ n.open = k.open /\ n.tree = k.tree
    /\ n.timers = k.timers /\ n.young = k.young /\ n.attempts = k.attempts
    /\ n.handed = k.handed

\* Soundness speaks of nothing else.
LEMMA SoundSame ==
  ASSUME NEW k, NEW n, Sound(k), SameSockets(k, n)
  PROVE  Sound(n)
  BY DEF Sound, SameSockets, OneAttempt, OneHandOver

\* Disconnect's functor and the release of the client touch no socket.
LEMMA CallEffects ==
  ASSUME NEW k \in ClientType
  PROVE  /\ SameSockets(k, DisconnectInLoop(k)) /\ SameSockets(k, Release(k))
         /\ DisconnectInLoop(k).connect = k.connect /\ DisconnectInLoop(k).queue = k.queue
         /\ SameConnection(k, DisconnectInLoop(k))
         /\ Release(k).connect = k.connect /\ Release(k).queue = k.queue /\ ~Release(k).alive
  <1>1. /\ SameSockets(k, DisconnectInLoop(k))
        /\ DisconnectInLoop(k).connect = k.connect /\ DisconnectInLoop(k).queue = k.queue
        /\ SameConnection(k, DisconnectInLoop(k))
    BY DEF ClientType, SameSockets, SameConnection, DisconnectInLoop
  <1>2. /\ SameSockets(k, Release(k))
        /\ Release(k).connect = k.connect /\ Release(k).queue = k.queue /\ ~Release(k).alive
    BY DEF ClientType, SameSockets, Release, Nums
  <1> QED
    BY <1>1, <1>2

-----------------------------------------------------------------------------
(* Queues of functors.                                                     *)

\* A functor more.
LEMMA InAppend ==
  ASSUME NEW q \in Seq(Functors), NEW f \in Functors
  PROVE  /\ Append(q, f) \in Seq(Functors)
         /\ \A g : In(Append(q, f), g) <=> In(q, g) \/ g = f
         /\ OneStart(q) /\ (f # "start" \/ ~In(q, "start")) => OneStart(Append(q, f))
  <1> DEFINE t == Append(q, f)
  <1>1. /\ t \in Seq(Functors) /\ Len(t) = Len(q) + 1 /\ Len(q) \in Nat
        /\ \A i \in 1 .. Len(q) : t[i] = q[i]
        /\ t[Len(q) + 1] = f
    BY AppendProperties
  <1> HIDE DEF t
  <1>2. \A g : In(t, g) <=> In(q, g) \/ g = f
    BY <1>1 DEF In
  <1>3. OneStart(q) /\ (f # "start" \/ ~In(q, "start")) => OneStart(t)
    BY <1>1 DEF In, OneStart
  <1> QED
    BY <1>1, <1>2, <1>3 DEF t

\* A functor is taken from the front.
LEMMA InTail ==
  ASSUME NEW q \in Seq(Functors), q # <<>>, OneStart(q)
  PROVE  /\ Tail(q) \in Seq(Functors)
         /\ Head(q) \in Functors /\ In(q, Head(q))
         /\ \A g : In(Tail(q), g) => In(q, g)
         /\ \A g : In(q, g) /\ g # Head(q) => In(Tail(q), g)
         /\ OneStart(Tail(q))
         /\ Head(q) = "start" => ~In(Tail(q), "start")
  <1> DEFINE t == Tail(q)
  <1>1. /\ t \in Seq(Functors) /\ Len(t) = Len(q) - 1 /\ Len(q) \in Nat /\ 1 \in 1 .. Len(q)
        /\ Head(q) = q[1] /\ q[1] \in Functors
        /\ \A i \in 1 .. Len(t) : i + 1 \in 1 .. Len(q) /\ t[i] = q[i + 1]
    BY HeadTailProperties
  <1> HIDE DEF t
  <1>2. \A g : In(t, g) => In(q, g)
    BY <1>1 DEF In
  <1>3. ASSUME NEW i \in 1 .. Len(q), q[i] # q[1]
        PROVE  In(t, q[i])
    <2>1. i - 1 \in 1 .. Len(t) /\ (i - 1) + 1 = i
      BY <1>1, <1>3
    <2>2. t[i - 1] = q[i]
      BY <1>1, <2>1
    <2> QED
      BY <2>1, <2>2 DEF In
  <1>4. OneStart(t)
    <2> SUFFICES ASSUME NEW i \in 1 .. Len(t), NEW j \in 1 .. Len(t),
                        t[i] = "start", t[j] = "start"
                 PROVE  i = j
      BY DEF OneStart
    <2>1. i + 1 = j + 1
      BY <1>1 DEF OneStart
    <2> QED
      BY <2>1
  <1>5. ASSUME q[1] = "start", NEW i \in 1 .. Len(t), t[i] = "start"
        PROVE  FALSE
    <2>1. i + 1 = 1
      BY <1>1, <1>5 DEF OneStart
    <2> QED
      BY <2>1
  <1> QED
    BY <1>1, <1>2, <1>3, <1>4, <1>5 DEF t, In

\* Nothing is in an empty queue.
LEMMA InNone ==
  /\ <<>> \in Seq(Functors)
  /\ OneStart(<<>>)
  /\ \A f : ~In(<<>>, f)
  BY DEF OneStart, In

-----------------------------------------------------------------------------
(* The invariant holds at first and every step keeps it.                   *)

\* The client is made and nothing has been tried.
LEMMA InitClientInv == Init => ClientInv
  <1> SUFFICES ASSUME Init PROVE ClientInv
    OBVIOUS
  <1>1. c \in ClientType
    BY InNone, TcpClientAssumption DEF Init, ClientType, Nums
  <1>2. /\ c.state = "kDisconnected" /\ c.channel = 0 /\ c.handed = 0 /\ c.attempts = 0
        /\ c.open = {} /\ c.tree = {} /\ c.timers = {} /\ c.young = {} /\ c.queue = <<>>
    BY DEF Init
  <1>3. Sound(c)
    BY <1>1, <1>2 DEF Sound, OneAttempt, OneHandOver
  <1>4. Typed
    BY InNone DEF Init, Typed, OwnerSteps
  <1>5. running = <<>> /\ events = {} /\ owner = "new"
    BY DEF Init
  <1>6. FunctorsInTime /\ EventsInTime /\ ConnectionKept /\ OwnerInTime
    BY <1>2, <1>5, InNone DEF FunctorsInTime, EventsInTime, ConnectionKept, OwnerInTime, Pending
  <1> QED
    BY <1>3, <1>4, <1>6 DEF ClientInv

\* The owner starts the connector inside a handler.
LEMMA ConnectInLoopKeeps ==
  ASSUME ClientInv, ConnectInLoop
  PROVE  ClientInv'
  <1>0. Sound(c) /\ Typed /\ FunctorsInTime /\ EventsInTime /\ ConnectionKept /\ OwnerInTime
    BY DEF ClientInv
  <1>1. /\ owner = "new" /\ owner' = "up"
        /\ UNCHANGED <<outcome, peerGone, lpc, events, running>>
    BY DEF ConnectInLoop
  <1>2. PICK k : k = [c EXCEPT !.wanted = TRUE, !.connect = TRUE]
    OBVIOUS
  <1>3. /\ SameSockets(c, k) /\ k.connect /\ k.queue = c.queue /\ SameConnection(c, k)
        /\ Sound(k)
    <2>1. SameSockets(c, k) /\ k.connect /\ k.queue = c.queue /\ SameConnection(c, k)
      BY <1>0, <1>2 DEF Sound, ClientType, SameSockets, SameConnection
    <2> QED
      BY <1>0, <2>1, SoundSame
  <1>4. c.attempts = 0 /\ c.channel = 0 /\ c.timers = {} /\ ~Pending("start") /\ ~Pending("stop")
        /\ ~Pending("reset")
    BY <1>0, <1>1 DEF OwnerInTime, FunctorsInTime, Sound, OneAttempt
  <1>5. PICK n : n = c' /\ n \in StartInLoop(k)
    BY <1>2 DEF ConnectInLoop
  <1>6. n = k \/ Attempted(k, n)
    <2>1. k.timers = {} /\ k.attempts < MaxAttempts
      BY <1>3, <1>4, TcpClientAssumption DEF SameSockets
    <2> QED
      BY <1>3, <1>5, <2>1, StartEffect
  <1>7. Sound(n) /\ n.queue = c.queue /\ n.alive = c.alive /\ n.connection = c.connection
    BY <1>3, <1>6 DEF Attempted, SameConnection
  <1>8. \A e \in events : e.of # "connector"
    BY <1>0, <1>4 DEF EventsInTime, Typed, Entries, Socks
  <1>9. Typed'
    BY <1>0, <1>1 DEF Typed, OwnerSteps
  <1>10. FunctorsInTime'
    BY <1>0, <1>1, <1>4, <1>5, <1>7 DEF FunctorsInTime, Pending
  <1>11. EventsInTime'
    BY <1>0, <1>1, <1>8 DEF EventsInTime
  <1>12. ConnectionKept'
    <2>1. CASE n = k
      BY <1>0, <1>1, <1>3, <1>5, <2>1 DEF ConnectionKept, Pending, SameSockets, SameConnection
    <2>2. CASE Attempted(k, n)
      BY <1>5, <2>2, NothingElse DEF ConnectionKept, Attempted
    <2> QED
      BY <1>6, <2>1, <2>2
  <1>13. OwnerInTime'
    BY <1>1 DEF OwnerInTime
  <1> QED
    BY <1>5, <1>7, <1>9, <1>10, <1>11, <1>12, <1>13 DEF ClientInv

\* A call of another thread queues a functor, or changes a flag.
LEMMA OwnerKeeps ==
  ASSUME ClientInv, NEW n, n = c', SameSockets(c, n),
         n.queue \in Seq(Functors),
         owner # "new", owner' # "new", owner' \in OwnerSteps,
         UNCHANGED <<outcome, peerGone, lpc, events, running>>,
         n.connect => c.connect,
         owner' \in {"stopped", "releasing", "done"} => ~n.connect,
         \/ n.queue = c.queue
         \/ n.queue = Append(c.queue, "disconnect")
         \/ n.queue = Append(c.queue, "stop") /\ ~n.connect,
         ~n.alive \/ (n.alive = c.alive /\ n.connection = c.connection)
  PROVE  ClientInv'
  <1>0. Sound(c) /\ Typed /\ FunctorsInTime /\ EventsInTime /\ ConnectionKept /\ OwnerInTime
    BY DEF ClientInv
  <1>1. Sound(n)
    BY <1>0, SoundSame
  <1>2. c.queue \in Seq(Functors) /\ "disconnect" \in Functors /\ "stop" \in Functors
    BY <1>0 DEF Sound, ClientType, Functors
  <1>3. /\ \A f : f \notin {"disconnect", "stop"} => (In(n.queue, f) <=> In(c.queue, f))
        /\ In(n.queue, "stop") => In(c.queue, "stop") \/ ~n.connect
        /\ OneStart(n.queue)
    <2>1. OneStart(c.queue)
      BY <1>0 DEF FunctorsInTime
    <2>2. CASE n.queue = c.queue
      BY <2>1, <2>2
    <2>3. CASE n.queue = Append(c.queue, "disconnect")
      BY <1>2, <2>1, <2>3, InAppend
    <2>4. CASE n.queue = Append(c.queue, "stop") /\ ~n.connect
      BY <1>2, <2>1, <2>4, InAppend
    <2> QED
      BY <2>2, <2>3, <2>4
  <1>4. Typed'
    BY <1>0 DEF Typed
  <1>5. FunctorsInTime'
    BY <1>0, <1>3 DEF FunctorsInTime, Pending, SameSockets
  <1>6. EventsInTime'
    BY <1>0 DEF EventsInTime, SameSockets
  <1>7. ConnectionKept'
    BY <1>0, <1>3 DEF ConnectionKept, Pending, SameSockets
  <1>8. OwnerInTime'
    BY DEF OwnerInTime
  <1> QED
    BY <1>1, <1>4, <1>5, <1>6, <1>7, <1>8 DEF ClientInv

\* The owner's thread queues the start.
LEMMA ConnectFromThreadKeeps ==
  ASSUME ClientInv, ConnectFromThread
  PROVE  ClientInv'
  <1>0. Sound(c) /\ Typed /\ FunctorsInTime /\ EventsInTime /\ ConnectionKept /\ OwnerInTime
    BY DEF ClientInv
  <1>1. /\ owner = "new" /\ owner' = "up"
        /\ UNCHANGED <<outcome, peerGone, lpc, events, running>>
    BY DEF ConnectFromThread
  <1>2. c.attempts = 0 /\ c.channel = 0 /\ ~Pending("start") /\ ~Pending("stop") /\ ~Pending("reset")
    BY <1>0, <1>1 DEF OwnerInTime, FunctorsInTime, Sound, OneAttempt
  <1>3. c.queue \in Seq(Functors) /\ "start" \in Functors /\ OneStart(c.queue)
    BY <1>0 DEF Sound, ClientType, Functors, FunctorsInTime
  <1> PICK q \in Seq(Functors) : q = Append(c.queue, "start")
    BY <1>3, InAppend
  <1>4. /\ \A g : In(q, g) <=> In(c.queue, g) \/ g = "start"
        /\ OneStart(q)
    BY <1>2, <1>3, InAppend DEF Pending
  <1>5. PICK n : n = c' /\ n = [c EXCEPT !.wanted = TRUE, !.connect = TRUE, !.queue = q]
    BY DEF ConnectFromThread
  <1>6. SameSockets(c, n) /\ n.queue = q /\ SameConnection(c, n)
    BY <1>0, <1>5 DEF Sound, ClientType, SameSockets, SameConnection
  <1>7. Sound(n)
    BY <1>0, <1>6, SoundSame
  <1>8. \A e \in events : e.of # "connector"
    BY <1>0, <1>2 DEF EventsInTime, Typed, Entries, Socks
  <1>9. Typed'
    BY <1>0, <1>1 DEF Typed, OwnerSteps
  <1>10. FunctorsInTime'
    BY <1>0, <1>1, <1>2, <1>4, <1>5, <1>6 DEF FunctorsInTime, Pending, SameSockets
  <1>11. EventsInTime'
    BY <1>0, <1>1, <1>8 DEF EventsInTime
  <1>12. ConnectionKept'
    BY <1>0, <1>1, <1>4, <1>5, <1>6 DEF ConnectionKept, Pending, SameSockets, SameConnection
  <1>13. OwnerInTime'
    BY <1>1 DEF OwnerInTime
  <1> QED
    BY <1>5, <1>7, <1>9, <1>10, <1>11, <1>12, <1>13 DEF ClientInv

\* The connector is stopped in the loop, by a functor or inside a handler.
LEMMA StoppedKeeps ==
  ASSUME ClientInv, NEW n, n = c', Sound(n), ~n.connect, n.state # "kConnecting",
         n.channel = c.channel, n.attempts = c.attempts,
         ~n.alive \/ (SameConnection(c, n) /\ n.tree \subseteq c.tree),
         n.queue = c.queue \/ (n.queue = Append(c.queue, "reset") /\ c.state = "kConnecting"),
         NEW r \in Seq(Functors), r = running', OneStart(r),
         \A f : In(r, f) => In(running, f),
         \A f : In(running, f) /\ f # "stop" => In(r, f),
         lpc # "functors" => r = <<>>,
         UNCHANGED <<outcome, peerGone, lpc, events>>,
         owner' = owner \/ owner' = "done"
  PROVE  ClientInv'
  <1>0. Sound(c) /\ Typed /\ FunctorsInTime /\ EventsInTime /\ ConnectionKept /\ OwnerInTime
    BY DEF ClientInv
  <1>1. c.queue \in Seq(Functors) /\ "reset" \in Functors /\ OneStart(c.queue)
    BY <1>0 DEF Sound, ClientType, Functors, FunctorsInTime
  <1>2. /\ \A f : f # "reset" => (In(n.queue, f) <=> In(c.queue, f))
        /\ In(n.queue, "reset") => In(c.queue, "reset") \/ c.state = "kConnecting"
        /\ OneStart(n.queue)
    <2>1. CASE n.queue = c.queue
      BY <1>1, <2>1
    <2>2. CASE n.queue = Append(c.queue, "reset") /\ c.state = "kConnecting"
      BY <1>1, <2>2, InAppend
    <2> QED
      BY <2>1, <2>2
  <1>3. c.state = "kConnecting" => c.attempts # 0
    BY <1>0 DEF Sound, OneAttempt
  <1>4. Typed'
    BY <1>0 DEF Typed, OwnerSteps
  <1>5. FunctorsInTime'
    BY <1>0, <1>2, <1>3 DEF FunctorsInTime, Pending
  <1>6. EventsInTime'
    BY <1>0 DEF EventsInTime
  <1>7. ConnectionKept'
    BY <1>0, <1>2 DEF ConnectionKept, Pending, SameConnection
  <1>8. OwnerInTime'
    BY <1>0, <1>2 DEF OwnerInTime, Pending
  <1> QED
    BY <1>4, <1>5, <1>6, <1>7, <1>8 DEF ClientInv

\* The owner takes the client down inside a handler.
LEMMA TeardownKeeps ==
  ASSUME ClientInv, TeardownInLoop
  PROVE  ClientInv'
  <1>0. Sound(c) /\ Typed /\ FunctorsInTime
    BY DEF ClientInv
  <1>1. PICK k : k = [c EXCEPT !.wanted = FALSE, !.connect = FALSE]
    OBVIOUS
  <1>2. SameSockets(c, k) /\ ~k.connect /\ k.queue = c.queue /\ SameConnection(c, k)
    BY <1>0, <1>1 DEF Sound, ClientType, SameSockets, SameConnection
  <1>3. Sound(k)
    BY <1>0, <1>2, SoundSame
  <1>4. PICK d : d = DisconnectInLoop(k)
    OBVIOUS
  <1>5. SameSockets(k, d) /\ d.connect = k.connect /\ d.queue = k.queue /\ Sound(d)
    <2>1. SameSockets(k, d) /\ d.connect = k.connect /\ d.queue = k.queue
      BY <1>3, <1>4, CallEffects DEF Sound
    <2> QED
      BY <1>3, <2>1, SoundSame
  <1>6. PICK m : m = StopInLoop(d)
    OBVIOUS
  <1>7. /\ Sound(m) /\ m.state # "kConnecting"
        /\ m.connect = d.connect /\ m.channel = d.channel /\ m.attempts = d.attempts
        /\ m.queue = d.queue \/ (m.queue = Append(d.queue, "reset") /\ d.state = "kConnecting")
    BY <1>5, <1>6, StopEffect
  <1>8. PICK n : n = c' /\ n = Release(m)
    BY <1>1, <1>4, <1>6 DEF TeardownInLoop
  <1>9. SameSockets(m, n) /\ n.connect = m.connect /\ n.queue = m.queue /\ ~n.alive /\ Sound(n)
    <2>1. SameSockets(m, n) /\ n.connect = m.connect /\ n.queue = m.queue /\ ~n.alive
      BY <1>7, <1>8, CallEffects DEF Sound
    <2> QED
      BY <1>7, <2>1, SoundSame
  <1>10. /\ ~n.connect /\ n.state # "kConnecting" /\ n.channel = c.channel /\ n.attempts = c.attempts
         /\ n.queue = c.queue \/ (n.queue = Append(c.queue, "reset") /\ c.state = "kConnecting")
    BY <1>2, <1>5, <1>7, <1>9 DEF SameSockets
  <1>11. /\ owner' = "done" /\ UNCHANGED <<outcome, peerGone, lpc, events>> /\ running' = running
         /\ running \in Seq(Functors) /\ OneStart(running) /\ (lpc # "functors" => running = <<>>)
    BY <1>0 DEF TeardownInLoop, Typed, FunctorsInTime
  <1> QED
    BY <1>8, <1>9, <1>10, <1>11, StoppedKeeps

\* epoll_wait reports what is in epoll.
LEMMA EpollWaitKeeps ==
  ASSUME ClientInv, EpollWait
  PROVE  ClientInv'
  <1>0. Sound(c) /\ Typed /\ FunctorsInTime /\ EventsInTime /\ ConnectionKept /\ OwnerInTime
    BY DEF ClientInv
  <1>1. /\ lpc = "poll" /\ lpc' = "dispatch" /\ events' \in SUBSET c.tree
        /\ UNCHANGED <<c, outcome, peerGone, running, owner>>
    BY DEF EpollWait, Reportable
  <1>2. Typed'
    BY <1>0, <1>1 DEF Typed, Sound, ClientType
  <1>3. FunctorsInTime'
    BY <1>0, <1>1 DEF FunctorsInTime, Pending
  <1>4. EventsInTime'
    BY <1>0, <1>1 DEF EventsInTime, Sound, OneAttempt
  <1>5. ConnectionKept' /\ OwnerInTime' /\ Sound(c)'
    BY <1>0, <1>1 DEF ConnectionKept, OwnerInTime, Pending
  <1> QED
    BY <1>2, <1>3, <1>4, <1>5 DEF ClientInv

\* An event is handled.
LEMMA DispatchKeeps ==
  ASSUME ClientInv, NEW e \in Entries, Dispatch(e)
  PROVE  ClientInv'
  <1>0. Sound(c) /\ Typed /\ FunctorsInTime /\ EventsInTime /\ ConnectionKept /\ OwnerInTime
    BY DEF ClientInv
  <1>1. /\ lpc = "dispatch" /\ e \in events /\ events' = events \ {e}
        /\ UNCHANGED <<outcome, peerGone, lpc, running, owner>>
    BY DEF Dispatch
  <1>2. Typed'
    BY <1>0, <1>1 DEF Typed
  <1>3. c.queue \in Seq(Functors) /\ {"reset", "destroy"} \subseteq Functors /\ OneStart(c.queue)
    BY <1>0 DEF Sound, ClientType, Functors, FunctorsInTime
  <1>4. PICK n : n = c'
    OBVIOUS
  <1>5. \/ n = c
        \/ e.of = "connector" /\ HandshakeHandled(c, n)
        \/ n = HandleClose(c) /\ c.conn = "kConnected"
    <2>1. CASE e.of = "connector"
      <3>1. n \in HandleWrite(c, outcome[e.sock])
        BY <1>4, <2>1 DEF Dispatch
      <3> QED
        BY <1>0, <2>1, <3>1, HandleWriteEffect
    <2>2. CASE e.of = "connection"
      BY <1>4, <2>2 DEF Dispatch, HandleClose
    <2> QED
      BY <2>1, <2>2 DEF Entries
  <1>6. CASE n = c
    <2>1. FunctorsInTime' /\ EventsInTime' /\ ConnectionKept' /\ OwnerInTime'
      BY <1>0, <1>1, <1>4, <1>6 DEF FunctorsInTime, EventsInTime, ConnectionKept, OwnerInTime, Pending
    <2> QED
      BY <1>0, <1>2, <1>4, <1>6, <2>1 DEF ClientInv
  <1>7. CASE e.of = "connector" /\ HandshakeHandled(c, n)
    <2>1. /\ \A f : In(n.queue, f) <=> In(c.queue, f) \/ f = "reset"
          /\ OneStart(n.queue)
      BY <1>3, <1>7, InAppend DEF HandshakeHandled
    <2>2. c.state = "kConnecting" /\ c.attempts # 0 /\ n.attempts = c.attempts
      BY <1>0, <1>7 DEF Sound, OneAttempt, HandshakeHandled
    <2>3. FunctorsInTime'
      BY <1>0, <1>1, <1>4, <1>7, <2>1, <2>2 DEF FunctorsInTime, Pending, HandshakeHandled
    <2>4. \A g \in events' : g.of # "connector"
      <3>1. \A g \in events : g.of = "connector" => g.sock = e.sock
        BY <1>0, <1>1, <1>7 DEF EventsInTime
      <3>2. \A g \in events : g.of = "connector" /\ g.sock = e.sock => g = e
        BY <1>0, <1>7 DEF Typed, Entries
      <3> QED
        BY <1>1, <3>1, <3>2
    <2>5. EventsInTime'
      BY <1>0, <1>1, <2>4 DEF EventsInTime
    <2>6. ConnectionKept'
      BY <1>4, <1>7 DEF ConnectionKept, HandshakeHandled
    <2>7. OwnerInTime'
      BY <1>0, <1>1, <1>4, <1>7, <2>1, <2>2 DEF OwnerInTime, HandshakeHandled
    <2>8. Sound(c)'
      BY <1>4, <1>7 DEF HandshakeHandled
    <2> QED
      BY <1>2, <2>3, <2>5, <2>6, <2>7, <2>8 DEF ClientInv
  <1>8. CASE n = HandleClose(c) /\ c.conn = "kConnected"
    <2> PICK q \in Seq(Functors) : q = Append(c.queue, "destroy")
      BY <1>3, InAppend
    <2>1. /\ \A f : In(q, f) <=> In(c.queue, f) \/ f = "destroy"
          /\ OneStart(q)
      BY <1>3, InAppend
    <2>2. n = [c EXCEPT !.conn = "kDisconnecting", !.connection = 0, !.queue = q]
      BY <1>8 DEF HandleClose
    <2>3. SameSockets(c, n) /\ n.connect = c.connect /\ n.queue = q
      BY <1>0, <2>2 DEF Sound, ClientType, SameSockets, Nums
    <2>4. Sound(n)
      BY <1>0, <2>3, SoundSame
    <2>5. FunctorsInTime'
      BY <1>0, <1>1, <1>4, <2>1, <2>3 DEF FunctorsInTime, Pending, SameSockets
    <2>6. EventsInTime'
      BY <1>0, <1>1, <1>4, <2>3 DEF EventsInTime, SameSockets
    <2>7. ConnectionKept'
      BY <1>4, <2>1, <2>3 DEF ConnectionKept, Pending
    <2>8. OwnerInTime'
      BY <1>0, <1>1, <1>4, <2>1, <2>3 DEF OwnerInTime, Pending, SameSockets
    <2> QED
      BY <1>2, <1>4, <2>4, <2>5, <2>6, <2>7, <2>8 DEF ClientInv
  <1> QED
    BY <1>5, <1>6, <1>7, <1>8

\* A retry timer fires: no functor that destroys a channel is pending, and no
\* event for the connector is left in the pass.
LEMMA RetryFiresKeeps ==
  ASSUME ClientInv, NEW t \in Socks, RetryFires(t)
  PROVE  ClientInv'
  <1>0. Sound(c) /\ Typed /\ FunctorsInTime /\ EventsInTime /\ ConnectionKept /\ OwnerInTime
    BY DEF ClientInv
  <1>1. /\ lpc = "dispatch" /\ t \in c.timers /\ t \notin c.young /\ c.attempts < MaxAttempts
        /\ UNCHANGED <<outcome, peerGone, lpc, events, running, owner>>
    BY DEF RetryFires
  <1>2. PICK k : k = [c EXCEPT !.timers = @ \ {t}, !.retryTimer = 0]
    OBVIOUS
  <1>3. c.timers \ {t} = {} /\ c.young = {} /\ c.state # "kConnecting" /\ c.attempts # 0
    BY <1>0, <1>1 DEF Sound, OneAttempt
  <1>4. /\ k \in ClientType
        /\ k.state = c.state /\ k.channel = c.channel /\ k.open = c.open /\ k.tree = c.tree
        /\ k.timers = {} /\ k.young = {} /\ k.attempts = c.attempts /\ k.connect = c.connect
        /\ k.queue = c.queue /\ SameConnection(c, k)
    BY <1>0, <1>2, <1>3 DEF Sound, ClientType, SameConnection, Nums
  <1>5. Sound(k)
    BY <1>0, <1>3, <1>4 DEF Sound, OneAttempt, OneHandOver, SameConnection
  <1>6. PICK n : n = c' /\ n \in StartInLoop(k)
    BY <1>2 DEF RetryFires, RetryCallback
  <1>7. n = k \/ Attempted(k, n)
    BY <1>1, <1>4, <1>5, <1>6, StartEffect
  <1>8. Typed'
    BY <1>0, <1>1 DEF Typed
  <1>9. CASE n = k
    <2>1. FunctorsInTime' /\ EventsInTime' /\ ConnectionKept' /\ OwnerInTime'
      BY <1>0, <1>1, <1>4, <1>6, <1>9
      DEF FunctorsInTime, EventsInTime, ConnectionKept, OwnerInTime, Pending, SameConnection
    <2> QED
      BY <1>5, <1>6, <1>8, <1>9, <2>1 DEF ClientInv
  <1>10. CASE Attempted(k, n)
    <2>1. c.connect /\ c.state = "kDisconnected" /\ ~Pending("reset") /\ ~Pending("start")
          /\ ~Pending("stop")
      BY <1>0, <1>1, <1>3, <1>4, <1>10 DEF Attempted, FunctorsInTime
    <2>2. Sound(n) /\ n.attempts # 0 /\ n.queue = c.queue
      BY <1>4, <1>10 DEF Attempted
    <2>3. FunctorsInTime'
      BY <1>0, <1>1, <1>6, <2>1, <2>2 DEF FunctorsInTime, Pending
    <2>4. EventsInTime'
      BY <1>0, <1>1, <2>1 DEF EventsInTime
    <2>5. ConnectionKept'
      BY <1>6, <1>10, NothingElse DEF ConnectionKept, Attempted
    <2>6. OwnerInTime'
      BY <1>0, <1>1, <1>3, <2>1 DEF OwnerInTime
    <2> QED
      BY <1>6, <1>8, <2>2, <2>3, <2>4, <2>5, <2>6 DEF ClientInv
  <1> QED
    BY <1>7, <1>9, <1>10

\* The functors are swapped out.
LEMMA DispatchDoneKeeps ==
  ASSUME ClientInv, DispatchDone
  PROVE  ClientInv'
  <1>0. Sound(c) /\ Typed /\ FunctorsInTime /\ EventsInTime /\ ConnectionKept /\ OwnerInTime
    BY DEF ClientInv
  <1>1. /\ lpc = "dispatch" /\ events = {} /\ lpc' = "functors" /\ running' = c.queue
        /\ UNCHANGED <<outcome, peerGone, events, owner>>
    BY DEF DispatchDone
  <1> PICK q \in Seq(Functors) : q = <<>>
    BY InNone
  <1>2. PICK n : n = c' /\ n = [c EXCEPT !.queue = q]
    BY DEF DispatchDone
  <1>3. SameSockets(c, n) /\ n.connect = c.connect /\ n.queue = q /\ SameConnection(c, n)
    BY <1>0, <1>2 DEF Sound, ClientType, SameSockets, SameConnection
  <1>4. Sound(n)
    BY <1>0, <1>3, SoundSame
  <1>5. running = <<>> /\ OneStart(q) /\ \A f : ~In(q, f) /\ ~In(running, f)
    BY <1>0, <1>1, InNone DEF FunctorsInTime
  <1>6. Typed'
    BY <1>0, <1>1 DEF Typed, Sound, ClientType
  <1>7. FunctorsInTime'
    BY <1>0, <1>1, <1>2, <1>3, <1>5 DEF FunctorsInTime, Pending, SameSockets
  <1>8. EventsInTime'
    BY <1>1 DEF EventsInTime
  <1>9. ConnectionKept' /\ OwnerInTime'
    BY <1>0, <1>1, <1>2, <1>3, <1>5 DEF ConnectionKept, OwnerInTime, Pending, SameSockets, SameConnection
  <1> QED
    BY <1>2, <1>4, <1>6, <1>7, <1>8, <1>9 DEF ClientInv

\* The pass is over: the timers set in it are no longer young.
LEMMA PassDoneKeeps ==
  ASSUME ClientInv, PassDone
  PROVE  ClientInv'
  <1>0. Sound(c) /\ Typed /\ FunctorsInTime /\ EventsInTime /\ ConnectionKept /\ OwnerInTime
    BY DEF ClientInv
  <1>1. /\ lpc = "functors" /\ running = <<>> /\ lpc' = "poll"
        /\ UNCHANGED <<outcome, peerGone, events, running, owner>>
    BY DEF PassDone
  <1>2. PICK n : n = c' /\ n = [c EXCEPT !.young = {}]
    BY DEF PassDone
  <1>3. /\ n \in ClientType
        /\ n.state = c.state /\ n.channel = c.channel /\ n.open = c.open /\ n.tree = c.tree
        /\ n.timers = c.timers /\ n.young = {} /\ n.attempts = c.attempts /\ n.connect = c.connect
        /\ n.queue = c.queue /\ SameConnection(c, n)
    BY <1>0, <1>2 DEF Sound, ClientType, SameConnection
  <1>4. Sound(n)
    BY <1>0, <1>3 DEF Sound, OneAttempt, OneHandOver, SameConnection
  <1>5. c.connect => ~Pending("reset")
    BY <1>0, <1>1, InNone DEF FunctorsInTime, Pending
  <1>6. Typed'
    BY <1>0, <1>1 DEF Typed
  <1>7. FunctorsInTime'
    BY <1>0, <1>1, <1>2, <1>3, <1>5 DEF FunctorsInTime, Pending
  <1>8. EventsInTime'
    BY <1>0, <1>1 DEF EventsInTime
  <1>9. ConnectionKept' /\ OwnerInTime'
    BY <1>0, <1>1, <1>2, <1>3 DEF ConnectionKept, OwnerInTime, Pending, SameConnection
  <1> QED
    BY <1>2, <1>4, <1>6, <1>7, <1>8, <1>9 DEF ClientInv

\* A functor is run.
LEMMA RunFunctorKeeps ==
  ASSUME ClientInv, RunFunctor
  PROVE  ClientInv'
  <1>0. Sound(c) /\ Typed /\ FunctorsInTime /\ EventsInTime /\ ConnectionKept /\ OwnerInTime
    BY DEF ClientInv
  <1>1. /\ lpc = "functors" /\ running # <<>> /\ events = {}
        /\ UNCHANGED <<outcome, peerGone, lpc, events, owner>>
    BY <1>0 DEF RunFunctor, EventsInTime
  <1>2. /\ Tail(running) \in Seq(Functors)
        /\ Head(running) \in Functors /\ In(running, Head(running))
        /\ \A g : In(Tail(running), g) => In(running, g)
        /\ \A g : In(running, g) /\ g # Head(running) => In(Tail(running), g)
        /\ OneStart(Tail(running))
        /\ Head(running) = "start" => ~In(Tail(running), "start")
    BY <1>0, <1>1, InTail DEF Typed, FunctorsInTime
  <1> PICK r \in Seq(Functors), f \in Functors : r = Tail(running) /\ f = Head(running)
    BY <1>2
  <1>3. /\ running' = r /\ In(running, f) /\ OneStart(r)
        /\ \A g : In(r, g) => In(running, g)
        /\ \A g : In(running, g) /\ g # f => In(r, g)
        /\ f = "start" => ~In(r, "start")
    BY <1>2 DEF RunFunctor
  <1>4. Typed'
    BY <1>0, <1>1, <1>3 DEF Typed
  <1>5. EventsInTime'
    BY <1>1 DEF EventsInTime
  <1>6. PICK n : n = c' /\ n \in Run(c, f)
    BY DEF RunFunctor
  <1>7. ASSUME SameSockets(c, n), n.connect = c.connect, n.queue = c.queue, SameConnection(c, n),
               f # "destroy"
        PROVE  ClientInv'
    <2>1. Sound(n)
      BY <1>0, <1>7, SoundSame
    <2>2. FunctorsInTime'
      BY <1>0, <1>1, <1>3, <1>6, <1>7 DEF FunctorsInTime, Pending, SameSockets
    <2>3. ConnectionKept' /\ OwnerInTime'
      BY <1>0, <1>1, <1>3, <1>6, <1>7
      DEF ConnectionKept, OwnerInTime, Pending, SameSockets, SameConnection
    <2> QED
      BY <1>4, <1>5, <1>6, <2>1, <2>2, <2>3 DEF ClientInv
  <1>8. CASE f = "start"
    <2>1. c.attempts = 0 /\ c.timers = {} /\ ~Pending("reset") /\ ~In(c.queue, "start")
      BY <1>0, <1>3, <1>8 DEF FunctorsInTime, Pending, Sound, OneAttempt
    <2>2. n \in StartInLoop(c)
      BY <1>6, <1>8 DEF Run
    <2>3. n = c \/ Attempted(c, n)
      BY <1>0, <2>1, <2>2, StartEffect, TcpClientAssumption
    <2>4. CASE n = c
      <3>1. SameSockets(c, n) /\ SameConnection(c, n)
        BY <1>0, <2>4 DEF SameSockets, SameConnection, Sound
      <3> QED
        BY <1>7, <1>8, <2>4, <3>1
    <2>5. CASE Attempted(c, n)
      <3>1. Sound(n) /\ n.attempts # 0 /\ n.queue = c.queue /\ c.connect
        BY <2>5 DEF Attempted
      <3>2. FunctorsInTime'
        BY <1>0, <1>1, <1>3, <1>6, <1>8, <2>1, <3>1 DEF FunctorsInTime, Pending
      <3>3. ConnectionKept'
        BY <1>6, <2>5, NothingElse DEF ConnectionKept, Attempted
      <3>4. OwnerInTime'
        BY <1>0, <1>1, <1>3, <1>8, <3>1 DEF OwnerInTime, Pending
      <3> QED
        BY <1>4, <1>5, <1>6, <3>1, <3>2, <3>3, <3>4 DEF ClientInv
    <2> QED
      BY <2>3, <2>4, <2>5
  <1>9. CASE f = "stop"
    <2>1. n = StopInLoop(c) /\ ~c.connect
      BY <1>0, <1>3, <1>6, <1>9 DEF Run, FunctorsInTime, Pending
    <2>2. /\ Sound(n) /\ n.state # "kConnecting" /\ ~n.connect
          /\ n.channel = c.channel /\ n.attempts = c.attempts
          /\ SameConnection(c, n) /\ n.tree \subseteq c.tree
          /\ n.queue = c.queue \/ (n.queue = Append(c.queue, "reset") /\ c.state = "kConnecting")
      BY <1>0, <2>1, StopEffect
    <2> QED
      BY <1>1, <1>3, <1>6, <1>9, <2>2, StoppedKeeps
  <1>10. CASE f = "disconnect"
    <2>1. n = DisconnectInLoop(c)
      BY <1>6, <1>10 DEF Run
    <2>2. SameSockets(c, n) /\ n.connect = c.connect /\ n.queue = c.queue /\ SameConnection(c, n)
      BY <1>0, <2>1, CallEffects DEF Sound
    <2> QED
      BY <1>7, <1>10, <2>2
  <1>11. CASE f = "reset"
    <2>1. n = [c EXCEPT !.channel = 0]
      BY <1>6, <1>11 DEF Run
    <2>2. c.state # "kConnecting" /\ c.attempts # 0
      BY <1>0, <1>3, <1>11 DEF FunctorsInTime, Pending
    <2>3. /\ n \in ClientType
          /\ n.state = c.state /\ n.open = c.open /\ n.tree = c.tree
          /\ n.timers = c.timers /\ n.young = c.young /\ n.attempts = c.attempts
          /\ n.connect = c.connect /\ n.queue = c.queue /\ SameConnection(c, n)
      BY <1>0, <2>1 DEF Sound, ClientType, SameConnection, Nums
    <2>4. Sound(n)
      BY <1>0, <2>2, <2>3 DEF Sound, OneAttempt, OneHandOver, SameConnection
    <2>5. FunctorsInTime'
      BY <1>0, <1>1, <1>3, <1>6, <2>3 DEF FunctorsInTime, Pending
    <2>6. ConnectionKept' /\ OwnerInTime'
      BY <1>0, <1>1, <1>3, <1>6, <1>11, <2>3 DEF ConnectionKept, OwnerInTime, Pending, SameConnection
    <2> QED
      BY <1>4, <1>5, <1>6, <2>4, <2>5, <2>6 DEF ClientInv
  <1>12. CASE f = "destroy"
    <2> DEFINE d == [c EXCEPT !.conn = "kDisconnected"]
    <2>1. n = Close(d, c.handed)
      BY <1>6, <1>12 DEF Run, ConnectionDestroyed
    <2>2. SameSockets(c, d) /\ d.connect = c.connect /\ d.queue = c.queue /\ SameConnection(c, d)
      BY <1>0 DEF Sound, ClientType, SameSockets, SameConnection
    <2> HIDE DEF d
    <2>3. /\ n \in ClientType
          /\ n.open = c.open \ {c.handed} /\ n.tree = {e \in c.tree : e.sock # c.handed}
          /\ n.state = c.state /\ n.connect = c.connect /\ n.channel = c.channel
          /\ n.timers = c.timers /\ n.young = c.young /\ n.queue = c.queue
          /\ n.attempts = c.attempts /\ SameConnection(c, n)
      BY <2>1, <2>2, CloseEffect DEF SameSockets, SameConnection
    <2>4. c.state = "kConnecting" => c.handed = 0 /\ c.channel # 0
      BY <1>0 DEF Sound, ClientType, OneAttempt, OneHandOver, Socks
    <2>5. OneAttempt(n)
      <3>1. c.state = "kConnecting" =>
              c.channel \in n.open /\ [sock |-> c.channel, of |-> "connector"] \in n.tree
        BY <1>0, <2>3, <2>4 DEF Sound, OneAttempt
      <3> QED
        BY <1>0, <2>3, <3>1 DEF Sound, OneAttempt, SameConnection
    <2>6. OneHandOver(n) /\ \A e \in n.tree : e.of # "connection"
      BY <1>0, <2>3 DEF Sound, OneHandOver, SameConnection
    <2>7. FunctorsInTime'
      BY <1>0, <1>1, <1>3, <1>6, <2>3 DEF FunctorsInTime, Pending
    <2>8. ConnectionKept' /\ OwnerInTime'
      BY <1>0, <1>1, <1>3, <1>6, <2>3, <2>6 DEF ConnectionKept, OwnerInTime, Pending
    <2> QED
      BY <1>4, <1>5, <1>6, <2>3, <2>5, <2>6, <2>7, <2>8 DEF ClientInv, Sound
  <1> QED
    BY <1>8, <1>9, <1>10, <1>11, <1>12 DEF Functors

-----------------------------------------------------------------------------
(* Theorems.                                                               *)

\* ClientInv is an invariant of the client, its connector and their loop.
THEOREM ClientInvariant == Spec => []ClientInv
  <1>1. ClientInv /\ [Next]_vars => ClientInv'
    <2> SUFFICES ASSUME ClientInv, [Next]_vars
                 PROVE  ClientInv'
      OBVIOUS
    <2>0. Sound(c) /\ Typed /\ FunctorsInTime /\ EventsInTime /\ ConnectionKept /\ OwnerInTime
      BY DEF ClientInv
    <2>1. CASE ConnectInLoop \/ ConnectFromThread \/ TeardownInLoop
      BY <2>1, ConnectInLoopKeeps, ConnectFromThreadKeeps, TeardownKeeps
    <2>2. CASE Disconnect \/ DisconnectQueues \/ Stop \/ StopQueues \/ ReleaseFromThread
      <3>1. PICK n : n = c'
        OBVIOUS
      <3>2. c \in ClientType /\ c.queue \in Seq(Functors)
        BY <2>0 DEF Sound, ClientType
      <3>3. PICK q \in Seq(Functors) : q = Append(c.queue, "disconnect")
        BY <3>2, InAppend DEF Functors
      <3>4. PICK p \in Seq(Functors) : p = Append(c.queue, "stop")
        BY <3>2, InAppend DEF Functors
      <3>5. /\ owner # "new" /\ owner' # "new" /\ owner' \in OwnerSteps
            /\ UNCHANGED <<outcome, peerGone, lpc, events, running>>
        BY <2>2 DEF Disconnect, DisconnectQueues, Stop, StopQueues, ReleaseFromThread, OwnerStep,
                    OwnerSteps
      <3>6. CASE Disconnect
        <4>1. n = [c EXCEPT !.wanted = FALSE] /\ owner' = "disconnecting"
          BY <3>1, <3>6 DEF Disconnect, OwnerStep
        <4>2. SameSockets(c, n) /\ n.connect = c.connect /\ n.queue = c.queue /\ SameConnection(c, n)
          BY <3>2, <4>1 DEF ClientType, SameSockets, SameConnection
        <4> QED
          BY <3>1, <3>2, <3>5, <4>1, <4>2, OwnerKeeps DEF SameConnection
      <3>7. CASE DisconnectQueues
        <4>1. n = [c EXCEPT !.queue = q] /\ owner' = "stopping"
          BY <3>1, <3>3, <3>7 DEF DisconnectQueues, OwnerStep
        <4>2. SameSockets(c, n) /\ n.connect = c.connect /\ n.queue = q /\ SameConnection(c, n)
          BY <3>2, <4>1 DEF ClientType, SameSockets, SameConnection
        <4> QED
          BY <3>1, <3>3, <3>5, <4>1, <4>2, OwnerKeeps DEF SameConnection
      <3>8. CASE Stop
        <4>1. n = [c EXCEPT !.connect = FALSE]
          BY <3>1, <3>8 DEF Stop, OwnerStep
        <4>2. SameSockets(c, n) /\ ~n.connect /\ n.queue = c.queue /\ SameConnection(c, n)
          BY <3>2, <4>1 DEF ClientType, SameSockets, SameConnection
        <4> QED
          BY <3>1, <3>2, <3>5, <4>2, OwnerKeeps DEF SameConnection
      <3>9. CASE StopQueues
        <4>1. n = [c EXCEPT !.queue = p] /\ ~c.connect
          BY <2>0, <3>1, <3>4, <3>9 DEF StopQueues, OwnerStep, OwnerInTime
        <4>2. SameSockets(c, n) /\ n.connect = c.connect /\ n.queue = p /\ SameConnection(c, n)
          BY <3>2, <4>1 DEF ClientType, SameSockets, SameConnection
        <4> QED
          BY <3>1, <3>4, <3>5, <4>1, <4>2, OwnerKeeps DEF SameConnection
      <3>10. CASE ReleaseFromThread
        <4>1. n = Release(c) /\ ~c.connect
          BY <2>0, <3>1, <3>10 DEF ReleaseFromThread, OwnerStep, OwnerInTime
        <4>2. SameSockets(c, n) /\ n.connect = c.connect /\ n.queue = c.queue /\ ~n.alive
          BY <3>2, <4>1, CallEffects
        <4> QED
          BY <3>1, <3>2, <3>5, <4>1, <4>2, OwnerKeeps
      <3> QED
        BY <2>2, <3>6, <3>7, <3>8, <3>9, <3>10
    <2>3. ASSUME UNCHANGED <<c, lpc, events, running, owner>>,
                 outcome' \in [Socks -> {"pending", "ok", "failed"}], peerGone' \in BOOLEAN
          PROVE  ClientInv'
      BY <2>0, <2>3 DEF ClientInv, Typed, FunctorsInTime, EventsInTime, ConnectionKept, OwnerInTime,
                        Pending
    <2>4. ASSUME NEW s \in Socks, HandshakeEnds(s)
          PROVE  ClientInv'
      <3>1. /\ UNCHANGED <<c, lpc, events, running, owner>> /\ peerGone' = peerGone
            /\ outcome' \in [Socks -> {"pending", "ok", "failed"}]
        BY <2>0, <2>4 DEF HandshakeEnds, Typed
      <3> QED
        BY <2>0, <2>3, <3>1 DEF Typed
    <2>5. CASE PeerCloses
      <3>1. UNCHANGED <<c, lpc, events, running, owner>> /\ peerGone' = TRUE /\ outcome' = outcome
        BY <2>5 DEF PeerCloses
      <3> QED
        BY <2>0, <2>3, <3>1 DEF Typed
    <2>6. CASE LoopStep
      BY <2>6, EpollWaitKeeps, DispatchKeeps, DispatchDoneKeeps, RunFunctorKeeps, PassDoneKeeps
      DEF LoopStep
    <2>7. ASSUME NEW t \in Socks, RetryFires(t)
          PROVE  ClientInv'
      BY <2>7, RetryFiresKeeps
    <2>8. CASE UNCHANGED vars
      BY <2>0, <2>3, <2>8 DEF vars, Typed
    <2> QED
      BY <2>1, <2>2, <2>4, <2>5, <2>6, <2>7, <2>8 DEF Next
  <1> QED
    BY <1>1, InitClientInv, PTL DEF Spec

\* The variables have their types in every reachable state.
THEOREM TypeCorrect == Spec => []TypeOK
  <1>1. ClientInv => TypeOK
    BY DEF ClientInv, Sound, ClientType, Nums, OneAttempt, Typed, TypeOK
  <1> QED
    BY <1>1, ClientInvariant, PTL

\* No socket leaks on the way to a connection: whenever Stop or the release
\* comes, an open socket is the one that was handed over or the one whose
\* handshake the connector waits for.
THEOREM NoSocketLeaks == Spec => []AttemptSocketsOwned
  <1>1. ClientInv => AttemptSocketsOwned
    BY DEF ClientInv, Sound, OneAttempt, AttemptSocketsOwned
  <1> QED
    BY <1>1, ClientInvariant, PTL

\* The delayed ResetChannel is safe: an event, reported or to come, finds the
\* channel object it is for, and a connection's channel its connection.
THEOREM EventsFindTheirChannel == Spec => []ChannelOutlivesEvents
  <1>1. ClientInv => ChannelOutlivesEvents
    <2> SUFFICES ASSUME ClientInv
                 PROVE  ChannelOutlivesEvents
      OBVIOUS
    <2>1. \A e \in c.tree \cup events : e.of = "connector" => c.channel = e.sock
      BY DEF ClientInv, Sound, OneAttempt, EventsInTime
    <2>2. Pending("destroy") => "destroy" \in Range(c.queue \o running)
      <3>1. PICK q \in Seq(Functors), r \in Seq(Functors) : q = c.queue /\ r = running
        BY DEF ClientInv, Sound, ClientType, Typed
      <3>2. /\ Len(q) \in Nat /\ Len(r) \in Nat
            /\ \A i \in 1 .. Len(q) : i \in DOMAIN (q \o r) /\ (q \o r)[i] = q[i]
            /\ \A i \in 1 .. Len(r) : Len(q) + i \in DOMAIN (q \o r) /\ (q \o r)[Len(q) + i] = r[i]
        BY ConcatProperties
      <3>3. PICK t : t = q \o r
        OBVIOUS
      <3> QED
        BY <3>1, <3>2, <3>3 DEF Pending, In, Range
    <2> QED
      BY <2>1, <2>2 DEF ClientInv, ConnectionKept, ChannelOutlivesEvents, ConnectionExists
  <1> QED
    BY <1>1, ClientInvariant, PTL

\* Stop is final: once connect_ is false no timer, handshake or functor that
\* comes later starts an attempt or makes a connection.
THEOREM StopIsFinal == Spec => StoppedStaysQuiet
  <1> DEFINE Quiet == ~c.connect /\ owner # "new"
                        => c'.attempts = c.attempts /\ c'.handed = c.handed
  <1>1. ClientInv /\ [Next]_vars => [Quiet]_vars
    <2> SUFFICES ASSUME ClientInv, Next, ~c.connect, owner # "new"
                 PROVE  c'.attempts = c.attempts /\ c'.handed = c.handed
      OBVIOUS
    <2>0. Sound(c) /\ c \in ClientType
      BY DEF ClientInv, Sound
    <2>1. CASE TeardownInLoop
      <3>1. PICK k : k = [c EXCEPT !.wanted = FALSE, !.connect = FALSE]
        OBVIOUS
      <3>2. SameSockets(c, k) /\ Sound(k)
        <4>1. SameSockets(c, k)
          BY <2>0, <3>1 DEF ClientType, SameSockets
        <4> QED
          BY <2>0, <4>1, SoundSame
      <3>3. PICK d : d = DisconnectInLoop(k)
        OBVIOUS
      <3>4. SameSockets(k, d) /\ Sound(d)
        <4>1. SameSockets(k, d)
          BY <3>2, <3>3, CallEffects DEF Sound
        <4> QED
          BY <3>2, <4>1, SoundSame
      <3>5. PICK m : m = StopInLoop(d)
        OBVIOUS
      <3>6. Sound(m) /\ m.attempts = d.attempts /\ m.handed = d.handed
        BY <3>4, <3>5, StopEffect DEF SameConnection
      <3>7. SameSockets(m, Release(m)) /\ c' = Release(m)
        BY <2>1, <3>1, <3>3, <3>5, <3>6, CallEffects DEF TeardownInLoop, Sound
      <3> QED
        BY <3>2, <3>4, <3>6, <3>7 DEF SameSockets
    <2>2. CASE Disconnect \/ DisconnectQueues \/ Stop \/ StopQueues \/ ReleaseFromThread
      BY <2>0, <2>2 DEF Disconnect, DisconnectQueues, Stop, StopQueues, ReleaseFromThread, OwnerStep,
                        Release, ClientType
    <2>3. ASSUME NEW e \in Entries, Dispatch(e)
          PROVE  c'.attempts = c.attempts /\ c'.handed = c.handed
      <3>1. PICK n : n = c'
        OBVIOUS
      <3>2. CASE e.of = "connector"
        <4>1. n \in HandleWrite(c, outcome[e.sock])
          BY <2>3, <3>1, <3>2 DEF Dispatch
        <4>2. n = c \/ HandshakeHandled(c, n)
          BY <2>0, <4>1, HandleWriteEffect
        <4> QED
          BY <3>1, <4>2 DEF HandshakeHandled
      <3>3. CASE e.of = "connection"
        <4>1. c' = c \/ c' = HandleClose(c)
          BY <2>3, <3>3 DEF Dispatch
        <4> QED
          BY <2>0, <4>1 DEF HandleClose, ClientType
      <3> QED
        BY <3>2, <3>3 DEF Entries
    <2>4. ASSUME NEW t \in Socks, RetryFires(t)
          PROVE  c'.attempts = c.attempts /\ c'.handed = c.handed
      <3>1. c' = [c EXCEPT !.timers = @ \ {t}, !.retryTimer = 0]
        BY <2>0, <2>4 DEF RetryFires, RetryCallback, StartInLoop, ClientType
      <3> QED
        BY <2>0, <3>1 DEF ClientType
    <2>5. CASE RunFunctor
      <3>1. PICK f : f = Head(running) /\ c' \in Run(c, f)
        BY <2>5 DEF RunFunctor
      <3>2. f \in Functors
        <4>1. running \in Seq(Functors) /\ running # <<>> /\ OneStart(running)
          BY <2>5 DEF ClientInv, Typed, FunctorsInTime, RunFunctor
        <4> QED
          BY <3>1, <4>1, InTail
      <3>3. CASE f = "start"
        BY <3>1, <3>3 DEF Run, StartInLoop
      <3>4. CASE f = "stop"
        <4>1. c' = StopInLoop(c)
          BY <3>1, <3>4 DEF Run
        <4> QED
          BY <2>0, <4>1, StopEffect DEF SameConnection
      <3>5. CASE f = "disconnect"
        BY <2>0, <3>1, <3>5 DEF Run, DisconnectInLoop, ClientType
      <3>6. CASE f = "reset"
        BY <2>0, <3>1, <3>6 DEF Run, ClientType
      <3>7. CASE f = "destroy"
        BY <2>0, <3>1, <3>7 DEF Run, ConnectionDestroyed, Close, ClientType
      <3> QED
        BY <3>2, <3>3, <3>4, <3>5, <3>6, <3>7 DEF Functors
    <2>6. CASE DispatchDone \/ PassDone \/ EpollWait
      BY <2>0, <2>6 DEF DispatchDone, PassDone, EpollWait, ClientType
    <2> QED
      BY <2>1, <2>2, <2>3, <2>4, <2>5, <2>6
      DEF Next, LoopStep, ConnectInLoop, ConnectFromThread, HandshakeEnds, PeerCloses
  <1> QED
    BY <1>1, ClientInvariant, PTL DEF Spec, StoppedStaysQuiet, Quiet

=============================================================================
