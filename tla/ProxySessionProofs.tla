-------------------------- MODULE ProxySessionProofs --------------------------
(***************************************************************************)
(* Proofs about ProxySession, for any number of chunks, any high-water     *)
(* mark and any room in the sockets.                                       *)
(***************************************************************************)
EXTENDS ProxySession, SequenceTheorems, TLAPS

-----------------------------------------------------------------------------
(* Sequences and channels.                                                 *)

\* The two parts of a sequence make it up.
LEMMA SubSeqFacts ==
  ASSUME NEW S, NEW a \in Seq(S), NEW n \in 0 .. Len(a)
  PROVE  /\ SubSeq(a, 1, n) \in Seq(S) /\ Len(SubSeq(a, 1, n)) = n
         /\ SubSeq(a, n + 1, Len(a)) \in Seq(S)
         /\ Len(SubSeq(a, n + 1, Len(a))) = Len(a) - n
         /\ SubSeq(a, 1, n) \o SubSeq(a, n + 1, Len(a)) = a
  <1>1. SubSeq(a, 1, n) \in Seq(S) /\ Len(SubSeq(a, 1, n)) = n
    OBVIOUS
  <1>2. /\ SubSeq(a, n + 1, Len(a)) \in Seq(S)
        /\ Len(SubSeq(a, n + 1, Len(a))) = Len(a) - n
    OBVIOUS
  <1>3. SubSeq(a, 1, n) \o SubSeq(a, n + 1, Len(a)) = a
    <2>1. PICK b \in Seq(S), c \in Seq(S) :
            b = SubSeq(a, 1, n) /\ c = SubSeq(a, n + 1, Len(a))
      BY <1>1, <1>2
    <2>2. /\ Len(b) = n /\ Len(c) = Len(a) - n
          /\ \A i \in 1 .. n : b[i] = a[i]
          /\ \A i \in 1 .. (Len(a) - n) : c[i] = a[n + i]
      BY <2>1
    <2>3. \A i \in 1 .. Len(a) : i \in 1 .. n \/ i - n \in 1 .. (Len(a) - n)
      OBVIOUS
    <2>4. \A i \in 1 .. Len(a) :
            i \notin 1 .. n => c[i - n] = a[i]
      <3> SUFFICES ASSUME NEW i \in 1 .. Len(a), i \notin 1 .. n
                   PROVE  c[i - n] = a[i]
        OBVIOUS
      <3>1. i - n \in 1 .. (Len(a) - n) /\ n + (i - n) = i
        OBVIOUS
      <3> QED
        BY <2>2, <3>1
    <2>5. \A i \in 1 .. Len(a) : (b \o c)[i] = a[i]
      BY <2>2, <2>4
    <2>6. b \o c \in Seq(S) /\ Len(b \o c) = Len(a)
      BY <2>2
    <2>7. PICK d \in Seq(S) : d = b \o c
      BY <2>6
    <2>8. Len(d) = Len(a) /\ \A i \in 1 .. Len(d) : d[i] = a[i]
      BY <2>5, <2>6, <2>7
    <2>9. d = a
      BY <2>8, SeqEqual
    <2> QED
      BY <2>1, <2>7, <2>9
  <1> QED
    BY <1>1, <1>2, <1>3

\* A prefix is how a sequence begins.
LEMMA PrefixIsBegin ==
  ASSUME NEW S, NEW a \in Seq(S), NEW b \in Seq(S)
  PROVE  IsPrefix(a, b) <=> \E c \in Seq(S) : b = a \o c
  <1>1. ASSUME IsPrefix(a, b)
        PROVE  \E c \in Seq(S) : b = a \o c
    <2>1. Len(a) \in 0 .. Len(b) /\ SubSeq(a, 1, Len(a)) = SubSeq(b, 1, Len(a))
      BY <1>1 DEF IsPrefix
    <2>2. SubSeq(a, 1, Len(a)) = a
      OBVIOUS
    <2>3. PICK c : c = SubSeq(b, Len(a) + 1, Len(b))
      OBVIOUS
    <2>4. c \in Seq(S) /\ SubSeq(b, 1, Len(a)) \o c = b
      BY <2>1, <2>3, SubSeqFacts
    <2>5. b = a \o c
      BY <2>1, <2>2, <2>4
    <2> QED
      BY <2>4, <2>5
  <1>2. ASSUME NEW c \in Seq(S), b = a \o c
        PROVE  IsPrefix(a, b)
    <2>1. Len(a) <= Len(b) /\ \A i \in 1 .. Len(a) : b[i] = a[i]
      BY <1>2
    <2>2. SubSeq(a, 1, Len(a)) = SubSeq(b, 1, Len(a))
      BY <2>1
    <2> QED
      BY <2>1, <2>2 DEF IsPrefix
  <1> QED
    BY <1>1, <1>2

\* Concatenation.
LEMMA ConcatFacts ==
  ASSUME NEW S, NEW a \in Seq(S), NEW b \in Seq(S), NEW c \in Seq(S)
  PROVE  /\ a \o b \in Seq(S)
         /\ (a \o b) \o c = a \o (b \o c)
         /\ a \o <<>> = a /\ <<>> \o a = a
         /\ Len(a \o b) = Len(a) + Len(b)
         /\ a # <<>> => <<Head(a)>> \o Tail(a) = a
  OBVIOUS

\* The first element and the others.
LEMMA HeadTail ==
  ASSUME NEW S, NEW a \in Seq(S), a # <<>>
  PROVE  /\ Tail(a) \in Seq(S) /\ Head(a) \in S /\ <<Head(a)>> \in Seq(S)
         /\ <<Head(a)>> \o Tail(a) = a
         /\ <<Head(a)>> # <<>> /\ Len(<<Head(a)>>) = 1
  <1>1. Tail(a) \in Seq(S) /\ Head(a) \in S /\ <<Head(a)>> \in Seq(S)
    OBVIOUS
  <1>2. <<Head(a)>> \o Tail(a) = a
    BY ConcatFacts
  <1> QED
    BY <1>1, <1>2

\* Prefixes of longer and of shorter sequences.
LEMMA PrefixFacts ==
  ASSUME NEW S, NEW a \in Seq(S), NEW b \in Seq(S), NEW c \in Seq(S)
  PROVE  /\ IsPrefix(a, a \o b)
         /\ IsPrefix(a, b) => IsPrefix(a, b \o c)
         /\ IsPrefix(a \o b, c) => IsPrefix(a, c)
         /\ IsPrefix(a, b) => Len(a) <= Len(b)
  <1>0. <<>> \in Seq(S) /\ a \o b \in Seq(S) /\ b \o c \in Seq(S)
    OBVIOUS
  <1>1. IsPrefix(a, a \o b)
    BY <1>0, PrefixIsBegin
  <1>2. ASSUME IsPrefix(a, b)
        PROVE  IsPrefix(a, b \o c)
    <2>1. PICK d \in Seq(S) : b = a \o d
      BY <1>2, PrefixIsBegin
    <2>2. d \o c \in Seq(S) /\ b \o c = a \o (d \o c)
      BY <2>1, ConcatFacts
    <2> QED
      BY <1>0, <2>2, PrefixIsBegin
  <1>3. ASSUME IsPrefix(a \o b, c)
        PROVE  IsPrefix(a, c)
    <2>1. PICK d \in Seq(S) : c = (a \o b) \o d
      BY ZenonT(30), <1>0, <1>3, PrefixIsBegin
    <2>2. b \o d \in Seq(S) /\ c = a \o (b \o d)
      BY <2>1, ConcatFacts
    <2> QED
      BY <2>2, PrefixIsBegin
  <1>4. IsPrefix(a, b) => Len(a) <= Len(b)
    BY DEF IsPrefix
  <1> QED
    BY <1>1, <1>2, <1>3, <1>4

\* The smaller of two numbers.
LEMMA MinOfTwo ==
  ASSUME NEW m \in Nat, NEW n \in Nat
  PROVE  Min({m, n}) = IF m <= n THEN m ELSE n
  BY DEF Min

\* The larger of two numbers.
LEMMA MaxOfTwo ==
  ASSUME NEW m \in Nat, NEW n \in Nat
  PROVE  Max({m, n}) = IF m <= n THEN n ELSE m
  BY DEF Max

\* The members of a queue after an append and before a removal.
LEMMA RangeFacts ==
  ASSUME NEW S, NEW a \in Seq(S), NEW x \in S
  PROVE  /\ \A f : f \in Range(Append(a, x)) <=> f \in Range(a) \/ f = x
         /\ a # <<>> => \A f : f \in Range(a) <=> f = Head(a) \/ f \in Range(Tail(a))
         /\ Range(<<>>) = {}
  <1>1. \A f : f \in Range(Append(a, x)) <=> f \in Range(a) \/ f = x
    <2>1. PICK b : b = Append(a, x)
      OBVIOUS
    <2>2. /\ DOMAIN b = 1 .. (Len(a) + 1) /\ b[Len(a) + 1] = x
          /\ \A i \in 1 .. Len(a) : b[i] = a[i]
          /\ DOMAIN a = 1 .. Len(a) /\ Len(a) \in Nat
      BY <2>1
    <2>3. \A f : f \in Range(b) <=> f \in Range(a) \/ f = x
      BY <2>2 DEF Range
    <2> QED
      BY <2>1, <2>3
  <1>2. ASSUME a # <<>>
        PROVE  \A f : f \in Range(a) <=> f = Head(a) \/ f \in Range(Tail(a))
    <2>1. PICK b : b = Tail(a)
      OBVIOUS
    <2>2. /\ DOMAIN a = 1 .. Len(a) /\ Len(a) \in Nat /\ Len(a) >= 1
          /\ DOMAIN b = 1 .. (Len(a) - 1)
          /\ \A i \in 1 .. (Len(a) - 1) : b[i] = a[i + 1]
          /\ Head(a) = a[1]
      BY <1>2, <2>1
    <2>3. ASSUME NEW f, f \in Range(a)
          PROVE  f = Head(a) \/ f \in Range(b)
      <3>1. PICK i \in 1 .. Len(a) : f = a[i]
        BY <2>2, <2>3 DEF Range
      <3>2. CASE i = 1
        BY <2>2, <3>1, <3>2
      <3>3. CASE i # 1
        <4>1. i - 1 \in 1 .. (Len(a) - 1) /\ (i - 1) + 1 = i
          BY <2>2, <3>1, <3>3
        <4>2. b[i - 1] = f
          BY <2>2, <3>1, <4>1
        <4> QED
          BY <2>2, <4>1, <4>2 DEF Range
      <3> QED
        BY <3>2, <3>3
    <2>4. ASSUME NEW f, f \in Range(b)
          PROVE  f \in Range(a)
      <3>1. PICK i \in 1 .. (Len(a) - 1) : f = b[i]
        BY <2>2, <2>4 DEF Range
      <3>2. i + 1 \in 1 .. Len(a) /\ a[i + 1] = f
        BY <2>2, <3>1
      <3> QED
        BY <2>2, <3>2 DEF Range
    <2>5. Head(a) \in Range(a)
      <3>1. 1 \in DOMAIN a
        BY <2>2
      <3> QED
        BY <2>2, <3>1 DEF Range
    <2> QED
      BY <2>1, <2>3, <2>4, <2>5
  <1>3. Range(<<>>) = {}
    BY DEF Range
  <1> QED
    BY <1>1, <1>2, <1>3

-----------------------------------------------------------------------------
(* The inductive invariant.                                                *)

Session ==
    [conn : [Sides -> Connections], sock : [Sides -> Sockets],
     paused : [Sides -> BOOLEAN], upReady : BOOLEAN, upConn : BOOLEAN,
     downConn : BOOLEAN, tearing : BOOLEAN, pending : Chunks,
     client : {"connecting", "connected", "gone"}, queue : Seq(Functors),
     flushed : Nat]

Typed ==
    /\ p \in Session
    /\ running \in Seq(Functors)
    /\ ready \subseteq Sides
    /\ lpc \in {"poll", "dispatch", "functors"}
    /\ batch \subseteq Events /\ current \in Events

\* What has been handed to side s: what its peer was sent, then what waits.
Flow(q, s) == q.sock[s].got \o q.conn[s].out

\* Data that came from side s and wait for the upstream connection.
Waiting(q, s) == IF s = "down" THEN q.pending ELSE <<>>

\* The kernel's entry of the channel is what the channel asks for.
InStep(ch) == /\ ch.inTree /\ ch.index = 1
              /\ ch.mask = ch.events /\ "ET" \in ch.events

\* An open connection: EPOLLOUT is asked for exactly while output waits.
Serving(q, s) ==
    /\ InStep(q.conn[s].ch)
    /\ q.conn[s].flow
    /\ IsWriting(q.conn[s].ch) <=> q.conn[s].out # <<>>

\* Nothing has been sent to side s, nor by it.
Untouched(q, s) ==
    /\ q.conn[s].state = "none" /\ q.conn[s].out = <<>>
    /\ q.conn[s].ch = NewChannel
    /\ q.sock[s].in = <<>> /\ q.sock[s].sent = <<>> /\ q.sock[s].got = <<>>
    /\ q.sock[s].peer = "open" /\ ~q.sock[s].wrShut /\ q.sock[s].room = Room

Connecting(q) ==
    /\ q.client = "connecting" /\ ~q.tearing
    /\ q.downConn /\ ~q.upConn /\ ~q.upReady
    /\ q.conn["down"].state = "kConnected" /\ ~q.sock["down"].wrShut
    /\ Serving(q, "down") /\ q.conn["down"].out = <<>>
    /\ Untouched(q, "up")
    /\ ~q.paused["down"] /\ ~q.paused["up"]

\* One of two open connections: a full buffer has paused the other side.
Flowing(q, s) ==
    /\ q.conn[s].state = "kConnected" /\ ~q.sock[s].wrShut
    /\ Serving(q, s)
    /\ q.paused[s] => ~IsReading(q.conn[s].ch)
    /\ Len(q.conn[Other(s)].out) >= HighWater => q.paused[s]

\* Both connections are up.
Opened(q) ==
    /\ q.client = "connected" /\ ~q.tearing
    /\ q.downConn /\ q.upConn /\ q.upReady
    /\ \A s \in Sides : Flowing(q, s)

Bridging(q) == Opened(q) /\ q.pending = <<>>

\* The upstream has closed: what it sent before that has been handed to the
\* downstream side, whose own end waits for the buffer.
HalfClosed(q) ==
    /\ q.client = "connected" /\ ~q.tearing
    /\ q.downConn /\ ~q.upConn /\ ~q.upReady
    /\ q.conn["down"].state = "kDisconnecting"
    /\ Serving(q, "down")
    /\ q.sock["down"].wrShut <=> q.conn["down"].out = <<>>
    /\ q.conn["up"].state \in {"kDisconnecting", "kDisconnected"}
    /\ q.conn["up"].ch.events = {} /\ q.conn["up"].ch.mask = {}
    /\ q.sock["up"].peer # "open" /\ ~q.sock["up"].wrShut
    /\ q.sock["up"].peer = "fin" /\ q.sock["down"].peer # "rst" =>
          q.sock["up"].sent = Flow(q, "down")

Torn(q) ==
    /\ q.client = "gone" /\ q.tearing
    /\ ~q.downConn /\ ~q.upConn /\ ~q.upReady
    /\ q.conn["down"].state \in {"kDisconnecting", "kDisconnected"}
    /\ q.conn["up"].state # "kConnected"
    /\ q.conn["down"].ch.events = {} /\ ~q.sock["down"].wrShut

Staged(q) == Connecting(q) \/ Bridging(q) \/ HalfClosed(q) \/ Torn(q)

\* Backpressure.
Bounded(q) ==
    /\ Len(q.conn["down"].out) <= HighWater
    /\ Len(q.conn["up"].out) <= HighWater \/ Len(q.conn["up"].out) <= q.flushed

\* Whatever is sent to side s from now on is dropped.
Deaf(q, s) ==
    \/ q.conn[s].state = "kDisconnected"
    \/ q.conn[s].out = <<>> /\ WriteFails(q, s)

\* Nothing that side s has sent is lost, unless it has reset or the other side
\* takes no more.
Ordered(q, s) ==
    LET o == Other(s)
    IN  /\ IsPrefix(Flow(q, o), q.sock[s].sent)
        /\ \/ q.sock[s].sent = Flow(q, o) \o Waiting(q, s) \o q.sock[s].in
           \/ Deaf(q, o) \/ q.tearing
           \/ /\ q.sock[s].peer = "rst" /\ q.sock[s].in = <<>>
              /\ IsPrefix(Flow(q, o) \o Waiting(q, s), q.sock[s].sent)

Sound(q) == Staged(q) /\ Bounded(q) /\ \A s \in Sides : Ordered(q, s)

\* Functors.
Complete(s) == [op |-> "complete", side |-> s]
Destroy(s) == [op |-> "destroy", side |-> s]
Queued(q, run, f) == f \in Range(q.queue) \/ f \in Range(run)

\* A connection is destroyed only after it was closed, and paused reading is
\* resumed by output that waits or by a functor that is queued.
FunctorsIn(q, run) ==
    /\ Queued(q, run, Destroy("down")) => q.tearing
    /\ Queued(q, run, Destroy("up")) => ~q.upConn /\ q.client # "connecting"
    /\ \A s \in Sides :
         q.upConn /\ q.paused[s] =>
            q.conn[Other(s)].out # <<>> \/ Queued(q, run, Complete(Other(s)))

FunctorsInTime ==
    /\ lpc # "functors" => running = <<>>
    /\ FunctorsIn(p, running)

\* An event that will make the loop read side s.
ReadDue(b, c, s) ==
    \/ c.side = s /\ "IN" \in c.revents
    \/ \E e \in b : e.side = s /\ "IN" \in e.revents

\* A side has one event at a time; the upstream hangs up only after a reset and
\* is not read once it has closed; a pause finds no read of its side under way,
\* except on the downstream side while the output is shorter than the flush.
EventsIn(q, b, c) ==
    /\ \A e, f \in b : e.side = f.side => e = f
    /\ c.revents # {} => \A e \in b : e.side # c.side
    /\ \A e \in b : "HUP" \in e.revents /\ e.side = "up" => q.sock["up"].peer = "rst"
    /\ q.client = "connected" /\ ~q.upConn => ~ReadDue(b, c, "up")
    /\ q.upConn /\ q.paused["up"] => ~ReadDue(b, c, "up")
    /\ q.upConn /\ q.paused["down"] /\ ReadDue(b, c, "down") =>
          Len(q.conn["up"].out) < q.flushed

EventsInTime ==
    /\ lpc # "dispatch" => batch = {} /\ current.revents = {}
    /\ EventsIn(p, batch, current)

SessionInv == Typed /\ Sound(p) /\ FunctorsInTime /\ EventsInTime

-----------------------------------------------------------------------------
(* What the handlers do to the session.                                    *)

\* What the requests of a channel do to it, and that the kernel follows.
LEMMA ChannelFacts ==
  ASSUME NEW ch \in ChannelType
  PROVE  /\ EnableReading(ch) \in ChannelType /\ DisableReading(ch) \in ChannelType
         /\ EnableWriting(ch) \in ChannelType /\ DisableWriting(ch) \in ChannelType
         /\ DisableAll(ch) \in ChannelType /\ RemoveChannel(ch) \in ChannelType
         /\ RemoveChannel(ch).events = ch.events
         /\ RemoveChannel(ch).mask = ch.mask
         /\ InStep(ch) =>
              /\ InStep(EnableReading(ch)) /\ InStep(DisableReading(ch))
              /\ InStep(EnableWriting(ch)) /\ InStep(DisableWriting(ch))
              /\ IsReading(EnableReading(ch)) /\ ~IsReading(DisableReading(ch))
              /\ IsWriting(EnableWriting(ch)) /\ ~IsWriting(DisableWriting(ch))
              /\ IsWriting(EnableReading(ch)) <=> IsWriting(ch)
              /\ IsWriting(DisableReading(ch)) <=> IsWriting(ch)
              /\ IsReading(EnableWriting(ch)) <=> IsReading(ch)
              /\ IsReading(DisableWriting(ch)) <=> IsReading(ch)
              /\ DisableAll(ch).events = {} /\ DisableAll(ch).mask = {}
  <1> USE DEF ChannelType, EventBits, UpdateChannel, EpollAdd, EpollMod
  <1>1. EnableReading(ch) \in ChannelType /\ DisableReading(ch) \in ChannelType
    BY DEF EnableReading, DisableReading
  <1>2. EnableWriting(ch) \in ChannelType /\ DisableWriting(ch) \in ChannelType
    BY DEF EnableWriting, DisableWriting
  <1>3. DisableAll(ch) \in ChannelType /\ RemoveChannel(ch) \in ChannelType
    BY DEF DisableAll, RemoveChannel
  <1>4. RemoveChannel(ch).events = ch.events /\ RemoveChannel(ch).mask = ch.mask
    BY DEF RemoveChannel
  <1>5. ASSUME InStep(ch)
        PROVE  /\ InStep(EnableReading(ch)) /\ InStep(DisableReading(ch))
               /\ IsReading(EnableReading(ch)) /\ ~IsReading(DisableReading(ch))
               /\ IsWriting(EnableReading(ch)) <=> IsWriting(ch)
               /\ IsWriting(DisableReading(ch)) <=> IsWriting(ch)
    BY <1>5 DEF InStep, EnableReading, DisableReading, IsReading, IsWriting
  <1>6. ASSUME InStep(ch)
        PROVE  /\ InStep(EnableWriting(ch)) /\ InStep(DisableWriting(ch))
               /\ IsWriting(EnableWriting(ch)) /\ ~IsWriting(DisableWriting(ch))
               /\ IsReading(EnableWriting(ch)) <=> IsReading(ch)
               /\ IsReading(DisableWriting(ch)) <=> IsReading(ch)
    BY <1>6 DEF InStep, EnableWriting, DisableWriting, IsReading, IsWriting
  <1>7. ASSUME InStep(ch)
        PROVE  DisableAll(ch).events = {} /\ DisableAll(ch).mask = {}
    BY <1>7 DEF InStep, DisableAll
  <1> QED
    BY <1>1, <1>2, <1>3, <1>4, <1>5, <1>6, <1>7

\* The members that only connects, disconnects and teardown assign.
SameRest(q, r) ==
    /\ r.upReady = q.upReady /\ r.upConn = q.upConn /\ r.downConn = q.downConn
    /\ r.tearing = q.tearing /\ r.pending = q.pending /\ r.client = q.client
    /\ r.flushed = q.flushed

\* The other side is as it was.
SameSide(q, r, s) == r.conn[s] = q.conn[s] /\ r.sock[s] = q.sock[s]

\* Only the pausing of side s differs.
SameButReading(q, r, s) ==
    /\ SameRest(q, r) /\ SameSide(q, r, Other(s))
    /\ r.sock[s] = q.sock[s] /\ r.queue = q.queue
    /\ r.conn[s].state = q.conn[s].state /\ r.conn[s].out = q.conn[s].out
    /\ r.conn[s].flow = q.conn[s].flow
    /\ r.paused[Other(s)] = q.paused[Other(s)]

\* The fields of a session have their types.
LEMMA SessionFields ==
  ASSUME NEW q \in Session, NEW s \in Sides
  PROVE  /\ q.conn[s].state
              \in {"none", "kConnected", "kDisconnecting", "kDisconnected"}
         /\ q.conn[s].ch \in ChannelType /\ q.conn[s].out \in Chunks
         /\ q.conn[s].flow \in BOOLEAN
         /\ q.sock[s].in \in Chunks /\ q.sock[s].room \in 0 .. Room
         /\ q.sock[s].peer \in {"open", "fin", "rst"}
         /\ q.sock[s].wrShut \in BOOLEAN
         /\ q.sock[s].sent \in Chunks /\ q.sock[s].got \in Chunks
         /\ q.paused[s] \in BOOLEAN
         /\ q.pending \in Chunks /\ q.queue \in Seq(Functors)
         /\ Other(s) \in Sides /\ Other(s) # s /\ Other(Other(s)) = s
  BY DEF Session, Connections, Sockets, Sides, Other

\* The length of an output buffer is a number.
LEMMA LengthIsNat ==
  ASSUME NEW q \in Session, NEW s \in Sides
  PROVE  Len(q.conn[s].out) \in Nat
  <1>1. PICK out \in Seq(1 .. MaxSent) : out = q.conn[s].out
    BY SessionFields DEF Chunks
  <1> QED
    BY <1>1

\* Pause and Resume touch the flag and the channel of one side.
LEMMA PauseFacts ==
  ASSUME NEW q \in Session, NEW s \in Sides
  PROVE  /\ Pause(q, s) \in Session
         /\ SameButReading(q, Pause(q, s), s)
         /\ \/ /\ Pause(q, s) = q
               /\ q.tearing \/ ~Holds(q, s) \/ q.paused[s]
            \/ /\ ~q.tearing /\ Holds(q, s) /\ ~q.paused[s]
               /\ Pause(q, s).paused[s]
               /\ Pause(q, s).conn[s].ch = DisableReading(q.conn[s].ch)
  <1>0. Other(s) \in Sides /\ Other(s) # s
    BY SessionFields
  <1>1. CASE ~q.tearing /\ Holds(q, s) /\ ~q.paused[s]
    <2>1. PICK ch \in ChannelType : ch = DisableReading(q.conn[s].ch)
      BY SessionFields, ChannelFacts
    <2>2. Pause(q, s) = [q EXCEPT !.paused[s] = TRUE, !.conn[s].ch = ch]
      BY <1>1, <2>1 DEF Pause
    <2>3. Pause(q, s) \in Session
      <3>1. [q.conn[s] EXCEPT !.ch = ch] \in Connections
        BY <2>1 DEF Session, Connections
      <3>2. /\ [q.conn EXCEPT ![s] = [q.conn[s] EXCEPT !.ch = ch]]
                 \in [Sides -> Connections]
            /\ [q.paused EXCEPT ![s] = TRUE] \in [Sides -> BOOLEAN]
        BY <3>1 DEF Session
      <3> QED
        BY <2>2, <3>2 DEF Session
    <2>4. /\ SameButReading(q, Pause(q, s), s)
          /\ Pause(q, s).paused[s] /\ Pause(q, s).conn[s].ch = ch
      BY <1>0, <2>2 DEF Session, Connections, SameButReading, SameRest, SameSide
    <2> QED
      BY <1>1, <2>1, <2>3, <2>4
  <1>2. CASE ~(~q.tearing /\ Holds(q, s) /\ ~q.paused[s])
    BY <1>2 DEF Pause, SameButReading, SameRest, SameSide
  <1> QED
    BY <1>1, <1>2

\* So does Resume.
LEMMA ResumeFacts ==
  ASSUME NEW q \in Session, NEW s \in Sides
  PROVE  /\ Resume(q, s) \in Session
         /\ SameButReading(q, Resume(q, s), s)
         /\ \/ /\ Resume(q, s) = q
               /\ q.tearing \/ ~Holds(q, s) \/ ~q.paused[s]
            \/ /\ ~q.tearing /\ Holds(q, s) /\ q.paused[s]
               /\ ~Resume(q, s).paused[s]
               /\ Resume(q, s).conn[s].ch = EnableReading(q.conn[s].ch)
  <1>0. Other(s) \in Sides /\ Other(s) # s
    BY SessionFields
  <1>1. CASE ~q.tearing /\ Holds(q, s) /\ q.paused[s]
    <2>1. PICK ch \in ChannelType : ch = EnableReading(q.conn[s].ch)
      BY SessionFields, ChannelFacts
    <2>2. Resume(q, s) = [q EXCEPT !.paused[s] = FALSE, !.conn[s].ch = ch]
      BY <1>1, <2>1 DEF Resume
    <2>3. Resume(q, s) \in Session
      <3>1. [q.conn[s] EXCEPT !.ch = ch] \in Connections
        BY <2>1 DEF Session, Connections
      <3>2. /\ [q.conn EXCEPT ![s] = [q.conn[s] EXCEPT !.ch = ch]]
                 \in [Sides -> Connections]
            /\ [q.paused EXCEPT ![s] = FALSE] \in [Sides -> BOOLEAN]
        BY <3>1 DEF Session
      <3> QED
        BY <2>2, <3>2 DEF Session
    <2>4. /\ SameButReading(q, Resume(q, s), s)
          /\ ~Resume(q, s).paused[s] /\ Resume(q, s).conn[s].ch = ch
      BY <1>0, <2>2 DEF Session, Connections, SameButReading, SameRest, SameSide
    <2> QED
      BY <1>1, <2>1, <2>3, <2>4
  <1>2. CASE ~(~q.tearing /\ Holds(q, s) /\ q.paused[s])
    BY <1>2 DEF Resume, SameButReading, SameRest, SameSide
  <1> QED
    BY <1>1, <1>2

\* Only side s has moved, and what its peer has sent is as it was.
SameElsewhere(q, r, s) ==
    /\ SameRest(q, r) /\ SameSide(q, r, Other(s)) /\ r.paused = q.paused
    /\ r.sock[s].in = q.sock[s].in /\ r.sock[s].sent = q.sock[s].sent
    /\ r.sock[s].peer = q.sock[s].peer
    /\ r.conn[s].state = q.conn[s].state /\ r.conn[s].flow = q.conn[s].flow

\* A write takes room and reaches the peer.
LEMMA WriteFacts ==
  ASSUME NEW q \in Session, NEW s \in Sides, NEW data \in Chunks,
         NEW n \in 0 .. Len(data), n <= q.sock[s].room
  PROVE  /\ Write(q, s, data, n) \in Session
         /\ SameElsewhere(q, Write(q, s, data, n), s)
         /\ Write(q, s, data, n).conn[s] = q.conn[s]
         /\ Write(q, s, data, n).queue = q.queue
         /\ Write(q, s, data, n).sock[s].wrShut = q.sock[s].wrShut
         /\ Write(q, s, data, n).sock[s].got
              = q.sock[s].got \o SubSeq(data, 1, n)
  <1>0. Other(s) \in Sides /\ Other(s) # s
    BY SessionFields
  <1>1. PICK got \in Chunks : got = q.sock[s].got \o SubSeq(data, 1, n)
    BY SessionFields, SubSeqFacts, ConcatFacts DEF Chunks
  <1>2. PICK room \in 0 .. Room : room = q.sock[s].room - n
    <2>1. q.sock[s].room \in 0 .. Room /\ Room \in Nat /\ Len(data) \in Nat
      BY SessionFields, ProxyAssumption DEF Chunks
    <2> QED
      BY <2>1
  <1>3. PICK r : r = [q EXCEPT !.sock[s].room = room, !.sock[s].got = got]
    OBVIOUS
  <1>4. r = Write(q, s, data, n)
    BY <1>1, <1>2, <1>3 DEF Write, Session, Sockets
  <1>5. r \in Session
    <2>1. [q.sock[s] EXCEPT !.room = room, !.got = got] \in Sockets
      <3>1. PICK k \in Sockets : k = q.sock[s]
        BY DEF Session
      <3>2. [k EXCEPT !.room = room, !.got = got] \in Sockets
        BY DEF Sockets
      <3> QED
        BY <3>1, <3>2
    <2>2. [q.sock EXCEPT ![s] = [q.sock[s] EXCEPT !.room = room, !.got = got]]
            \in [Sides -> Sockets]
      BY <2>1 DEF Session
    <2> QED
      BY <1>3, <2>2 DEF Session
  <1>6. SameElsewhere(q, r, s) /\ r.conn[s] = q.conn[s] /\ r.queue = q.queue
    BY <1>0, <1>3 DEF Session, Sockets, SameElsewhere, SameRest, SameSide
  <1>7. r.sock[s].wrShut = q.sock[s].wrShut /\ r.sock[s].got = got
    BY <1>3 DEF Session, Sockets
  <1> QED
    BY <1>1, <1>4, <1>5, <1>6, <1>7

\* An output buffer and the channel's interest may change.
Put(q, s, out, ch) == [q EXCEPT !.conn[s].out = out, !.conn[s].ch = ch]

\* Nothing else does.
LEMMA OutFacts ==
  ASSUME NEW q \in Session, NEW s \in Sides, NEW out \in Chunks,
         NEW ch \in ChannelType, NEW r, r = Put(q, s, out, ch)
  PROVE  /\ r \in Session /\ SameElsewhere(q, r, s)
         /\ r.sock[s] = q.sock[s] /\ r.queue = q.queue
         /\ r.conn[s].out = out /\ r.conn[s].ch = ch
  <1>0. Other(s) \in Sides /\ Other(s) # s
    BY SessionFields
  <1>1. r \in Session
    <2>1. [q.conn[s] EXCEPT !.out = out, !.ch = ch] \in Connections
      <3>1. PICK k \in Connections : k = q.conn[s]
        BY DEF Session
      <3>2. [k EXCEPT !.out = out, !.ch = ch] \in Connections
        BY DEF Connections
      <3> QED
        BY <3>1, <3>2
    <2>2. [q.conn EXCEPT ![s] = [q.conn[s] EXCEPT !.out = out, !.ch = ch]]
            \in [Sides -> Connections]
      BY <2>1 DEF Session
    <2> QED
      BY <2>2 DEF Session, Put
  <1>2. SameElsewhere(q, r, s) /\ r.sock[s] = q.sock[s] /\ r.queue = q.queue
    BY <1>0 DEF Put, Session, Connections, SameElsewhere, SameRest, SameSide
  <1>3. r.conn[s].out = out /\ r.conn[s].ch = ch
    BY DEF Put, Session, Connections
  <1> QED
    BY <1>1, <1>2, <1>3

\* The write-complete callback is queued, if there is one.
LEMMA QueueFacts ==
  ASSUME NEW q \in Session, NEW s \in Sides, q.conn[s].flow
  PROVE  /\ QueueWriteComplete(q, s) \in Session
         /\ SameElsewhere(q, QueueWriteComplete(q, s), s)
         /\ SameSide(q, QueueWriteComplete(q, s), s)
         /\ QueueWriteComplete(q, s).queue = Append(q.queue, Complete(s))
  <1>1. PICK f \in Seq(Functors) : f = Append(q.queue, Complete(s))
    <2>1. Complete(s) \in Functors
      BY DEF Complete, Functors
    <2>2. PICK a \in Seq(Functors) : a = q.queue
      BY SessionFields
    <2>3. Append(a, Complete(s)) \in Seq(Functors)
      BY <2>1
    <2> QED
      BY <2>2, <2>3
  <1>2. QueueWriteComplete(q, s) = [q EXCEPT !.queue = f]
    BY <1>1 DEF QueueWriteComplete, Complete
  <1> QED
    BY <1>1, <1>2 DEF Session, SameElsewhere, SameRest, SameSide

\* How much is written at once.
LEMMA DirectlyFacts ==
  ASSUME NEW q \in Session, NEW s \in Sides, NEW data \in Chunks
  PROVE  /\ Directly(q, s, data) \in 0 .. Len(data)
         /\ Directly(q, s, data) <= q.sock[s].room
         /\ q.conn[s].out # <<>> => Directly(q, s, data) = 0
         /\ q.conn[s].out = <<>> /\ q.sock[s].room > 0 /\ data # <<>> =>
               Directly(q, s, data) > 0
  <1>1. q.sock[s].room \in 0 .. Room /\ Room \in Nat /\ data \in Seq(1 .. MaxSent)
    BY SessionFields, ProxyAssumption DEF Chunks
  <1>2. Len(data) \in Nat /\ q.sock[s].room \in Nat
    BY <1>1
  <1>3. data # <<>> => Len(data) > 0
    BY <1>1
  <1>4. Min({q.sock[s].room, Len(data)}) = IF q.sock[s].room <= Len(data)
                                            THEN q.sock[s].room ELSE Len(data)
    BY <1>2, MinOfTwo
  <1> QED
    BY <1>2, <1>3, <1>4 DEF Directly

\* n chunks of data have been written and the rest is in the buffer.
Taken(q, b, s, data, n) ==
    /\ b \in Session /\ SameElsewhere(q, b, s)
    /\ b.sock[s].wrShut = q.sock[s].wrShut
    /\ b.sock[s].got = q.sock[s].got \o SubSeq(data, 1, n)
    /\ \/ /\ n = Len(data)
          /\ b.conn[s] = q.conn[s] /\ b.queue = Append(q.queue, Complete(s))
       \/ /\ n < Len(data) /\ b.queue = q.queue
          /\ b.conn[s].out = q.conn[s].out \o SubSeq(data, n + 1, Len(data))
          /\ b.conn[s].ch = IF IsWriting(q.conn[s].ch) THEN q.conn[s].ch
                            ELSE EnableWriting(q.conn[s].ch)

\* SendInLoop drops everything or takes everything, and may then pause the
\* other side.
LEMMA SendFacts ==
  ASSUME NEW q \in Session, NEW s \in Sides, NEW data \in Chunks, q.conn[s].flow,
         ~Deaf(q, s)
  PROVE  \E b, n :
           /\ n = Directly(q, s, data) /\ Taken(q, b, s, data, n)
           /\ SendInLoop(q, s, data) =
                IF n < Len(data) /\ Crosses(Len(q.conn[s].out), Len(b.conn[s].out))
                THEN Pause(b, Other(s)) ELSE b
  <1>0. /\ data \in Seq(1 .. MaxSent) /\ q.conn[s].out \in Seq(1 .. MaxSent)
        /\ q.conn[s].ch \in ChannelType
    BY SessionFields DEF Chunks
  <1>1. PICK n \in 0 .. Len(data) : n = Directly(q, s, data)
    BY DirectlyFacts
  <1>2. PICK w : w = Write(q, s, data, n)
    OBVIOUS
  <1>3. /\ w \in Session /\ SameElsewhere(q, w, s)
        /\ w.conn[s] = q.conn[s] /\ w.queue = q.queue
        /\ w.sock[s].wrShut = q.sock[s].wrShut
        /\ w.sock[s].got = q.sock[s].got \o SubSeq(data, 1, n)
    <2>1. n <= q.sock[s].room
      BY <1>1, DirectlyFacts
    <2> QED
      BY ZenonT(30), <1>2, <2>1, WriteFacts
  <1>4. PICK rest \in Seq(1 .. MaxSent) :
          rest = SubSeq(data, n + 1, Len(data)) /\ Len(rest) = Len(data) - n
    BY <1>0, SubSeqFacts
  <1>5. PICK ch \in ChannelType :
          ch = IF IsWriting(q.conn[s].ch) THEN q.conn[s].ch
               ELSE EnableWriting(q.conn[s].ch)
    BY <1>0, ChannelFacts
  <1>6. PICK out \in Chunks : /\ out = q.conn[s].out \o rest
                              /\ Len(out) = Len(q.conn[s].out) + Len(rest)
    BY <1>0, <1>4, ConcatFacts DEF Chunks
  <1>7. PICK b : b = Put(w, s, out, ch)
    OBVIOUS
  <1>8. /\ b \in Session /\ SameElsewhere(w, b, s)
        /\ b.sock[s] = w.sock[s] /\ b.queue = w.queue
        /\ b.conn[s].out = out /\ b.conn[s].ch = ch
    BY <1>3, <1>7, OutFacts
  <1>9. b = [w EXCEPT !.conn[s].out = @ \o rest,
                      !.conn[s].ch = IF IsWriting(@) THEN @ ELSE EnableWriting(@)]
    BY <1>3, <1>5, <1>6, <1>7 DEF Put, Session, Connections
  <1>10. SendInLoop(q, s, data) =
          IF rest = <<>> THEN QueueWriteComplete(w, s)
          ELSE IF Crosses(Len(q.conn[s].out), Len(q.conn[s].out) + Len(rest))
               THEN Pause(b, Other(s)) ELSE b
    BY <1>1, <1>2, <1>4, <1>9 DEF SendInLoop, Deaf
  <1>11. CASE rest = <<>>
    <2>1. n = Len(data)
      <3>1. Len(<<>>) = 0 /\ Len(data) \in Nat
        BY <1>0
      <3>2. Len(data) - n = 0
        BY <1>4, <1>11, <3>1
      <3> QED
        BY <1>1, <3>1, <3>2
    <2>2. w.conn[s].flow
      BY <1>3
    <2>3. PICK c : c = QueueWriteComplete(w, s)
      OBVIOUS
    <2>4. /\ c \in Session /\ SameElsewhere(w, c, s) /\ SameSide(w, c, s)
          /\ c.queue = Append(w.queue, Complete(s))
      BY <1>3, <2>2, <2>3, QueueFacts
    <2>5. Taken(q, c, s, data, n)
      BY <1>3, <2>1, <2>4 DEF Taken, SameElsewhere, SameSide, SameRest
    <2> QED
      BY <1>0, <1>1, <1>10, <1>11, <2>1, <2>3, <2>5
  <1>12. CASE rest # <<>>
    <2>1. n < Len(data)
      BY <1>0, <1>1, <1>4, <1>12
    <2>2. Taken(q, b, s, data, n)
      <3>1. SameElsewhere(q, b, s)
        BY <1>3, <1>8 DEF SameElsewhere, SameSide, SameRest
      <3>2. b.conn[s].out = q.conn[s].out \o SubSeq(data, n + 1, Len(data))
        BY <1>4, <1>6, <1>8
      <3> QED
        BY <1>3, <1>5, <1>8, <2>1, <3>1, <3>2 DEF Taken
    <2>3. Len(b.conn[s].out) = Len(q.conn[s].out) + Len(rest)
      BY <1>6, <1>8
    <2> QED
      BY <1>1, <1>10, <1>12, <2>1, <2>2, <2>3
  <1> QED
    BY <1>11, <1>12

\* Nothing of what is taken is lost, and it comes behind what was there.
LEMMA TakenFlow ==
  ASSUME NEW q \in Session, NEW s \in Sides, NEW data \in Chunks, data # <<>>,
         NEW b, NEW n, n = Directly(q, s, data), Taken(q, b, s, data, n)
  PROVE  /\ Flow(b, s) = Flow(q, s) \o data
         /\ q.conn[s].out # <<>> => b.conn[s].out # <<>>
         /\ n = Len(data) => q.conn[s].out = <<>> /\ b.conn[s].out = <<>>
         /\ n < Len(data) => b.conn[s].out # <<>>
         /\ Len(b.conn[s].out) <= Len(q.conn[s].out) + Len(data)
         /\ q.conn[s].out = <<>> /\ q.sock[s].room > 0 =>
              Len(b.conn[s].out) < Len(data)
  <1>0. n \in 0 .. Len(data)
    BY DirectlyFacts
  <1>1. PICK d \in Seq(1 .. MaxSent) : d = data
    BY DEF Chunks
  <1>2. PICK got \in Seq(1 .. MaxSent) : got = q.sock[s].got
    BY SessionFields DEF Chunks
  <1>3. PICK out \in Seq(1 .. MaxSent) : out = q.conn[s].out
    BY SessionFields DEF Chunks
  <1>4. PICK d1 \in Seq(1 .. MaxSent) : d1 = SubSeq(d, 1, n) /\ Len(d1) = n
    BY <1>0, <1>1, SubSeqFacts
  <1>5. PICK d2 \in Seq(1 .. MaxSent) :
          d2 = SubSeq(d, n + 1, Len(d)) /\ Len(d2) = Len(d) - n
    <2>1. n \in 0 .. Len(d)
      BY <1>0, <1>1
    <2>2. /\ SubSeq(d, n + 1, Len(d)) \in Seq(1 .. MaxSent)
          /\ Len(SubSeq(d, n + 1, Len(d))) = Len(d) - n
      BY <2>1, SubSeqFacts
    <2> QED
      BY <2>2
  <1>6. d1 \o d2 = d
    BY <1>0, <1>1, <1>4, <1>5, SubSeqFacts
  <1>7. b.sock[s].got = got \o d1
    BY <1>1, <1>2, <1>4 DEF Taken
  <1>8. Len(d) \in Nat /\ Len(d) > 0 /\ Len(out) \in Nat
        /\ (out # <<>> => Len(out) > 0) /\ Len(<<>>) = 0
    BY <1>1
  <1>9. CASE n = Len(data)
    <2>1. out = <<>> /\ b.conn[s].out = <<>>
      <3>1. out # <<>> => n = 0
        BY <1>3, DirectlyFacts
      <3>2. out = <<>>
        BY <1>1, <1>8, <1>9, <3>1
      <3>3. ~(n < Len(data))
        BY <1>1, <1>8, <1>9
      <3>4. b.conn[s] = q.conn[s]
        BY <3>3 DEF Taken
      <3> QED
        BY <1>3, <3>2, <3>4
    <2>2. d1 = d
      BY <1>1, <1>4, <1>9
    <2>3. (got \o d) \o <<>> = (got \o <<>>) \o d
      BY ConcatFacts
    <2>4. Flow(b, s) = (got \o d) \o <<>>
      BY <1>7, <2>1, <2>2 DEF Flow
    <2>5. Flow(q, s) = got \o <<>>
      BY <1>2, <1>3, <2>1 DEF Flow
    <2>6. Flow(b, s) = Flow(q, s) \o data
      BY <1>1, <2>3, <2>4, <2>5
    <2> QED
      BY <1>1, <1>3, <1>8, <1>9, <2>1, <2>6
  <1>10. CASE n < Len(data)
    <2>1. b.conn[s].out = out \o d2
      <3>1. n # Len(data)
        BY <1>1, <1>8, <1>10
      <3>2. b.conn[s].out = q.conn[s].out \o SubSeq(data, n + 1, Len(data))
        BY <3>1 DEF Taken
      <3> QED
        BY <1>1, <1>3, <1>5, <3>2
    <2>2. Len(d2) > 0 /\ Len(d2) <= Len(d) /\ Len(d2) \in Nat
      BY SMTT(30), <1>0, <1>1, <1>5, <1>8, <1>10
    <2>3. Len(out \o d2) = Len(out) + Len(d2) /\ out \o d2 \in Seq(1 .. MaxSent)
      BY ConcatFacts
    <2>4. out \o d2 # <<>>
      BY <1>8, <2>2, <2>3
    <2>5. CASE out # <<>>
      <3>1. n = 0
        BY <1>3, <2>5, DirectlyFacts
      <3>2. d1 = <<>>
        BY <1>4, <3>1
      <3>3. d2 = d
        BY <1>6, <3>2, ConcatFacts
      <3>4. (got \o <<>>) \o (out \o d) = (got \o out) \o d
        BY SMTT(30), ConcatFacts
      <3>5. Flow(b, s) = Flow(q, s) \o data
        BY <1>1, <1>2, <1>3, <1>7, <2>1, <3>2, <3>3, <3>4 DEF Flow
      <3> QED
        BY <1>0, <1>1, <1>3, <1>8, <1>10, <2>1, <2>2, <2>3, <2>4, <2>5, <3>5
    <2>6. CASE out = <<>>
      <3>1. <<>> \o d2 = d2 /\ got \o <<>> = got /\ (got \o d1) \o d2 = got \o (d1 \o d2)
        BY ConcatFacts
      <3>2. Flow(b, s) = Flow(q, s) \o data
        BY <1>1, <1>2, <1>3, <1>6, <1>7, <2>1, <2>6, <3>1 DEF Flow
      <3>3. q.sock[s].room > 0 => n > 0
        BY <1>3, <2>6, DirectlyFacts
      <3>4. q.sock[s].room > 0 => Len(d2) < Len(d)
        BY <1>0, <1>1, <1>5, <1>8, <3>3
      <3> QED
        BY <1>0, <1>1, <1>3, <1>8, <1>10, <2>1, <2>2, <2>3, <2>4, <2>6, <3>2, <3>4
    <2> QED
      BY <2>5, <2>6
  <1> QED
    BY <1>0, <1>1, <1>8, <1>9, <1>10

\* What a send between two open connections brings about.
Sent(q, r, s, data) ==
    /\ r \in Session /\ Opened(r) /\ SameRest(q, r)
    /\ r.sock[Other(s)] = q.sock[Other(s)]
    /\ r.conn[Other(s)].out = q.conn[Other(s)].out
    /\ r.sock[s].in = q.sock[s].in /\ r.sock[s].sent = q.sock[s].sent
    /\ r.sock[s].peer = q.sock[s].peer
    /\ r.paused[s] = q.paused[s]
    /\ q.paused[Other(s)] => r.paused[Other(s)]
    /\ r.paused[Other(s)] => q.paused[Other(s)] \/ r.conn[s].out # <<>>
    /\ q.conn[s].out # <<>> => r.conn[s].out # <<>>
    /\ r.queue = q.queue \/ r.queue = Append(q.queue, Complete(s))
    /\ Len(r.conn[s].out) <= Len(q.conn[s].out) + Len(data)
    /\ q.conn[s].out = <<>> /\ q.sock[s].room > 0 =>
         Len(r.conn[s].out) < Len(data)
    /\ \/ Deaf(q, s) /\ r = q
       \/ ~Deaf(q, s) /\ Flow(r, s) = Flow(q, s) \o data

\* A send keeps both connections in order, and pauses the reading that would
\* fill the buffer further.
LEMMA SendOpened ==
  ASSUME NEW q \in Session, NEW s \in Sides, NEW data \in Chunks, data # <<>>,
         Opened(q), Len(data) > 0 /\ Len(data) \in Nat
  PROVE  Sent(q, SendInLoop(q, s, data), s, data)
  <1>0. PICK o \in Sides : o = Other(s) /\ o # s /\ s = Other(o)
    BY SessionFields
  <1>1. Flowing(q, s) /\ Flowing(q, o)
    BY DEF Opened
  <1>2. PICK r : r = SendInLoop(q, s, data)
    OBVIOUS
  <1>3. /\ q.conn[s].out \in Seq(1 .. MaxSent) /\ Len(q.conn[s].out) \in Nat
        /\ Len(<<>>) = 0
    BY SessionFields DEF Chunks
  <1>4. CASE Deaf(q, s)
    <2>1. SendInLoop(q, s, data) = q
      BY <1>4 DEF SendInLoop, Deaf
    <2> QED
      BY <1>3, <1>4, <2>1 DEF Sent, SameRest
  <1>5. CASE ~Deaf(q, s)
    <2>1. q.conn[s].flow
      BY <1>1 DEF Flowing, Serving
    <2>2. PICK b, n :
            /\ n = Directly(q, s, data) /\ Taken(q, b, s, data, n)
            /\ r = IF n < Len(data) /\ Crosses(Len(q.conn[s].out), Len(b.conn[s].out))
                   THEN Pause(b, o) ELSE b
      BY <1>0, <1>2, <1>5, <2>1, SendFacts
    <2>3. /\ Flow(b, s) = Flow(q, s) \o data
          /\ q.conn[s].out # <<>> => b.conn[s].out # <<>>
          /\ n = Len(data) => q.conn[s].out = <<>> /\ b.conn[s].out = <<>>
          /\ n < Len(data) => b.conn[s].out # <<>>
          /\ Len(b.conn[s].out) <= Len(q.conn[s].out) + Len(data)
          /\ q.conn[s].out = <<>> /\ q.sock[s].room > 0 =>
               Len(b.conn[s].out) < Len(data)
      BY <2>2, TakenFlow
    <2>4. /\ b \in Session /\ SameRest(q, b) /\ SameSide(q, b, o)
          /\ b.paused = q.paused
          /\ b.sock[s].in = q.sock[s].in /\ b.sock[s].sent = q.sock[s].sent
          /\ b.sock[s].peer = q.sock[s].peer /\ b.sock[s].wrShut = q.sock[s].wrShut
          /\ b.conn[s].state = q.conn[s].state /\ b.conn[s].flow = q.conn[s].flow
      BY <1>0, <2>2 DEF Taken, SameElsewhere
    <2>5. b.queue = q.queue \/ b.queue = Append(q.queue, Complete(s))
      BY <2>2 DEF Taken
    <2>6. n = Len(data) \/ n < Len(data)
      BY <2>2 DEF Taken
    <2>7. /\ InStep(b.conn[s].ch)
          /\ IsWriting(b.conn[s].ch) <=> b.conn[s].out # <<>>
          /\ IsReading(b.conn[s].ch) <=> IsReading(q.conn[s].ch)
      <3>1. /\ InStep(q.conn[s].ch) /\ q.conn[s].ch \in ChannelType
            /\ IsWriting(q.conn[s].ch) <=> q.conn[s].out # <<>>
        BY <1>1, SessionFields DEF Flowing, Serving
      <3>2. \/ b.conn[s] = q.conn[s]
            \/ /\ n < Len(data)
               /\ b.conn[s].ch = IF IsWriting(q.conn[s].ch) THEN q.conn[s].ch
                                 ELSE EnableWriting(q.conn[s].ch)
        BY <2>2 DEF Taken
      <3>3. b.conn[s].out # <<>> /\ n < Len(data) => 
              /\ InStep(b.conn[s].ch) /\ IsWriting(b.conn[s].ch)
              /\ IsReading(b.conn[s].ch) <=> IsReading(q.conn[s].ch)
        BY <3>1, <3>2, ChannelFacts
      <3> QED
        BY <2>3, <3>1, <3>2, <3>3
    <2>8. /\ r \in Session /\ SameRest(q, r) /\ r.conn[s] = b.conn[s]
          /\ r.sock[s] = b.sock[s] /\ r.sock[o] = q.sock[o]
          /\ r.conn[o].out = q.conn[o].out /\ r.conn[o].state = q.conn[o].state
          /\ r.conn[o].flow = q.conn[o].flow
          /\ r.queue = b.queue /\ r.paused[s] = q.paused[s]
      <3>1. CASE r = b
        BY <2>4, <3>1 DEF SameSide
      <3>2. CASE r = Pause(b, o)
        <4>1. r \in Session /\ SameButReading(b, r, o)
          BY <2>4, <3>2, PauseFacts
        <4> QED
          BY <1>0, <2>4, <4>1 DEF SameButReading, SameRest, SameSide
      <3> QED
        BY <2>2, <3>1, <3>2
    <2>9. /\ InStep(r.conn[o].ch)
          /\ IsWriting(r.conn[o].ch) <=> IsWriting(q.conn[o].ch)
          /\ r.paused[o] => ~IsReading(r.conn[o].ch)
          /\ q.paused[o] => r.paused[o]
          /\ r.paused[o] => q.paused[o] \/ n < Len(data)
      <3>1. /\ InStep(b.conn[o].ch) /\ b.conn[o].ch \in ChannelType
            /\ b.conn[o] = q.conn[o] /\ b.paused[o] = q.paused[o]
            /\ q.paused[o] => ~IsReading(b.conn[o].ch)
        <4>1. b.conn[o] = q.conn[o] /\ b.paused[o] = q.paused[o]
          BY <2>4 DEF SameSide
        <4> QED
          BY <1>1, <4>1, SessionFields DEF Flowing, Serving
      <3>2. CASE r = b
        BY <3>1, <3>2
      <3>3. CASE r = Pause(b, o) /\ r # b /\ n < Len(data)
        <4>1. /\ r.paused[o] /\ ~b.paused[o]
              /\ r.conn[o].ch = DisableReading(b.conn[o].ch)
          BY <2>4, <3>3, PauseFacts
        <4> QED
          BY <3>1, <3>3, <4>1, ChannelFacts
      <3> QED
        BY <2>2, <3>2, <3>3
    <2>10. Len(r.conn[s].out) >= HighWater => r.paused[o]
      <3> SUFFICES ASSUME Len(b.conn[s].out) >= HighWater PROVE r.paused[o]
        BY <2>8
      <3>1. HighWater \in Nat /\ HighWater > 0
        BY ProxyAssumption
      <3>2. CASE Len(q.conn[s].out) >= HighWater
        BY <1>0, <1>1, <2>9, <3>2 DEF Flowing
      <3>3. CASE ~(Len(q.conn[s].out) >= HighWater)
        <4>1. n < Len(data)
          BY <1>3, <2>3, <2>6, <3>1
        <4>2. Crosses(Len(q.conn[s].out), Len(b.conn[s].out))
          BY <1>3, <3>1, <3>3 DEF Crosses
        <4>3. r = Pause(b, o)
          BY <2>2, <4>1, <4>2
        <4>4. ~b.tearing /\ Holds(b, o)
          BY <2>4 DEF Opened, SameRest, Holds
        <4> QED
          BY <2>4, <4>3, <4>4, PauseFacts
      <3> QED
        BY <3>2, <3>3
    <2>11. Opened(r)
      <3>1. Flowing(r, s)
        BY <1>0, <1>1, <2>4, <2>7, <2>8 DEF Flowing, Serving
      <3>2. Flowing(r, o)
        BY <1>0, <1>1, <2>8, <2>9, <2>10 DEF Flowing, Serving
      <3>3. \A t \in Sides : t = s \/ t = o
        BY <1>0 DEF Sides, Other
      <3> QED
        BY <2>8, <3>1, <3>2, <3>3 DEF Opened, SameRest
    <2>12. Flow(r, s) = Flow(q, s) \o data
      BY <2>3, <2>8 DEF Flow
    <2>13. r.paused[o] => q.paused[o] \/ r.conn[s].out # <<>>
      BY <2>3, <2>8, <2>9
    <2> QED
      BY <1>0, <1>2, <1>5, <2>3, <2>4, <2>5, <2>8, <2>9, <2>11, <2>12, <2>13 DEF Sent
  <1> QED
    BY <1>4, <1>5

\* Our write side may be shut.
ShutWrite(q, s) == [q EXCEPT !.sock[s].wrShut = TRUE]

\* Nothing else changes then.
LEMMA ShutFacts ==
  ASSUME NEW q \in Session, NEW s \in Sides, NEW r, r = ShutWrite(q, s)
  PROVE  /\ r \in Session /\ SameElsewhere(q, r, s)
         /\ r.conn[s] = q.conn[s] /\ r.queue = q.queue
         /\ r.sock[s].wrShut /\ r.sock[s].got = q.sock[s].got
  <1>0. Other(s) \in Sides /\ Other(s) # s
    BY SessionFields
  <1>1. r \in Session
    <2>1. PICK k \in Sockets : k = q.sock[s]
      BY DEF Session
    <2>2. [k EXCEPT !.wrShut = TRUE] \in Sockets
      BY DEF Sockets
    <2>3. [q.sock EXCEPT ![s] = [q.sock[s] EXCEPT !.wrShut = TRUE]] \in [Sides -> Sockets]
      BY <2>1, <2>2 DEF Session
    <2> QED
      BY <2>3 DEF ShutWrite, Session
  <1>2. SameElsewhere(q, r, s) /\ r.conn[s] = q.conn[s] /\ r.queue = q.queue
    BY <1>0 DEF ShutWrite, Session, Sockets, SameElsewhere, SameRest, SameSide
  <1>3. r.sock[s].wrShut /\ r.sock[s].got = q.sock[s].got
    BY DEF ShutWrite, Session, Sockets
  <1> QED
    BY <1>1, <1>2, <1>3

\* A write event has sent some or all of the output.
Emptied(q, r, s) ==
    /\ r \in Session /\ SameElsewhere(q, r, s)
    /\ IsWriting(q.conn[s].ch) /\ ~WriteFails(q, s)
    /\ Flow(r, s) = Flow(q, s)
    /\ q.conn[s].out # <<>> /\ Len(r.conn[s].out) < Len(q.conn[s].out)
    /\ \/ /\ r.conn[s].out # <<>> /\ r.conn[s].ch = q.conn[s].ch
          /\ r.sock[s].wrShut = q.sock[s].wrShut /\ r.queue = q.queue
       \/ /\ r.conn[s].out = <<>> /\ r.conn[s].ch = DisableWriting(q.conn[s].ch)
          /\ r.sock[s].wrShut <=>
               (q.conn[s].state = "kDisconnecting" \/ q.sock[s].wrShut)
          /\ r.queue = q.queue \/ r.queue = Append(q.queue, Complete(s))
          /\ q.conn[s].flow => r.queue = Append(q.queue, Complete(s))

\* What follows once the buffer is empty.
LEMMA DrainedFacts ==
  ASSUME NEW q \in Session, NEW s \in Sides, NEW r, r = Drained(q, s)
  PROVE  /\ r \in Session /\ SameElsewhere(q, r, s)
         /\ r.conn[s].out = q.conn[s].out
         /\ r.conn[s].ch = DisableWriting(q.conn[s].ch)
         /\ r.sock[s].got = q.sock[s].got
         /\ r.sock[s].wrShut <=>
               (q.conn[s].state = "kDisconnecting" \/ q.sock[s].wrShut)
         /\ r.queue = q.queue \/ r.queue = Append(q.queue, Complete(s))
         /\ q.conn[s].flow => r.queue = Append(q.queue, Complete(s))
  <1>1. PICK ch \in ChannelType : ch = DisableWriting(q.conn[s].ch)
    BY SessionFields, ChannelFacts
  <1>2. PICK out \in Chunks : out = q.conn[s].out
    BY SessionFields
  <1>3. PICK e : e = Put(q, s, out, ch)
    OBVIOUS
  <1>4. /\ e \in Session /\ SameElsewhere(q, e, s)
        /\ e.sock[s] = q.sock[s] /\ e.queue = q.queue
        /\ e.conn[s].out = out /\ e.conn[s].ch = ch
    BY <1>3, OutFacts
  <1>5. e = [q EXCEPT !.conn[s].ch = DisableWriting(@)]
    BY ZenonT(30), <1>1, <1>2, <1>3 DEF Put, Session, Connections
  <1>6. PICK f : f = QueueWriteComplete(e, s)
    OBVIOUS
  <1>7. /\ f \in Session /\ SameElsewhere(e, f, s) /\ SameSide(e, f, s)
        /\ f.queue = e.queue \/ f.queue = Append(e.queue, Complete(s))
        /\ e.conn[s].flow => f.queue = Append(e.queue, Complete(s))
    <2>1. CASE e.conn[s].flow
      BY <1>4, <1>6, <2>1, QueueFacts
    <2>2. CASE ~e.conn[s].flow
      <3>1. f = e
        BY <1>6, <2>2 DEF QueueWriteComplete
      <3> QED
        BY <1>4, <2>2, <3>1 DEF SameElsewhere, SameRest, SameSide
    <2> QED
      BY <2>1, <2>2
  <1>8. r = IF f.conn[s].state = "kDisconnecting"
            THEN ShutWrite(f, s) ELSE f
    BY <1>5, <1>6 DEF Drained, ShutWrite
  <1>9. /\ r \in Session /\ SameElsewhere(f, r, s)
        /\ r.conn[s] = f.conn[s] /\ r.queue = f.queue
        /\ r.sock[s].got = f.sock[s].got
        /\ r.sock[s].wrShut <=>
             (f.conn[s].state = "kDisconnecting" \/ f.sock[s].wrShut)
    <2>1. CASE f.conn[s].state = "kDisconnecting"
      <3>1. r = ShutWrite(f, s)
        BY <1>8, <2>1
      <3> QED
        BY <1>7, <2>1, <3>1, ShutFacts
    <2>2. CASE f.conn[s].state # "kDisconnecting"
      <3>1. f.sock[s].wrShut \in BOOLEAN
        BY <1>7, SessionFields
      <3> QED
        BY <1>7, <1>8, <2>2, <3>1 DEF SameElsewhere, SameRest, SameSide
    <2> QED
      BY <2>1, <2>2
  <1>10. SameElsewhere(q, r, s)
    BY <1>4, <1>7, <1>9 DEF SameElsewhere, SameRest, SameSide
  <1>11. f.conn[s].state = q.conn[s].state /\ f.sock[s] = q.sock[s]
         /\ f.conn[s].out = out /\ f.conn[s].ch = ch /\ e.conn[s].flow = q.conn[s].flow
    BY <1>4, <1>7 DEF SameElsewhere, SameSide
  <1> QED
    BY <1>1, <1>2, <1>4, <1>7, <1>9, <1>10, <1>11

\* A write event changes nothing, or hands on what waits in order.
LEMMA HandleWriteFacts ==
  ASSUME NEW q \in Session, NEW s \in Sides, NEW r, r = HandleWrite(q, s), r # q
  PROVE  Emptied(q, r, s)
  <1>1. PICK out \in Seq(1 .. MaxSent) : out = q.conn[s].out
    BY SessionFields DEF Chunks
  <1>2. Len(out) \in Nat /\ q.sock[s].room \in Nat
    <2>1. q.sock[s].room \in 0 .. Room /\ Room \in Nat
      BY SessionFields, ProxyAssumption
    <2> QED
      BY <2>1
  <1>3. PICK n : n = Min({q.sock[s].room, Len(out)})
    OBVIOUS
  <1>4. n \in 0 .. Len(out) /\ n <= q.sock[s].room
    BY <1>2, <1>3, MinOfTwo
  <1>5. PICK rest \in Seq(1 .. MaxSent) :
          rest = SubSeq(out, n + 1, Len(out)) /\ Len(rest) = Len(out) - n
    BY <1>4, SubSeqFacts
  <1>6. PICK w : w = Write(q, s, out, n)
    OBVIOUS
  <1>7. /\ w \in Session /\ SameElsewhere(q, w, s)
        /\ w.conn[s] = q.conn[s] /\ w.queue = q.queue
        /\ w.sock[s].wrShut = q.sock[s].wrShut
        /\ w.sock[s].got = q.sock[s].got \o SubSeq(out, 1, n)
    BY <1>4, <1>6, WriteFacts DEF Chunks
  <1>8. PICK ch \in ChannelType : ch = q.conn[s].ch
    BY SessionFields
  <1>9. PICK d : d = Put(w, s, rest, ch)
    OBVIOUS
  <1>10. /\ d \in Session /\ SameElsewhere(w, d, s)
         /\ d.sock[s] = w.sock[s] /\ d.queue = w.queue
         /\ d.conn[s].out = rest /\ d.conn[s].ch = ch
    BY <1>7, <1>9, OutFacts DEF Chunks
  <1>11. d = [w EXCEPT !.conn[s].out = SubSeq(out, n + 1, Len(out))]
    BY ZenonT(30), <1>5, <1>7, <1>8, <1>9 DEF Put, Session, Connections
  <1>12. r = IF ~IsWriting(q.conn[s].ch) \/ n = 0 \/ WriteFails(q, s) THEN q
             ELSE IF d.conn[s].out = <<>> THEN Drained(d, s) ELSE d
    BY <1>1, <1>3, <1>6, <1>11 DEF HandleWrite
  <1>13. IsWriting(q.conn[s].ch) /\ n # 0 /\ ~WriteFails(q, s)
    BY <1>12
  <1>14. r = IF rest = <<>> THEN Drained(d, s) ELSE d
    BY <1>10, <1>12, <1>13
  <1>15. SameElsewhere(q, d, s) /\ d.sock[s].wrShut = q.sock[s].wrShut /\ d.queue = q.queue
    BY <1>7, <1>10 DEF SameElsewhere, SameRest, SameSide
  <1>16. Flow(d, s) = Flow(q, s)
    <2>1. PICK got \in Seq(1 .. MaxSent) : got = q.sock[s].got
      BY SessionFields DEF Chunks
    <2>2. PICK o1 \in Seq(1 .. MaxSent) : o1 = SubSeq(out, 1, n)
      BY <1>4, SubSeqFacts
    <2>3. o1 \o rest = out
      BY <1>4, <1>5, <2>2, SubSeqFacts
    <2>4. (got \o o1) \o rest = got \o (o1 \o rest)
      BY ConcatFacts
    <2> QED
      BY <1>1, <1>7, <1>10, <2>1, <2>2, <2>3, <2>4 DEF Flow
  <1>17. out # <<>> /\ Len(rest) < Len(out)
    <2>1. Len(rest) < Len(out) /\ Len(out) > 0
      BY <1>2, <1>4, <1>5, <1>13
    <2> QED
      BY <2>1
  <1>18. CASE rest # <<>>
    <2>1. r = d
      BY <1>14, <1>18
    <2> QED
      BY <1>1, <1>8, <1>10, <1>13, <1>15, <1>16, <1>17, <1>18, <2>1 DEF Emptied
  <1>19. CASE rest = <<>>
    <2>1. r = Drained(d, s)
      BY <1>14, <1>19
    <2>2. /\ r \in Session /\ SameElsewhere(d, r, s)
          /\ r.conn[s].out = d.conn[s].out
          /\ r.conn[s].ch = DisableWriting(d.conn[s].ch)
          /\ r.sock[s].got = d.sock[s].got
          /\ r.sock[s].wrShut <=>
                (d.conn[s].state = "kDisconnecting" \/ d.sock[s].wrShut)
          /\ r.queue = d.queue \/ r.queue = Append(d.queue, Complete(s))
          /\ d.conn[s].flow => r.queue = Append(d.queue, Complete(s))
      BY SMTT(30), <1>10, <2>1, DrainedFacts
    <2>3. SameElsewhere(q, r, s)
      BY <1>15, <2>2 DEF SameElsewhere, SameRest, SameSide
    <2>4. Flow(r, s) = Flow(q, s)
      BY <1>16, <2>2 DEF Flow
    <2>5. d.conn[s].state = q.conn[s].state /\ d.conn[s].flow = q.conn[s].flow
      BY <1>15 DEF SameElsewhere
    <2> QED
      BY <1>1, <1>8, <1>10, <1>13, <1>15, <1>17, <1>19, <2>2, <2>3, <2>4, <2>5 DEF Emptied
  <1> QED
    BY <1>18, <1>19

-----------------------------------------------------------------------------
(* The handlers keep the session sound.                                    *)

\* A step that moves no data keeps their order.
LEMMA OrderedKept ==
  ASSUME NEW q, NEW r, NEW s \in Sides, Ordered(q, s),
         Flow(r, Other(s)) = Flow(q, Other(s)),
         r.pending = q.pending \/ r.tearing,
         r.sock[s].sent = q.sock[s].sent, r.sock[s].in = q.sock[s].in,
         r.sock[s].peer = q.sock[s].peer,
         Deaf(q, Other(s)) => Deaf(r, Other(s)),
         q.tearing => r.tearing
  PROVE  Ordered(r, s)
  BY DEF Ordered, Waiting

\* Either side's state decides whether it is deaf.
LEMMA DeafSame ==
  ASSUME NEW q, NEW r, NEW s, SameSide(q, r, s)
  PROVE  /\ Deaf(r, s) <=> Deaf(q, s)
         /\ Flow(r, s) = Flow(q, s)
  BY DEF SameSide, Deaf, WriteFails, Flow

\* Buffers that do not grow stay bounded.
LEMMA BoundedKept ==
  ASSUME NEW q \in Session, NEW r \in Session, Bounded(q), r.flushed = q.flushed,
         \A t \in Sides : Len(r.conn[t].out) <= Len(q.conn[t].out)
  PROVE  Bounded(r)
  <1>1. "up" \in Sides /\ "down" \in Sides
    BY DEF Sides
  <1>2. PICK a \in Nat, b \in Nat : /\ a = Len(q.conn["up"].out)
                                    /\ b = Len(q.conn["down"].out)
    BY <1>1, LengthIsNat
  <1>3. PICK c \in Nat, d \in Nat : /\ c = Len(r.conn["up"].out)
                                    /\ d = Len(r.conn["down"].out)
    BY <1>1, LengthIsNat
  <1>4. PICK f \in Nat : f = q.flushed
    BY DEF Session
  <1>5. c <= a /\ d <= b /\ b <= HighWater /\ (a <= HighWater \/ a <= f)
    BY <1>1, <1>2, <1>3, <1>4 DEF Bounded
  <1>6. d <= HighWater /\ (c <= HighWater \/ c <= f)
    BY <1>5, ProxyAssumption
  <1> QED
    BY <1>3, <1>4, <1>6 DEF Bounded

\* A write event keeps the session sound.
LEMMA WriteSound ==
  ASSUME NEW q \in Session, NEW s \in Sides, NEW r, Sound(q), Emptied(q, r, s)
  PROVE  Sound(r)
  <1>0. PICK o \in Sides : o = Other(s) /\ o # s /\ s = Other(o)
    BY SessionFields
  <1>1. /\ r \in Session /\ SameRest(q, r) /\ SameSide(q, r, o) /\ r.paused = q.paused
        /\ r.sock[s].in = q.sock[s].in /\ r.sock[s].sent = q.sock[s].sent
        /\ r.sock[s].peer = q.sock[s].peer
        /\ r.conn[s].state = q.conn[s].state /\ r.conn[s].flow = q.conn[s].flow
    BY <1>0 DEF Emptied, SameElsewhere
  <1>2. /\ Flow(r, s) = Flow(q, s) /\ IsWriting(q.conn[s].ch) /\ ~WriteFails(q, s)
        /\ q.conn[s].out # <<>> /\ Len(r.conn[s].out) < Len(q.conn[s].out)
    BY DEF Emptied
  <1>3. \A t \in Sides : t = s \/ t = o
    BY <1>0 DEF Sides, Other
  <1>4. Len(r.conn[s].out) \in Nat /\ Len(q.conn[s].out) \in Nat /\ HighWater \in Nat
    BY <1>1, LengthIsNat, ProxyAssumption
  <1>5. \A t \in Sides : Ordered(r, t)
    <2>1. Ordered(q, s) /\ Ordered(q, o)
      BY DEF Sound
    <2>2. Deaf(q, o) <=> Deaf(r, o)
      BY <1>1, DeafSame
    <2>3. Flow(r, o) = Flow(q, o)
      BY <1>1, DeafSame
    <2>4. Ordered(r, s)
      BY <1>0, <1>1, <2>1, <2>2, <2>3, OrderedKept DEF SameRest
    <2>5. Deaf(q, s) => Deaf(r, s)
      BY <1>1, <1>2 DEF Deaf
    <2>6. /\ r.sock[o].sent = q.sock[o].sent /\ r.sock[o].in = q.sock[o].in
          /\ r.sock[o].peer = q.sock[o].peer
      BY <1>1 DEF SameSide
    <2>7. Ordered(r, o)
      BY <1>0, <1>1, <1>2, <2>1, <2>5, <2>6, OrderedKept DEF SameRest
    <2> QED
      BY <1>3, <2>4, <2>7
  <1>6. Bounded(r)
    <2>1. r.conn[o].out = q.conn[o].out /\ r.flushed = q.flushed
      BY <1>1 DEF SameSide, SameRest
    <2>2. Len(r.conn[o].out) <= Len(q.conn[o].out)
      BY <2>1, LengthIsNat
    <2>3. Len(r.conn[s].out) <= Len(q.conn[s].out)
      BY <1>2, <1>4
    <2> QED
      BY <1>1, <1>3, <2>1, <2>2, <2>3, BoundedKept DEF Sound
  <1>7. Staged(r)
    <2>1. CASE Connecting(q)
      BY <1>2, <2>1 DEF Connecting, Untouched, Sides
    <2>2. CASE Bridging(q)
      <3>1. Flowing(q, s) /\ Flowing(q, o)
        BY <2>2 DEF Bridging, Opened
      <3>2. /\ InStep(r.conn[s].ch)
            /\ IsWriting(r.conn[s].ch) <=> r.conn[s].out # <<>>
            /\ IsReading(r.conn[s].ch) <=> IsReading(q.conn[s].ch)
        <4>1. InStep(q.conn[s].ch) /\ q.conn[s].ch \in ChannelType
          BY <3>1, SessionFields DEF Flowing, Serving
        <4>2. \/ r.conn[s].out # <<>> /\ r.conn[s].ch = q.conn[s].ch
              \/ r.conn[s].out = <<>> /\ r.conn[s].ch = DisableWriting(q.conn[s].ch)
          BY DEF Emptied
        <4> QED
          BY <1>2, <4>1, <4>2, ChannelFacts
      <3>3. ~r.sock[s].wrShut
        BY <3>1 DEF Emptied, Flowing
      <3>4. Flowing(r, s)
        BY <1>0, <1>1, <3>1, <3>2, <3>3 DEF Flowing, Serving, SameSide
      <3>5. Flowing(r, o)
        <4>1. Len(r.conn[s].out) >= HighWater => Len(q.conn[s].out) >= HighWater
          BY <1>2, <1>4
        <4> QED
          BY <1>0, <1>1, <3>1, <4>1 DEF Flowing, Serving, SameSide
      <3>6. Bridging(r)
        BY <1>1, <1>3, <2>2, <3>4, <3>5 DEF Bridging, Opened, SameRest
      <3> QED
        BY <3>6 DEF Staged
    <2>3. CASE HalfClosed(q)
      <3>1. s = "down" /\ o = "up"
        <4>1. ~IsWriting(q.conn["up"].ch)
          BY <2>3 DEF HalfClosed, IsWriting
        <4> QED
          BY <1>0, <1>2, <4>1 DEF Sides, Other
      <3>2. /\ InStep(r.conn[s].ch)
            /\ IsWriting(r.conn[s].ch) <=> r.conn[s].out # <<>>
        <4>1. InStep(q.conn[s].ch) /\ q.conn[s].ch \in ChannelType
          BY <2>3, <3>1, SessionFields DEF HalfClosed, Serving
        <4>2. \/ r.conn[s].out # <<>> /\ r.conn[s].ch = q.conn[s].ch
              \/ r.conn[s].out = <<>> /\ r.conn[s].ch = DisableWriting(q.conn[s].ch)
          BY DEF Emptied
        <4> QED
          BY <1>2, <4>1, <4>2, ChannelFacts
      <3>3. r.sock[s].wrShut <=> r.conn[s].out = <<>>
        BY <1>2, <2>3, <3>1 DEF Emptied, HalfClosed
      <3>4. HalfClosed(r)
        BY <1>1, <1>2, <2>3, <3>1, <3>2, <3>3 DEF HalfClosed, Serving, SameSide, SameRest
      <3> QED
        BY <3>4 DEF Staged
    <2>4. CASE Torn(q)
      <3>1. s = "up" /\ o = "down"
        <4>1. ~IsWriting(q.conn["down"].ch)
          BY <2>4 DEF Torn, IsWriting
        <4> QED
          BY <1>0, <1>2, <4>1 DEF Sides, Other
      <3>2. Torn(r)
        BY <1>1, <2>4, <3>1 DEF Torn, SameSide, SameRest
      <3> QED
        BY <3>2 DEF Staged
    <2> QED
      BY <2>1, <2>2, <2>3, <2>4 DEF Sound, Staged
  <1> QED
    BY <1>5, <1>6, <1>7 DEF Sound

\* So does a resumption, once the other side's buffer is empty.
LEMMA ResumeSound ==
  ASSUME NEW q \in Session, NEW s \in Sides, Sound(q), q.conn[Other(s)].out = <<>>
  PROVE  Sound(Resume(q, s))
  <1>0. PICK o \in Sides : o = Other(s) /\ o # s /\ s = Other(o)
    BY SessionFields
  <1>1. PICK r : r = Resume(q, s)
    OBVIOUS
  <1>2. CASE r = q
    BY <1>1, <1>2
  <1>3. CASE r # q
    <2>1. /\ r \in Session /\ SameButReading(q, r, s)
          /\ ~q.tearing /\ Holds(q, s) /\ q.paused[s] /\ ~r.paused[s]
          /\ r.conn[s].ch = EnableReading(q.conn[s].ch)
      BY <1>1, <1>3, ResumeFacts
    <2>2. /\ SameRest(q, r) /\ SameSide(q, r, o) /\ r.paused[o] = q.paused[o]
          /\ r.sock[s] = q.sock[s] /\ r.conn[s].state = q.conn[s].state
          /\ r.conn[s].out = q.conn[s].out /\ r.conn[s].flow = q.conn[s].flow
      BY <1>0, <2>1 DEF SameButReading
    <2>3. \A t \in Sides : t = s \/ t = o
      BY <1>0 DEF Sides, Other
    <2>4. \A t \in Sides : Ordered(r, t)
      <3>1. \A t \in Sides : /\ Flow(r, t) = Flow(q, t)
                             /\ Deaf(q, t) => Deaf(r, t)
                             /\ r.sock[t] = q.sock[t]
        BY <2>2, <2>3 DEF SameSide, Flow, Deaf, WriteFails
      <3> SUFFICES ASSUME NEW t \in Sides PROVE Ordered(r, t)
        OBVIOUS
      <3>2. Other(t) \in Sides
        BY SessionFields
      <3>3. /\ Ordered(q, t) /\ r.pending = q.pending
            /\ q.tearing => r.tearing
            /\ Flow(r, Other(t)) = Flow(q, Other(t))
            /\ Deaf(q, Other(t)) => Deaf(r, Other(t))
        BY <2>2, <3>1, <3>2 DEF Sound, SameRest
      <3>4. /\ r.sock[t].sent = q.sock[t].sent /\ r.sock[t].in = q.sock[t].in
            /\ r.sock[t].peer = q.sock[t].peer
        BY <3>1
      <3> QED
        BY <3>3, <3>4, OrderedKept
    <2>5. Bounded(r)
      <3>1. \A t \in Sides : r.conn[t].out = q.conn[t].out
        BY <2>2, <2>3 DEF SameSide
      <3> QED
        BY <2>2, <3>1 DEF Sound, Bounded, SameRest, Sides
    <2>6. CASE Bridging(q)
      <3>1. Flowing(q, s) /\ Flowing(q, o)
        BY <2>6 DEF Bridging, Opened
      <3>2. /\ InStep(r.conn[s].ch)
            /\ IsWriting(r.conn[s].ch) <=> IsWriting(q.conn[s].ch)
        BY <2>1, <3>1, SessionFields, ChannelFacts DEF Flowing, Serving
      <3>3. ~(Len(r.conn[o].out) >= HighWater)
        <4>1. r.conn[o].out = <<>>
          BY <1>0, <2>2 DEF SameSide
        <4> QED
          BY <4>1, ProxyAssumption
      <3>4. Flowing(r, s)
        BY <1>0, <2>1, <2>2, <3>1, <3>2, <3>3 DEF Flowing, Serving
      <3>5. Flowing(r, o)
        BY <1>0, <2>2, <3>1 DEF Flowing, Serving, SameSide
      <3>6. Bridging(r)
        BY <2>2, <2>3, <2>6, <3>4, <3>5 DEF Bridging, Opened, SameRest
      <3> QED
        BY <1>1, <2>4, <2>5, <3>6 DEF Sound, Staged
    <2>7. CASE HalfClosed(q)
      <3>1. s = "down" /\ o = "up"
        BY <1>0, <2>1, <2>7 DEF HalfClosed, Holds, Sides, Other
      <3>2. /\ InStep(r.conn[s].ch)
            /\ IsWriting(r.conn[s].ch) <=> IsWriting(q.conn[s].ch)
        BY <2>1, <2>7, <3>1, SessionFields, ChannelFacts DEF HalfClosed, Serving
      <3>3. HalfClosed(r)
        BY <2>2, <2>7, <3>1, <3>2 DEF HalfClosed, Serving, SameSide, SameRest, Flow
      <3> QED
        BY <1>1, <2>4, <2>5, <3>3 DEF Sound, Staged
    <2> QED
      BY <2>1, <2>6, <2>7 DEF Sound, Staged, Connecting, Torn, Sides
  <1> QED
    BY <1>2, <1>3

\* A connection takes another state and other interests, and a functor waits.
Turn(q, s, state, ch, f) ==
    [q EXCEPT !.conn[s].state = state, !.conn[s].ch = ch, !.queue = f]

\* What a turn leaves as it is.
Turned(q, r, s) ==
    /\ r \in Session /\ SameRest(q, r) /\ SameSide(q, r, Other(s))
    /\ r.paused = q.paused /\ r.sock[s] = q.sock[s]
    /\ r.conn[s].out = q.conn[s].out /\ r.conn[s].flow = q.conn[s].flow

\* It leaves the data where they are.
LEMMA TurnFacts ==
  ASSUME NEW q \in Session, NEW s \in Sides, NEW ch \in ChannelType,
         NEW state \in {"none", "kConnected", "kDisconnecting", "kDisconnected"},
         NEW f \in Seq(Functors), NEW r, r = Turn(q, s, state, ch, f)
  PROVE  /\ Turned(q, r, s)
         /\ r.conn[s].state = state /\ r.conn[s].ch = ch /\ r.queue = f
  <1>0. Other(s) \in Sides /\ Other(s) # s
    BY SessionFields
  <1>1. r \in Session
    <2>1. PICK k \in Connections : k = q.conn[s]
      BY DEF Session
    <2>2. [k EXCEPT !.state = state, !.ch = ch] \in Connections
      BY DEF Connections
    <2>3. [q.conn EXCEPT ![s] = [q.conn[s] EXCEPT !.state = state, !.ch = ch]]
            \in [Sides -> Connections]
      BY <2>1, <2>2 DEF Session
    <2> QED
      BY <2>3 DEF Turn, Session
  <1>2. /\ SameRest(q, r) /\ SameSide(q, r, Other(s))
        /\ r.paused = q.paused /\ r.sock[s] = q.sock[s] /\ r.queue = f
    BY <1>0 DEF Turn, Session, Connections, SameRest, SameSide
  <1>3. /\ r.conn[s].out = q.conn[s].out /\ r.conn[s].flow = q.conn[s].flow
        /\ r.conn[s].state = state /\ r.conn[s].ch = ch
    BY DEF Turn, Session, Connections
  <1> QED
    BY <1>1, <1>2, <1>3 DEF Turned

\* ConnectionDestroyed.
LEMMA DestroyedFacts ==
  ASSUME NEW q \in Session, NEW s \in Sides, NEW r, r = ConnectionDestroyed(q, s)
  PROVE  /\ Turned(q, r, s) /\ r.queue = q.queue
         /\ r.conn[s].state = "kDisconnected"
         /\ r.conn[s].ch.events = q.conn[s].ch.events
         /\ r.conn[s].ch.mask = q.conn[s].ch.mask
  <1>1. PICK ch \in ChannelType :
          /\ ch = RemoveChannel(q.conn[s].ch)
          /\ ch.events = q.conn[s].ch.events /\ ch.mask = q.conn[s].ch.mask
    BY SessionFields, ChannelFacts
  <1>2. PICK f \in Seq(Functors) : f = q.queue
    BY SessionFields
  <1>3. r = Turn(q, s, "kDisconnected", ch, f)
    BY <1>1, <1>2 DEF ConnectionDestroyed, Turn, Session, Connections
  <1> QED
    BY <1>1, <1>2, <1>3, TurnFacts

\* The part of HandleClose that comes before the callbacks.
Closed(q, s) ==
    [q EXCEPT !.conn[s].state = "kDisconnecting", !.conn[s].ch = DisableAll(@),
              !.queue = Append(@, Destroy(s))]

\* It stops the channel and queues the destruction.
LEMMA ClosedFacts ==
  ASSUME NEW q \in Session, NEW s \in Sides, NEW r, r = Closed(q, s),
         InStep(q.conn[s].ch)
  PROVE  /\ Turned(q, r, s) /\ r.queue = Append(q.queue, Destroy(s))
         /\ r.conn[s].state = "kDisconnecting"
         /\ r.conn[s].ch.events = {} /\ r.conn[s].ch.mask = {}
  <1>1. PICK ch \in ChannelType :
          ch = DisableAll(q.conn[s].ch) /\ ch.events = {} /\ ch.mask = {}
    BY SessionFields, ChannelFacts
  <1>2. PICK f \in Seq(Functors) : f = Append(q.queue, Destroy(s))
    <2>1. Destroy(s) \in Functors
      BY DEF Destroy, Functors
    <2>2. PICK a \in Seq(Functors) : a = q.queue
      BY SessionFields
    <2>3. Append(a, Destroy(s)) \in Seq(Functors)
      BY <2>1
    <2> QED
      BY <2>2, <2>3
  <1>3. r = Turn(q, s, "kDisconnecting", ch, f)
    BY <1>1, <1>2 DEF Closed, Turn, Session, Connections
  <1>4. /\ Turned(q, r, s)
        /\ r.conn[s].state = "kDisconnecting" /\ r.conn[s].ch = ch /\ r.queue = f
    BY <1>3, TurnFacts
  <1> QED
    BY <1>1, <1>2, <1>4

\* Shutdown of an open connection.
LEMMA ShutdownFacts ==
  ASSUME NEW q \in Session, NEW s \in Sides, NEW r, r = Shutdown(q, s),
         q.conn[s].state = "kConnected"
  PROVE  /\ r \in Session /\ SameRest(q, r) /\ SameSide(q, r, Other(s))
         /\ r.paused = q.paused /\ r.queue = q.queue
         /\ r.sock[s].in = q.sock[s].in /\ r.sock[s].sent = q.sock[s].sent
         /\ r.sock[s].peer = q.sock[s].peer /\ r.sock[s].got = q.sock[s].got
         /\ r.sock[s].wrShut <=> ~IsWriting(q.conn[s].ch)
         /\ r.conn[s].state = "kDisconnecting"
         /\ r.conn[s].ch = q.conn[s].ch /\ r.conn[s].out = q.conn[s].out
         /\ r.conn[s].flow = q.conn[s].flow
  <1>0. Other(s) \in Sides /\ Other(s) # s
    BY SessionFields
  <1>1. PICK w \in BOOLEAN : w = ~IsWriting(q.conn[s].ch)
    OBVIOUS
  <1>2. r = [q EXCEPT !.conn[s].state = "kDisconnecting", !.sock[s].wrShut = w]
    BY <1>1 DEF Shutdown
  <1>3. r \in Session
    <2>1. PICK k \in Connections, m \in Sockets : k = q.conn[s] /\ m = q.sock[s]
      BY DEF Session
    <2>2. [k EXCEPT !.state = "kDisconnecting"] \in Connections
      BY DEF Connections
    <2>3. [m EXCEPT !.wrShut = w] \in Sockets
      BY DEF Sockets
    <2>4. /\ [q.conn EXCEPT ![s] = [q.conn[s] EXCEPT !.state = "kDisconnecting"]]
               \in [Sides -> Connections]
          /\ [q.sock EXCEPT ![s] = [q.sock[s] EXCEPT !.wrShut = w]] \in [Sides -> Sockets]
      BY <2>1, <2>2, <2>3 DEF Session
    <2> QED
      BY <1>2, <2>4 DEF Session
  <1>4. /\ SameRest(q, r) /\ SameSide(q, r, Other(s))
        /\ r.paused = q.paused /\ r.queue = q.queue
    BY <1>0, <1>2 DEF Session, SameRest, SameSide
  <1>5. /\ r.conn[s].state = "kDisconnecting"
        /\ r.conn[s].ch = q.conn[s].ch /\ r.conn[s].out = q.conn[s].out
        /\ r.conn[s].flow = q.conn[s].flow
    BY <1>2 DEF Session, Connections
  <1>6. /\ r.sock[s].in = q.sock[s].in /\ r.sock[s].sent = q.sock[s].sent
        /\ r.sock[s].peer = q.sock[s].peer /\ r.sock[s].got = q.sock[s].got
        /\ r.sock[s].wrShut = w
    BY <1>2 DEF Session, Sockets
  <1> QED
    BY <1>1, <1>3, <1>4, <1>5, <1>6

\* The destruction of a connection that is down keeps the session sound.
LEMMA DestroyedSound ==
  ASSUME NEW q \in Session, NEW s \in Sides, Sound(q), NEW r,
         r = ConnectionDestroyed(q, s),
         s = "down" => q.tearing,
         s = "up" => ~q.upConn /\ q.client # "connecting"
  PROVE  r \in Session /\ Sound(r)
  <1>0. PICK o \in Sides : o = Other(s) /\ o # s /\ s = Other(o)
    BY SessionFields
  <1>1. /\ Turned(q, r, s) /\ r.queue = q.queue
        /\ r.conn[s].state = "kDisconnected"
        /\ r.conn[s].ch.events = q.conn[s].ch.events
        /\ r.conn[s].ch.mask = q.conn[s].ch.mask
    BY DestroyedFacts
  <1>2. /\ r \in Session /\ SameRest(q, r) /\ SameSide(q, r, o)
        /\ r.paused = q.paused /\ r.sock[s] = q.sock[s]
        /\ r.conn[s].out = q.conn[s].out /\ r.conn[s].flow = q.conn[s].flow
    BY <1>0, <1>1 DEF Turned
  <1>3. \A t \in Sides : t = s \/ t = o
    BY <1>0 DEF Sides, Other
  <1>4. \A t \in Sides : /\ Flow(r, t) = Flow(q, t)
                         /\ Deaf(q, t) => Deaf(r, t)
                         /\ r.sock[t] = q.sock[t] /\ r.conn[t].out = q.conn[t].out
    BY <1>1, <1>2, <1>3 DEF SameSide, Flow, Deaf, WriteFails
  <1>5. \A t \in Sides : Ordered(r, t)
    <2> SUFFICES ASSUME NEW t \in Sides PROVE Ordered(r, t)
      OBVIOUS
    <2>1. /\ Ordered(q, t) /\ r.pending = q.pending
          /\ q.tearing => r.tearing
      BY <1>2 DEF Sound, SameRest
    <2>2. /\ Flow(r, Other(t)) = Flow(q, Other(t))
          /\ Deaf(q, Other(t)) => Deaf(r, Other(t))
      BY <1>4, SessionFields
    <2>3. /\ r.sock[t].sent = q.sock[t].sent /\ r.sock[t].in = q.sock[t].in
          /\ r.sock[t].peer = q.sock[t].peer
      BY <1>4
    <2> QED
      BY <2>1, <2>2, <2>3, OrderedKept
  <1>6. Bounded(r)
    BY <1>2, <1>4 DEF Sound, Bounded, SameRest, Sides
  <1>7. HalfClosed(q) \/ Torn(q)
    BY DEF Sound, Staged, Connecting, Bridging, Opened, Sides
  <1>8. CASE HalfClosed(q)
    <2>1. s = "up" /\ o = "down"
      BY <1>0, <1>8 DEF HalfClosed, Sides, Other
    <2>2. HalfClosed(r)
      BY <1>1, <1>2, <1>4, <1>8, <2>1 DEF HalfClosed, SameSide, SameRest, Serving
    <2> QED
      BY <1>2, <1>5, <1>6, <2>2 DEF Sound, Staged
  <1>9. CASE Torn(q)
    <2>1. Torn(r)
      <3>1. CASE s = "up" /\ o = "down"
        BY <1>1, <1>2, <1>9, <3>1 DEF Torn, SameSide, SameRest
      <3>2. CASE s = "down" /\ o = "up"
        BY <1>1, <1>2, <1>9, <3>2 DEF Torn, SameSide, SameRest
      <3> QED
        BY <1>0, <3>1, <3>2 DEF Sides, Other
    <2> QED
      BY <1>2, <1>5, <1>6, <2>1 DEF Sound, Staged
  <1> QED
    BY <1>7, <1>8, <1>9

\* The downstream connection closes: everything is torn down.
LEMMA CloseDownSound ==
  ASSUME NEW q \in Session, Sound(q), NEW r, r = HandleClose(q, "down")
  PROVE  \/ r = q
         \/ /\ r \in Session /\ Sound(r) /\ Torn(r)
            /\ r.queue = Append(q.queue, Destroy("down"))
            /\ r.sock["up"].peer = q.sock["up"].peer
  <1>0. /\ "down" \in Sides /\ "up" \in Sides
        /\ Other("down") = "up" /\ Other("up") = "down"
    BY DEF Sides, Other
  <1>1. CASE q.conn["down"].state # "kConnected"
    BY <1>1 DEF HandleClose
  <1>2. CASE q.conn["down"].state = "kConnected"
    <2>1. Connecting(q) \/ Bridging(q)
      BY <1>2 DEF Sound, Staged, HalfClosed, Torn
    <2>2. InStep(q.conn["down"].ch) /\ ~q.sock["down"].wrShut /\ ~q.tearing
      BY <1>0, <2>1 DEF Connecting, Bridging, Opened, Flowing, Serving
    <2>3. PICK c : c = Closed(q, "down")
      OBVIOUS
    <2>4. /\ c \in Session /\ SameRest(q, c) /\ SameSide(q, c, "up")
          /\ c.paused = q.paused /\ c.sock["down"] = q.sock["down"]
          /\ c.conn["down"].out = q.conn["down"].out
          /\ c.queue = Append(q.queue, Destroy("down"))
          /\ c.conn["down"].state = "kDisconnecting"
          /\ c.conn["down"].ch.events = {}
      BY <1>0, <2>2, <2>3, ClosedFacts DEF Turned
    <2>5. r = Teardown(c)
      BY <1>2, <2>3 DEF HandleClose, Closed, Destroy
    <2>6. PICK x : x = IF c.client = "connected" THEN Shutdown(c, "up") ELSE c
      OBVIOUS
    <2>7. /\ x \in Session /\ SameSide(c, x, "down") /\ x.queue = c.queue
          /\ x.flushed = c.flushed
          /\ x.sock["up"].sent = c.sock["up"].sent
          /\ x.sock["up"].peer = c.sock["up"].peer
          /\ x.sock["up"].in = c.sock["up"].in
          /\ x.sock["up"].got = c.sock["up"].got
          /\ x.conn["up"].out = c.conn["up"].out
          /\ x.conn["up"].state # "kConnected"
      <3>1. CASE Connecting(q)
        <4>1. c.client # "connected" /\ c.conn["up"].state # "kConnected"
          BY <2>4, <3>1 DEF Connecting, Untouched, SameRest, SameSide
        <4>2. x = c
          BY <2>6, <4>1
        <4> QED
          BY <2>4, <4>1, <4>2 DEF SameSide
      <3>2. CASE Bridging(q)
        <4>1. c.client = "connected" /\ c.conn["up"].state = "kConnected"
          BY <1>0, <2>4, <3>2 DEF Bridging, Opened, Flowing, SameRest, SameSide
        <4>2. x = Shutdown(c, "up")
          BY <2>6, <4>1
        <4> QED
          BY <1>0, <2>4, <4>1, <4>2, ShutdownFacts DEF SameRest
      <3> QED
        BY <2>1, <3>1, <3>2
    <2>8. r = [x EXCEPT !.tearing = TRUE, !.upReady = FALSE, !.upConn = FALSE,
                        !.downConn = FALSE, !.pending = <<>>, !.client = "gone",
                        !.paused = [s \in Sides |-> FALSE]]
      BY <2>2, <2>4, <2>5, <2>6 DEF Teardown, SameRest
    <2>9. r \in Session
      <3>1. <<>> \in Chunks /\ [s \in Sides |-> FALSE] \in [Sides -> BOOLEAN]
        BY DEF Chunks
      <3> QED
        BY <2>7, <2>8, <3>1 DEF Session
    <2>10. /\ r.conn = x.conn /\ r.sock = x.sock /\ r.queue = x.queue
           /\ r.flushed = x.flushed /\ r.tearing /\ ~r.upReady /\ ~r.upConn
           /\ ~r.downConn /\ r.client = "gone"
      BY <2>7, <2>8 DEF Session
    <2>11. Torn(r)
      BY <2>2, <2>4, <2>7, <2>10 DEF Torn, SameSide
    <2>12. \A s \in Sides : /\ r.conn[s].out = q.conn[s].out
                            /\ r.sock[s].got = q.sock[s].got
                            /\ r.sock[s].sent = q.sock[s].sent
      BY <2>4, <2>7, <2>10 DEF Sides, SameSide
    <2>13. \A s \in Sides : Ordered(r, s)
      <3> SUFFICES ASSUME NEW s \in Sides PROVE Ordered(r, s)
        OBVIOUS
      <3>1. Ordered(q, s) /\ Other(s) \in Sides
        BY SessionFields DEF Sound
      <3>2. Flow(r, Other(s)) = Flow(q, Other(s)) /\ r.sock[s].sent = q.sock[s].sent
        BY <2>12, <3>1 DEF Flow
      <3> QED
        BY <2>10, <3>1, <3>2 DEF Ordered
    <2>14. Bounded(r)
      <3>1. r.flushed = q.flushed
        BY <2>4, <2>7, <2>10 DEF SameRest
      <3> QED
        BY <1>0, <2>12, <3>1 DEF Sound, Bounded
    <2>15. /\ r.queue = Append(q.queue, Destroy("down"))
           /\ r.sock["up"].peer = q.sock["up"].peer
      BY <2>4, <2>7, <2>10 DEF SameSide
    <2> QED
      BY <2>9, <2>11, <2>13, <2>14, <2>15 DEF Sound, Staged
  <1> QED
    BY <1>1, <1>2

\* The upstream connection closes with everything read: the downstream end is
\* shut once its buffer is empty.
LEMMA CloseUpSound ==
  ASSUME NEW q \in Session, Sound(q), NEW r, r = HandleClose(q, "up"),
         \/ q.sock["up"].peer = "rst"
         \/ q.sock["up"].peer # "open" /\ q.sock["up"].in = <<>>
  PROVE  \/ r = q
         \/ /\ r \in Session /\ Sound(r) /\ HalfClosed(r)
            /\ r.queue = Append(q.queue, Destroy("up"))
            /\ r.sock["up"].peer = q.sock["up"].peer
  <1>0. /\ "down" \in Sides /\ "up" \in Sides
        /\ Other("down") = "up" /\ Other("up") = "down"
    BY DEF Sides, Other
  <1>1. CASE q.conn["up"].state # "kConnected"
    BY <1>1 DEF HandleClose
  <1>2. CASE q.conn["up"].state = "kConnected"
    <2>1. Bridging(q)
      BY <1>2 DEF Sound, Staged, Connecting, Untouched, HalfClosed, Torn
    <2>2. /\ Flowing(q, "up") /\ Flowing(q, "down") /\ ~q.tearing
          /\ InStep(q.conn["up"].ch)
      BY <1>0, <2>1 DEF Bridging, Opened, Flowing, Serving
    <2>3. PICK c : c = Closed(q, "up")
      OBVIOUS
    <2>4. /\ c \in Session /\ SameRest(q, c) /\ SameSide(q, c, "down")
          /\ c.paused = q.paused /\ c.sock["up"] = q.sock["up"]
          /\ c.conn["up"].out = q.conn["up"].out
          /\ c.queue = Append(q.queue, Destroy("up"))
          /\ c.conn["up"].state = "kDisconnecting"
          /\ c.conn["up"].ch.events = {} /\ c.conn["up"].ch.mask = {}
      BY <1>0, <2>2, <2>3, ClosedFacts DEF Turned
    <2>5. r = OnUpstreamDisconnected(c)
      BY <1>2, <2>3 DEF HandleClose, Closed, Destroy
    <2>6. PICK y : y = [c EXCEPT !.upReady = FALSE, !.upConn = FALSE]
      OBVIOUS
    <2>7. /\ y \in Session /\ y.conn = c.conn /\ y.sock = c.sock
          /\ y.queue = c.queue /\ y.flushed = c.flushed /\ y.paused = c.paused
          /\ y.pending = c.pending /\ y.client = c.client
          /\ y.downConn = c.downConn /\ y.tearing = c.tearing
          /\ ~y.upReady /\ ~y.upConn
      BY <2>4, <2>6 DEF Session
    <2>8. r = Shutdown(y, "down") /\ y.conn["down"].state = "kConnected"
      BY <2>2, <2>4, <2>5, <2>6, <2>7
         DEF OnUpstreamDisconnected, SameRest, SameSide, Flowing
    <2>9. /\ r \in Session /\ SameRest(y, r) /\ SameSide(y, r, "up")
          /\ r.queue = y.queue
          /\ r.sock["down"].in = y.sock["down"].in
          /\ r.sock["down"].sent = y.sock["down"].sent
          /\ r.sock["down"].peer = y.sock["down"].peer
          /\ r.sock["down"].got = y.sock["down"].got
          /\ r.sock["down"].wrShut <=> ~IsWriting(y.conn["down"].ch)
          /\ r.conn["down"].state = "kDisconnecting"
          /\ r.conn["down"].ch = y.conn["down"].ch
          /\ r.conn["down"].out = y.conn["down"].out
          /\ r.conn["down"].flow = y.conn["down"].flow
      BY <1>0, <2>7, <2>8, ShutdownFacts
    <2>10. \A s \in Sides : /\ r.conn[s].out = q.conn[s].out
                            /\ r.sock[s].got = q.sock[s].got
                            /\ r.sock[s].sent = q.sock[s].sent
                            /\ r.sock[s].in = q.sock[s].in
                            /\ r.sock[s].peer = q.sock[s].peer
      BY <2>4, <2>7, <2>9 DEF Sides, SameSide
    <2>11. /\ r.pending = q.pending /\ r.flushed = q.flushed /\ r.downConn
           /\ r.client = "connected" /\ ~r.tearing /\ ~r.upConn /\ ~r.upReady
      <3>1. /\ r.pending = y.pending /\ r.flushed = y.flushed
            /\ r.downConn = y.downConn /\ r.client = y.client
            /\ r.tearing = y.tearing /\ r.upConn = y.upConn /\ r.upReady = y.upReady
        BY <2>9 DEF SameRest
      <3>2. /\ c.pending = q.pending /\ c.flushed = q.flushed
            /\ c.downConn = q.downConn /\ c.client = q.client
            /\ c.tearing = q.tearing
        BY <2>4 DEF SameRest
      <3>3. q.downConn /\ q.client = "connected" /\ ~q.tearing
        BY <2>1 DEF Bridging, Opened
      <3> QED
        BY <2>7, <3>1, <3>2, <3>3
    <2>12. \A s \in Sides : Flow(r, s) = Flow(q, s)
      BY <2>10 DEF Flow
    <2>13. /\ r.sock["down"].wrShut <=> r.conn["down"].out = <<>>
           /\ Serving(r, "down")
      BY <2>2, <2>4, <2>7, <2>9 DEF Flowing, Serving, SameSide
    <2>14. \A s \in Sides : Deaf(q, s) => Deaf(r, s)
      <3>1. Deaf(q, "up") => Deaf(r, "up")
        BY <2>2, <2>4, <2>7, <2>9 DEF Deaf, WriteFails, SameSide, Flowing
      <3>2. Deaf(q, "down") => Deaf(r, "down")
        BY <1>0, <2>2, <2>10, <2>13 DEF Deaf, WriteFails, Flowing
      <3> QED
        BY <3>1, <3>2 DEF Sides
    <2>15. \A s \in Sides : Ordered(r, s)
      <3> SUFFICES ASSUME NEW s \in Sides PROVE Ordered(r, s)
        OBVIOUS
      <3>1. Ordered(q, s) /\ Other(s) \in Sides
        BY SessionFields DEF Sound
      <3>2. /\ Flow(r, Other(s)) = Flow(q, Other(s))
            /\ Deaf(q, Other(s)) => Deaf(r, Other(s))
        BY <2>12, <2>14, <3>1
      <3>3. /\ r.sock[s].sent = q.sock[s].sent /\ r.sock[s].in = q.sock[s].in
            /\ r.sock[s].peer = q.sock[s].peer
        BY <2>10
      <3> QED
        BY <2>2, <2>11, <3>1, <3>2, <3>3, OrderedKept
    <2>16. q.sock["up"].peer = "fin" /\ q.sock["down"].peer # "rst" =>
             q.sock["up"].sent = Flow(q, "down")
      <3> SUFFICES ASSUME q.sock["up"].peer = "fin", q.sock["down"].peer # "rst"
                   PROVE  q.sock["up"].sent = Flow(q, "down")
        OBVIOUS
      <3>1. ~Deaf(q, "down")
        BY <2>2 DEF Deaf, WriteFails, Flowing
      <3>2. q.sock["up"].sent = Flow(q, "down") \o Waiting(q, "up") \o q.sock["up"].in
        BY <1>0, <2>2, <3>1 DEF Sound, Ordered
      <3>3. q.sock["up"].sent = Flow(q, "down") \o <<>> \o <<>>
        BY <3>2 DEF Waiting
      <3>4. PICK f \in Seq(1 .. MaxSent) : f = Flow(q, "down")
        BY <1>0, SessionFields, ConcatFacts DEF Flow, Chunks
      <3>5. f \o <<>> \o <<>> = f
        BY ConcatFacts
      <3> QED
        BY <3>3, <3>4, <3>5
    <2>17. /\ r.conn["up"].state = "kDisconnecting"
           /\ r.conn["up"].ch.events = {} /\ r.conn["up"].ch.mask = {}
           /\ ~r.sock["up"].wrShut
      BY <2>2, <2>4, <2>7, <2>9 DEF SameSide, Flowing
    <2>18. HalfClosed(r)
      BY <1>0, <2>9, <2>10, <2>11, <2>12, <2>13, <2>16, <2>17 DEF HalfClosed
    <2>19. Bounded(r)
      BY <1>0, <2>10, <2>11 DEF Sound, Bounded
    <2> QED
      BY <1>0, <2>4, <2>7, <2>9, <2>10, <2>15, <2>18, <2>19 DEF Sound, Staged
  <1> QED
    BY <1>1, <1>2

\* The flow to a side, and what waits for it, are sequences of chunks.
LEMMA FlowType ==
  ASSUME NEW q \in Session, NEW s \in Sides
  PROVE  Flow(q, s) \in Seq(1 .. MaxSent) /\ Waiting(q, s) \in Seq(1 .. MaxSent)
  <1>1. PICK got \in Seq(1 .. MaxSent), out \in Seq(1 .. MaxSent) :
          got = q.sock[s].got /\ out = q.conn[s].out
    BY SessionFields DEF Chunks
  <1>2. got \o out \in Seq(1 .. MaxSent) /\ <<>> \in Seq(1 .. MaxSent)
    BY ConcatFacts
  <1>3. q.pending \in Seq(1 .. MaxSent)
    BY SessionFields DEF Chunks
  <1> QED
    BY <1>1, <1>2, <1>3 DEF Flow, Waiting

\* Chunk d has been read from side s: it is sent on, or kept, or dropped.
Passed(q, r, s, d) ==
    /\ q.sock[s].in # <<>> /\ q.sock[s].in = d \o r.sock[s].in
    /\ r.sock[s].sent = q.sock[s].sent /\ r.sock[s].peer = q.sock[s].peer

SentOn(q, r, s, d) ==
    /\ Flow(r, Other(s)) = Flow(q, Other(s)) \o d
    /\ ~Deaf(q, Other(s)) /\ ~q.tearing
    /\ Waiting(q, s) = <<>> /\ Waiting(r, s) = <<>>

Kept(q, r, s, d) ==
    /\ Flow(r, Other(s)) = Flow(q, Other(s))
    /\ Waiting(r, s) = Waiting(q, s) \o d
    /\ Deaf(q, Other(s)) => Deaf(r, Other(s))
    /\ q.tearing => r.tearing

Dropped(q, r, s) ==
    /\ Flow(r, Other(s)) = Flow(q, Other(s))
    /\ Deaf(r, Other(s)) \/ r.tearing

\* A chunk that is read keeps its place in the order.
LEMMA OrderedRead ==
  ASSUME NEW q \in Session, NEW r \in Session, NEW s \in Sides, Ordered(q, s),
         NEW d \in Seq(1 .. MaxSent), Passed(q, r, s, d),
         SentOn(q, r, s, d) \/ Kept(q, r, s, d) \/ Dropped(q, r, s)
  PROVE  Ordered(r, s)
  <1>0. PICK o \in Sides : o = Other(s)
    BY SessionFields
  <1>1. PICK in \in Seq(1 .. MaxSent) : in = q.sock[s].in
    BY SessionFields DEF Chunks
  <1>2. PICK flow \in Seq(1 .. MaxSent), wait \in Seq(1 .. MaxSent) :
          flow = Flow(q, o) /\ wait = Waiting(q, s)
    BY FlowType
  <1>3. PICK sent \in Seq(1 .. MaxSent) : sent = q.sock[s].sent
    BY SessionFields DEF Chunks
  <1>4. PICK rest \in Seq(1 .. MaxSent) : rest = r.sock[s].in
    BY SessionFields DEF Chunks
  <1>5. in = d \o rest /\ in # <<>> /\ r.sock[s].sent = sent
    BY <1>1, <1>3, <1>4 DEF Passed
  <1>6. /\ IsPrefix(flow, sent)
        /\ sent = flow \o wait \o in \/ Deaf(q, o) \/ q.tearing
    BY <1>0, <1>1, <1>2, <1>3, <1>5 DEF Ordered
  <1>7. CASE SentOn(q, r, s, d)
    <2>1. sent = flow \o <<>> \o (d \o rest)
      BY <1>0, <1>2, <1>5, <1>6, <1>7 DEF SentOn
    <2>2. flow \o <<>> \o (d \o rest) = flow \o (<<>> \o d) \o rest
      OBVIOUS
    <2>3. <<>> \o d = d /\ flow \o d \in Seq(1 .. MaxSent)
      OBVIOUS
    <2>4. sent = (flow \o d) \o rest
      BY <2>1, <2>2, <2>3
    <2>5. IsPrefix(flow \o d, sent)
      BY <2>3, <2>4, PrefixFacts
    <2>6. (flow \o d) \o <<>> = flow \o d
      BY <2>3, ConcatFacts
    <2> QED
      BY <1>0, <1>2, <1>4, <1>5, <1>7, <2>4, <2>5, <2>6 DEF SentOn, Ordered
  <1>8. CASE Kept(q, r, s, d)
    <2>1. flow \o wait \o (d \o rest) = flow \o (wait \o d) \o rest
      <3>0. flow \o wait \in Seq(1 .. MaxSent)
        OBVIOUS
      <3>1. PICK fw \in Seq(1 .. MaxSent) : fw = flow \o wait
        BY <3>0
      <3>2. fw \o (d \o rest) = (fw \o d) \o rest
        OBVIOUS
      <3>3. flow \o wait \o d = flow \o (wait \o d)
        OBVIOUS
      <3> QED
        BY <3>1, <3>2, <3>3
    <2> QED
      BY <1>0, <1>2, <1>4, <1>5, <1>6, <1>8, <2>1 DEF Kept, Ordered
  <1>9. CASE Dropped(q, r, s)
    BY <1>0, <1>2, <1>5, <1>6, <1>9 DEF Dropped, Ordered
  <1> QED
    BY <1>7, <1>8, <1>9

\* A chunk leaves the socket.
Popped(q, s) == [q EXCEPT !.sock[s].in = Tail(@)]

\* Nothing else does.
LEMMA PoppedFacts ==
  ASSUME NEW q \in Session, NEW s \in Sides, NEW r, r = Popped(q, s),
         q.sock[s].in # <<>>
  PROVE  /\ r \in Session /\ SameRest(q, r) /\ r.conn = q.conn
         /\ r.paused = q.paused /\ r.queue = q.queue
         /\ r.sock[Other(s)] = q.sock[Other(s)]
         /\ r.sock[s].in = Tail(q.sock[s].in)
         /\ r.sock[s].sent = q.sock[s].sent /\ r.sock[s].got = q.sock[s].got
         /\ r.sock[s].peer = q.sock[s].peer /\ r.sock[s].wrShut = q.sock[s].wrShut
         /\ r.sock[s].room = q.sock[s].room
  <1>0. Other(s) \in Sides /\ Other(s) # s
    BY SessionFields
  <1>1. PICK in \in Chunks : in = Tail(q.sock[s].in)
    <2>1. PICK i \in Seq(1 .. MaxSent) : i = q.sock[s].in /\ i # <<>>
      BY SessionFields DEF Chunks
    <2>2. Tail(i) \in Seq(1 .. MaxSent)
      BY <2>1, HeadTail
    <2> QED
      BY <2>1, <2>2 DEF Chunks
  <1>2. r = [q EXCEPT !.sock[s].in = in]
    BY <1>1 DEF Popped
  <1>3. r \in Session
    <2>1. PICK k \in Sockets : k = q.sock[s]
      BY DEF Session
    <2>2. [k EXCEPT !.in = in] \in Sockets
      BY DEF Sockets
    <2>3. [q.sock EXCEPT ![s] = [q.sock[s] EXCEPT !.in = in]] \in [Sides -> Sockets]
      BY <2>1, <2>2 DEF Session
    <2> QED
      BY <1>2, <2>3 DEF Session
  <1>4. /\ SameRest(q, r) /\ r.conn = q.conn
        /\ r.paused = q.paused /\ r.queue = q.queue
        /\ r.sock[Other(s)] = q.sock[Other(s)]
    BY <1>0, <1>2 DEF Session, SameRest
  <1>5. /\ r.sock[s].in = in
        /\ r.sock[s].sent = q.sock[s].sent /\ r.sock[s].got = q.sock[s].got
        /\ r.sock[s].peer = q.sock[s].peer /\ r.sock[s].wrShut = q.sock[s].wrShut
        /\ r.sock[s].room = q.sock[s].room
    BY <1>2 DEF Session, Sockets
  <1> QED
    BY <1>1, <1>3, <1>4, <1>5

\* What a turn of HandleRead's loop on side s brings about.
Read(q, r, s) ==
    /\ r \in Session /\ Sound(r)
    /\ r.upConn = q.upConn /\ r.tearing = q.tearing
    /\ r.client = q.client /\ r.flushed = q.flushed
    /\ r.sock["up"].peer = q.sock["up"].peer
    /\ \/ /\ ~q.upConn
          /\ r.conn = q.conn /\ r.paused = q.paused /\ r.queue = q.queue
       \/ /\ q.upConn /\ Bridging(r)
          /\ r.conn[s].out = q.conn[s].out
          /\ r.paused[Other(s)] = q.paused[Other(s)]
          /\ r.paused[s] => q.paused[s] \/ r.conn[Other(s)].out # <<>>
          /\ q.conn[Other(s)].out # <<>> => r.conn[Other(s)].out # <<>>
          /\ r.queue = q.queue \/ r.queue = Append(q.queue, Complete(Other(s)))

\* A chunk that comes before the upstream is there, or after it has gone.
LEMMA ReadPendingSound ==
  ASSUME NEW q \in Session, Sound(q), q.sock["down"].in # <<>>,
         Connecting(q) \/ HalfClosed(q),
         NEW r, NEW d, d = <<Head(q.sock["down"].in)>>,
         r = OnData(Popped(q, "down"), "down", d)
  PROVE  Read(q, r, "down")
  <1>0. /\ "down" \in Sides /\ "up" \in Sides
        /\ Other("down") = "up" /\ Other("up") = "down"
    BY DEF Sides, Other
  <1>1. PICK c : c = Popped(q, "down")
    OBVIOUS
  <1>2. /\ c \in Session /\ SameRest(q, c) /\ c.conn = q.conn
        /\ c.paused = q.paused /\ c.queue = q.queue
        /\ c.sock["up"] = q.sock["up"]
        /\ c.sock["down"].in = Tail(q.sock["down"].in)
        /\ c.sock["down"].sent = q.sock["down"].sent
        /\ c.sock["down"].got = q.sock["down"].got
        /\ c.sock["down"].peer = q.sock["down"].peer
        /\ c.sock["down"].wrShut = q.sock["down"].wrShut
    BY <1>0, <1>1, PoppedFacts
  <1>3. ~q.tearing /\ ~q.upReady /\ ~q.upConn
    BY DEF Connecting, HalfClosed
  <1>4. PICK e \in Chunks : e = d /\ q.sock["down"].in = e \o Tail(q.sock["down"].in)
    <2>1. PICK in \in Seq(1 .. MaxSent) : in = q.sock["down"].in
      BY <1>0, SessionFields DEF Chunks
    <2>2. in # <<>>
      BY <2>1
    <2>3. <<Head(in)>> \in Seq(1 .. MaxSent) /\ <<Head(in)>> \o Tail(in) = in
      BY <2>2, HeadTail
    <2> QED
      BY <2>1, <2>3 DEF Chunks
  <1>5. PICK w \in Chunks : w = q.pending \o e
    <2>1. PICK a \in Seq(1 .. MaxSent), b \in Seq(1 .. MaxSent) : a = q.pending /\ b = e
      BY <1>0, SessionFields DEF Chunks
    <2>2. a \o b \in Seq(1 .. MaxSent)
      OBVIOUS
    <2> QED
      BY <2>1, <2>2 DEF Chunks
  <1>6. r = [c EXCEPT !.pending = w]
    <2>1. r = [c EXCEPT !.pending = c.pending \o e]
      BY <1>1, <1>2, <1>3, <1>4 DEF OnData, OnDownstreamData, SameRest
    <2> QED
      BY <1>2, <1>5, <2>1 DEF SameRest
  <1>7. /\ r \in Session /\ r.conn = q.conn /\ r.sock = c.sock /\ r.paused = q.paused
        /\ r.queue = q.queue /\ r.upConn = q.upConn /\ r.downConn = q.downConn
        /\ r.upReady = q.upReady /\ r.tearing = q.tearing
        /\ r.client = q.client /\ r.flushed = q.flushed
        /\ r.pending = w
    BY <1>2, <1>6 DEF Session, SameRest
  <1>8. \A s \in Sides : /\ Flow(r, s) = Flow(q, s)
                         /\ Deaf(r, s) <=> Deaf(q, s)
    BY ZenonT(30), <1>2, <1>7 DEF Sides, Flow, Deaf, WriteFails
  <1>9. Ordered(r, "down")
    <2>1. Passed(q, r, "down", e)
      BY <1>2, <1>4, <1>7 DEF Passed
    <2>2. Kept(q, r, "down", e)
      BY <1>0, <1>5, <1>7, <1>8 DEF Kept, Waiting
    <2>3. Ordered(q, "down") /\ e \in Seq(1 .. MaxSent)
      BY <1>0 DEF Sound, Chunks
    <2> QED
      BY <1>0, <1>7, <2>1, <2>2, <2>3, OrderedRead
  <1>10. Ordered(r, "up")
    <2>1. Ordered(q, "up")
      BY <1>0 DEF Sound
    <2> QED
      BY <1>0, <1>2, <1>7, <1>8, <2>1 DEF Ordered, Waiting
  <1>11. Staged(r)
    <2>1. CASE Connecting(q)
      <3>1. Connecting(r)
        BY ZenonT(30), <1>2, <1>7, <2>1 DEF Connecting, Serving, Untouched
      <3> QED
        BY <3>1 DEF Staged
    <2>2. CASE HalfClosed(q)
      <3>1. HalfClosed(r)
        <4>1. /\ r.sock["down"].wrShut = q.sock["down"].wrShut
              /\ r.sock["down"].peer = q.sock["down"].peer
              /\ r.sock["up"] = q.sock["up"]
              /\ Flow(r, "down") = Flow(q, "down")
          BY <1>0, <1>2, <1>7, <1>8
        <4>2. Serving(r, "down") <=> Serving(q, "down")
          BY <1>7 DEF Serving
        <4> QED
          BY ZenonT(30), <1>7, <2>2, <4>1, <4>2 DEF HalfClosed
      <3> QED
        BY <3>1 DEF Staged
    <2> QED
      BY <2>1, <2>2
  <1>12. Bounded(r)
    BY <1>7 DEF Sound, Bounded
  <1>13. Sound(r)
    BY <1>9, <1>10, <1>11, <1>12 DEF Sound, Sides
  <1> QED
    BY <1>2, <1>3, <1>7, <1>13 DEF Read

\* A chunk that comes after teardown is dropped.
LEMMA ReadTornSound ==
  ASSUME NEW q \in Session, NEW s \in Sides, Sound(q), q.sock[s].in # <<>>, Torn(q),
         NEW r, NEW d, r = OnData(Popped(q, s), s, d)
  PROVE  Read(q, r, s)
  <1>0. PICK o \in Sides : o = Other(s) /\ o # s /\ s = Other(o)
    BY SessionFields
  <1>1. PICK c : c = Popped(q, s)
    OBVIOUS
  <1>2. /\ c \in Session /\ SameRest(q, c) /\ c.conn = q.conn
        /\ c.paused = q.paused /\ c.queue = q.queue
        /\ c.sock[o] = q.sock[o]
        /\ c.sock[s].sent = q.sock[s].sent
        /\ c.sock[s].got = q.sock[s].got
        /\ c.sock[s].peer = q.sock[s].peer
        /\ c.sock[s].wrShut = q.sock[s].wrShut
    BY <1>0, <1>1, PoppedFacts
  <1>3. r = c
    BY <1>1, <1>2 DEF OnData, OnDownstreamData, OnUpstreamData, SameRest, Torn
  <1>4. \A t \in Sides : /\ c.sock[t].sent = q.sock[t].sent
                         /\ c.sock[t].got = q.sock[t].got
                         /\ c.sock[t].peer = q.sock[t].peer
                         /\ c.sock[t].wrShut = q.sock[t].wrShut
                         /\ Flow(c, t) = Flow(q, t)
    <2>1. \A t \in Sides : t = s \/ t = o
      BY <1>0 DEF Sides, Other
    <2> QED
      BY <1>2, <2>1 DEF Flow
  <1>5. \A t \in Sides : Ordered(c, t)
    <2> SUFFICES ASSUME NEW t \in Sides PROVE Ordered(c, t)
      OBVIOUS
    <2>1. Ordered(q, t) /\ Other(t) \in Sides
      BY SessionFields DEF Sound
    <2>2. c.tearing
      BY <1>2 DEF SameRest, Torn
    <2>3. Flow(c, Other(t)) = Flow(q, Other(t)) /\ c.sock[t].sent = q.sock[t].sent
      BY <1>4, <2>1
    <2> QED
      BY <2>1, <2>2, <2>3 DEF Ordered
  <1>6. Torn(c)
    BY <1>2, <1>4 DEF Torn, SameRest, Sides
  <1>7. Bounded(c)
    BY <1>2 DEF Sound, Bounded, SameRest
  <1>8. Sound(c)
    BY <1>5, <1>6, <1>7 DEF Sound, Staged
  <1> QED
    BY <1>2, <1>3, <1>4, <1>8 DEF Read, SameRest, Torn, Sides

\* A chunk that one open connection passes to the other.
LEMMA ReadBridgingSound ==
  ASSUME NEW q \in Session, NEW s \in Sides, Sound(q), q.sock[s].in # <<>>, Bridging(q),
         s = "up" => ~q.paused["up"],
         s = "down" /\ q.paused["down"] => Len(q.conn["up"].out) < q.flushed,
         NEW r, NEW d, d = <<Head(q.sock[s].in)>>, r = OnData(Popped(q, s), s, d)
  PROVE  Read(q, r, s)
  <1>0. PICK o \in Sides : o = Other(s) /\ o # s /\ s = Other(o)
    BY SessionFields
  <1>1. PICK c : c = Popped(q, s)
    OBVIOUS
  <1>2. /\ c \in Session /\ SameRest(q, c) /\ c.conn = q.conn
        /\ c.paused = q.paused /\ c.queue = q.queue
        /\ c.sock[o] = q.sock[o]
        /\ c.sock[s].in = Tail(q.sock[s].in)
        /\ c.sock[s].sent = q.sock[s].sent
        /\ c.sock[s].got = q.sock[s].got
        /\ c.sock[s].peer = q.sock[s].peer
        /\ c.sock[s].wrShut = q.sock[s].wrShut
    BY <1>0, <1>1, PoppedFacts
  <1>3. PICK e \in Chunks : /\ e = d /\ q.sock[s].in = e \o Tail(q.sock[s].in)
                            /\ e # <<>> /\ Len(e) = 1
    <2>1. PICK in \in Seq(1 .. MaxSent) : in = q.sock[s].in
      BY <1>0, SessionFields DEF Chunks
    <2>2. in # <<>>
      BY <2>1
    <2>3. /\ <<Head(in)>> \in Seq(1 .. MaxSent) /\ <<Head(in)>> \o Tail(in) = in
          /\ <<Head(in)>> # <<>> /\ Len(<<Head(in)>>) = 1
      BY <2>2, HeadTail
    <2> QED
      BY <2>1, <2>3 DEF Chunks
  <1>4. \A t \in Sides : t = s \/ t = o
    BY <1>0 DEF Sides, Other
  <1>5. Bridging(c)
    <2>1. \A t \in Sides : c.sock[t].wrShut = q.sock[t].wrShut
      BY <1>2, <1>4
    <2>2. \A t \in Sides : Flowing(c, t)
      BY <1>2, <2>1 DEF Bridging, Opened, Flowing, Serving
    <2> QED
      BY <1>2, <2>2 DEF Bridging, Opened, SameRest
  <1>6. r = SendInLoop(c, o, e)
    <2>1. ~c.tearing /\ c.upReady /\ c.upConn /\ c.downConn
      BY <1>5 DEF Bridging, Opened
    <2>2. CASE s = "down"
      BY <1>0, <1>1, <1>3, <2>1, <2>2 DEF OnData, OnDownstreamData, Other
    <2>3. CASE s = "up"
      BY <1>0, <1>1, <1>3, <2>1, <2>3 DEF OnData, OnUpstreamData, Other
    <2> QED
      BY <2>2, <2>3 DEF Sides
  <1>7. Sent(c, r, o, e)
    <2>1. e # <<>> /\ Len(e) > 0 /\ Len(e) \in Nat
      BY <1>3
    <2> QED
      BY <1>2, <1>5, <1>6, <2>1, SendOpened DEF Bridging
  <1>8. /\ r \in Session /\ Bridging(r) /\ SameRest(c, r)
        /\ r.sock[s] = c.sock[s] /\ r.conn[s].out = q.conn[s].out
        /\ r.sock[o].in = q.sock[o].in /\ r.sock[o].sent = q.sock[o].sent
        /\ r.sock[o].peer = q.sock[o].peer
        /\ r.paused[o] = q.paused[o]
        /\ r.paused[s] => q.paused[s] \/ r.conn[o].out # <<>>
        /\ q.conn[o].out # <<>> => r.conn[o].out # <<>>
        /\ r.queue = q.queue \/ r.queue = Append(q.queue, Complete(o))
        /\ Len(r.conn[o].out) <= Len(q.conn[o].out) + 1
        /\ \/ Deaf(c, o) /\ r = c
           \/ ~Deaf(c, o) /\ Flow(r, o) = Flow(c, o) \o e
    <2>1. r \in Session /\ Opened(r) /\ SameRest(c, r) /\ c.pending = <<>>
      BY <1>5, <1>7 DEF Sent, Bridging
    <2>2. Bridging(r)
      BY <2>1 DEF Bridging, SameRest
    <2>3. /\ r.sock[s] = c.sock[s] /\ r.conn[s].out = c.conn[s].out
          /\ r.sock[o].in = c.sock[o].in /\ r.sock[o].sent = c.sock[o].sent
          /\ r.sock[o].peer = c.sock[o].peer
          /\ r.paused[o] = c.paused[o]
          /\ r.paused[s] => c.paused[s] \/ r.conn[o].out # <<>>
          /\ c.conn[o].out # <<>> => r.conn[o].out # <<>>
      BY <1>0, <1>7 DEF Sent
    <2>4. /\ r.queue = c.queue \/ r.queue = Append(c.queue, Complete(o))
          /\ Len(r.conn[o].out) <= Len(c.conn[o].out) + Len(e)
          /\ \/ Deaf(c, o) /\ r = c
             \/ ~Deaf(c, o) /\ Flow(r, o) = Flow(c, o) \o e
      BY <1>7 DEF Sent
    <2>5. Len(r.conn[o].out) <= Len(q.conn[o].out) + 1
      BY <1>2, <1>3, <2>4
    <2>6. /\ r.conn[s].out = q.conn[s].out
          /\ r.sock[o].in = q.sock[o].in /\ r.sock[o].sent = q.sock[o].sent
          /\ r.sock[o].peer = q.sock[o].peer
          /\ r.paused[o] = q.paused[o]
          /\ r.paused[s] => q.paused[s] \/ r.conn[o].out # <<>>
          /\ q.conn[o].out # <<>> => r.conn[o].out # <<>>
          /\ r.queue = q.queue \/ r.queue = Append(q.queue, Complete(o))
      BY <1>0, <1>2, <2>3, <2>4
    <2> QED
      BY <2>1, <2>2, <2>3, <2>4, <2>5, <2>6
  <1>9. Flow(c, o) = Flow(q, o) /\ (Deaf(c, o) <=> Deaf(q, o))
    BY <1>2 DEF Flow, Deaf, WriteFails
  <1>10. Ordered(r, s)
    <2>1. Passed(q, r, s, e)
      BY <1>2, <1>3, <1>8 DEF Passed
    <2>2. SentOn(q, r, s, e) \/ Dropped(q, r, s)
      <3>1. CASE Deaf(c, o) /\ r = c
        BY <1>0, <1>9, <3>1 DEF Dropped
      <3>2. CASE ~Deaf(c, o) /\ Flow(r, o) = Flow(c, o) \o e
        BY <1>0, <1>8, <1>9, <3>2 DEF SentOn, Waiting, Bridging, Opened
      <3> QED
        BY <1>8, <3>1, <3>2
    <2>3. Ordered(q, s) /\ e \in Seq(1 .. MaxSent)
      BY DEF Sound, Chunks
    <2> QED
      BY <1>8, <2>1, <2>2, <2>3, OrderedRead
  <1>11. Ordered(r, o)
    <2>1. Ordered(q, o)
      BY DEF Sound
    <2>2. Flow(r, s) = Flow(q, s)
      BY <1>2, <1>8 DEF Flow
    <2>3. Deaf(q, s) => Deaf(r, s)
      <3>1. r.conn[s].state = "kConnected" /\ q.conn[s].state = "kConnected"
        BY <1>8 DEF Bridging, Opened, Flowing
      <3> QED
        BY <1>2, <1>8, <3>1 DEF Deaf, WriteFails
    <2>4. r.pending = q.pending /\ (q.tearing => r.tearing)
      BY <1>2, <1>8 DEF SameRest
    <2> QED
      BY ZenonT(30), <1>0, <1>8, <2>1, <2>2, <2>3, <2>4, OrderedKept
  <1>12. Bounded(r)
    <2>1. PICK a \in Nat, b \in Nat : a = Len(q.conn[o].out) /\ b = Len(r.conn[o].out)
      BY <1>8, LengthIsNat
    <2>2. b <= a + 1 /\ HighWater \in Nat
      BY <1>8, <2>1, ProxyAssumption
    <2>3. PICK f \in Nat : f = q.flushed /\ f = r.flushed
      BY <1>2, <1>8 DEF Session, SameRest
    <2>4. ~q.paused[s] => ~(a >= HighWater)
      BY <1>0, <2>1 DEF Bridging, Opened, Flowing
    <2>5. ~q.paused[s] => b <= HighWater
      BY <2>1, <2>2, <2>4
    <2>6. CASE s = "up" /\ o = "down"
      <3>1. b <= HighWater
        BY <2>5, <2>6
      <3> QED
        BY <1>8, <2>1, <2>3, <2>6, <3>1 DEF Sound, Bounded
    <2>7. CASE s = "down" /\ o = "up"
      <3>1. q.paused[s] => a < f
        BY <2>1, <2>3, <2>7
      <3>2. b <= HighWater \/ b <= f
        <4>1. CASE q.paused[s]
          <5>1. a < f /\ b <= a + 1
            BY <2>2, <3>1, <4>1
          <5> QED
            BY <5>1
        <4> QED
          BY <2>5, <4>1
      <3> QED
        BY <1>8, <2>1, <2>3, <2>7, <3>2 DEF Sound, Bounded
    <2> QED
      BY <1>0, <2>6, <2>7 DEF Sides, Other
  <1>13. Sound(r)
    BY <1>4, <1>8, <1>10, <1>11, <1>12 DEF Sound, Staged
  <1>14. r.sock["up"].peer = q.sock["up"].peer
    BY <1>2, <1>4, <1>8 DEF Sides
  <1> QED
    BY ZenonT(30), <1>0, <1>2, <1>8, <1>13, <1>14 DEF Read, SameRest, Bridging, Opened

\* The upstream connection comes up, and what waited goes first.
LEMMA ConnectSound ==
  ASSUME NEW q \in Session, Sound(q), Connecting(q), NEW r, r = OnUpstreamConnected(q)
  PROVE  /\ r \in Session /\ Sound(r) /\ Bridging(r)
         /\ ~r.paused["up"]
         /\ r.paused["down"] => /\ r.conn["up"].out # <<>>
                                /\ Len(r.conn["up"].out) < r.flushed
         /\ r.queue = q.queue \/ r.queue = Append(q.queue, Complete("up"))
         /\ r.sock["up"].peer = q.sock["up"].peer
  <1>0. /\ "down" \in Sides /\ "up" \in Sides
        /\ Other("down") = "up" /\ Other("up") = "down"
    BY DEF Sides, Other
  <1>1. PICK w \in Seq(1 .. MaxSent) : w = q.pending /\ Len(w) \in Nat
    BY <1>0, SessionFields DEF Chunks
  <1>2. PICK k \in Connections :
          /\ k = Established(TRUE) /\ k.state = "kConnected" /\ k.out = <<>> /\ k.flow
          /\ InStep(k.ch) /\ ~IsWriting(k.ch)
    <2>1. EnableReading(NewChannel) \in ChannelType
      <3>1. NewChannel \in ChannelType
        BY DEF NewChannel, ChannelType, EventBits
      <3> QED
        BY <3>1, ChannelFacts
    <2>2. /\ InStep(EnableReading(NewChannel))
          /\ ~IsWriting(EnableReading(NewChannel))
      BY DEF InStep, IsWriting, EnableReading, NewChannel, UpdateChannel, EpollAdd
    <2>3. <<>> \in Chunks
      BY DEF Chunks
    <2>4. Established(TRUE) \in Connections
      BY <2>1, <2>3 DEF Established, Connections
    <2> QED
      BY <2>2, <2>4 DEF Established
  <1>3. PICK d : d = [q EXCEPT !.conn["up"] = k, !.client = "connected",
                               !.upConn = TRUE, !.upReady = TRUE, !.flushed = Len(w)]
    OBVIOUS
  <1>4. d \in Session
    <2>1. [q.conn EXCEPT !["up"] = k] \in [Sides -> Connections]
      BY <1>0 DEF Session
    <2> QED
      BY <1>1, <1>3, <2>1 DEF Session
  <1>5. /\ d.conn["up"] = k /\ d.conn["down"] = q.conn["down"] /\ d.sock = q.sock
        /\ d.client = "connected" /\ d.upConn /\ d.upReady /\ d.flushed = Len(w)
        /\ d.downConn = q.downConn /\ d.tearing = q.tearing /\ d.pending = q.pending
        /\ d.queue = q.queue /\ d.paused = q.paused
    BY <1>0, <1>3 DEF Session
  <1>6. r = IF w = <<>> THEN d ELSE [SendInLoop(d, "up", w) EXCEPT !.pending = <<>>]
    BY <1>1, <1>2, <1>3 DEF OnUpstreamConnected
  <1>7. Opened(d)
    <2>1. ~(Len(<<>>) >= HighWater)
      BY ProxyAssumption
    <2>2. d.conn["up"].out = <<>> /\ d.conn["down"].out = <<>>
      BY <1>2, <1>5 DEF Connecting
    <2>3. Flowing(d, "up")
      <3>1. d.conn["up"].state = "kConnected" /\ Serving(d, "up")
        BY <1>2, <1>5 DEF Serving
      <3>2. ~d.sock["up"].wrShut /\ ~d.paused["up"]
        BY <1>5 DEF Connecting, Untouched
      <3> QED
        BY <1>0, <2>1, <2>2, <3>1, <3>2 DEF Flowing
    <2>4. Flowing(d, "down")
      <3>1. /\ d.conn["down"].state = "kConnected" /\ Serving(d, "down")
            /\ ~d.sock["down"].wrShut /\ ~d.paused["down"]
        BY <1>5 DEF Connecting, Serving
      <3> QED
        BY <1>0, <2>1, <2>2, <3>1 DEF Flowing
    <2> QED
      BY <1>5, <2>3, <2>4 DEF Opened, Connecting, Sides
  <1>8. \A s \in Sides : Flow(d, s) = Flow(q, s)
    BY <1>2, <1>5 DEF Flow, Sides, Connecting, Untouched
  <1>9. Deaf(q, "down") => Deaf(d, "down")
    BY <1>5 DEF Deaf, WriteFails
  <1>10. Flow(q, "up") = <<>> /\ q.sock["up"].room > 0 /\ ~Deaf(d, "up")
    <2>1. Flow(q, "up") = <<>>
      BY DEF Flow, Connecting, Untouched
    <2>2. q.sock["up"].room > 0
      BY ProxyAssumption DEF Connecting, Untouched
    <2>3. ~Deaf(d, "up")
      BY <1>2, <1>5 DEF Deaf, WriteFails, Connecting, Untouched
    <2> QED
      BY <2>1, <2>2, <2>3
  <1>11. CASE w = <<>>
    <2>1. r = d
      BY <1>6, <1>11
    <2>2. Bridging(r)
      BY <1>1, <1>5, <1>7, <1>11, <2>1 DEF Bridging
    <2>3. Bounded(r)
      <3>1. r.conn["up"].out = <<>> /\ r.conn["down"].out = <<>>
        BY <1>2, <1>5, <2>1 DEF Connecting
      <3>2. Len(<<>>) <= HighWater
        BY ProxyAssumption
      <3> QED
        BY <3>1, <3>2 DEF Bounded
    <2>4. Ordered(r, "down")
      <3>1. Ordered(q, "down") /\ ~Deaf(q, "up") /\ ~q.tearing
        BY <1>0 DEF Sound, Deaf, WriteFails, Connecting, Untouched
      <3> QED
        BY <1>0, <1>5, <1>8, <2>1, <3>1 DEF Ordered, Waiting
    <2>5. Ordered(r, "up")
      <3>1. Ordered(q, "up")
        BY <1>0 DEF Sound
      <3> QED
        BY <1>0, <1>5, <1>8, <1>9, <2>1, <3>1 DEF Ordered, Waiting
    <2>6. Sound(r)
      BY <2>2, <2>3, <2>4, <2>5 DEF Sound, Staged, Sides
    <2> QED
      BY <1>4, <1>5, <2>1, <2>2, <2>6 DEF Connecting
  <1>12. CASE w # <<>>
    <2>1. w \in Chunks /\ Len(w) > 0
      BY <1>12 DEF Chunks
    <2>2. PICK e : e = SendInLoop(d, "up", w)
      OBVIOUS
    <2>3. Sent(d, e, "up", w)
      BY <1>0, <1>1, <1>4, <1>7, <1>12, <2>1, <2>2, SendOpened
    <2>4. /\ e \in Session /\ Opened(e) /\ SameRest(d, e)
          /\ e.sock["down"] = q.sock["down"] /\ e.conn["down"].out = q.conn["down"].out
          /\ e.sock["up"].in = q.sock["up"].in /\ e.sock["up"].sent = q.sock["up"].sent
          /\ e.sock["up"].peer = q.sock["up"].peer
          /\ e.paused["up"] = q.paused["up"]
          /\ e.paused["down"] => q.paused["down"] \/ e.conn["up"].out # <<>>
          /\ e.queue = q.queue \/ e.queue = Append(q.queue, Complete("up"))
          /\ Len(e.conn["up"].out) < Len(w)
          /\ Flow(e, "up") = Flow(d, "up") \o w
      BY ZenonT(30), <1>0, <1>2, <1>5, <1>10, <2>3 DEF Sent
    <2>5. r = [e EXCEPT !.pending = <<>>]
      BY <1>6, <1>12, <2>2
    <2>6. /\ r \in Session /\ r.conn = e.conn /\ r.sock = e.sock /\ r.paused = e.paused
          /\ r.queue = e.queue /\ r.flushed = Len(w) /\ r.pending = <<>>
          /\ r.upConn /\ r.upReady /\ r.downConn = q.downConn /\ r.tearing = q.tearing
          /\ r.client = "connected"
      <3>1. <<>> \in Chunks
        BY DEF Chunks
      <3> QED
        BY ZenonT(30), <1>5, <2>4, <2>5, <3>1 DEF Session, SameRest
    <2>7. Bridging(r)
      BY <2>4, <2>6 DEF Bridging, Opened, Flowing, Serving, Connecting
    <2>8. Bounded(r)
      <3>1. r.conn["down"].out = <<>> /\ Len(<<>>) = 0
        BY <2>4, <2>6 DEF Connecting
      <3>2. Len(r.conn["up"].out) \in Nat
        BY <1>0, <2>6, LengthIsNat
      <3>3. Len(r.conn["up"].out) <= r.flushed
        BY <1>1, <2>4, <2>6, <3>2
      <3> QED
        BY <3>1, <3>3, ProxyAssumption DEF Bounded
    <2>9. Ordered(r, "down")
      <3>1. Ordered(q, "down") /\ ~Deaf(q, "up") /\ ~q.tearing
        BY <1>0 DEF Sound, Deaf, WriteFails, Connecting, Untouched
      <3>2. <<>> \o w = w /\ w \o <<>> = w
        OBVIOUS
      <3>3. Flow(r, "up") = w
        BY <1>0, <1>8, <1>10, <2>4, <2>6, <3>2 DEF Flow
      <3>4. Waiting(r, "down") = <<>> /\ Waiting(q, "down") = w
        BY <1>1, <2>6 DEF Waiting
      <3>5. /\ r.sock["down"] = q.sock["down"]
            /\ \/ q.sock["down"].sent = w \o q.sock["down"].in
               \/ /\ q.sock["down"].peer = "rst" /\ q.sock["down"].in = <<>>
                  /\ IsPrefix(w, q.sock["down"].sent)
        BY <1>0, <1>10, <2>4, <2>6, <3>1, <3>2, <3>4 DEF Ordered
      <3>6. IsPrefix(w, q.sock["down"].sent)
        <4>1. CASE q.sock["down"].sent = w \o q.sock["down"].in
          <5>1. PICK i \in Seq(1 .. MaxSent) : i = q.sock["down"].in
            BY <1>0, SessionFields DEF Chunks
          <5>2. IsPrefix(w, w \o i)
            BY PrefixFacts
          <5> QED
            BY <4>1, <5>1, <5>2
        <4> QED
          BY <3>5, <4>1
      <3> QED
        BY <1>0, <3>2, <3>3, <3>4, <3>5, <3>6 DEF Ordered
    <2>10. Ordered(r, "up")
      <3>1. Ordered(q, "up")
        BY <1>0 DEF Sound
      <3>2. Flow(r, "down") = Flow(q, "down")
        BY <2>4, <2>6 DEF Flow
      <3>3. Deaf(q, "down") => Deaf(r, "down")
        BY <2>4, <2>6 DEF Deaf, WriteFails, Connecting
      <3> QED
        BY ZenonT(30), <1>0, <2>4, <2>6, <3>1, <3>2, <3>3 DEF Ordered, Waiting
    <2>11. Sound(r)
      BY <2>7, <2>8, <2>9, <2>10 DEF Sound, Staged, Sides
    <2> QED
      BY <2>4, <2>6, <2>7, <2>11 DEF Connecting
  <1> QED
    BY <1>11, <1>12

\* The peer of side s has changed the socket.
WithSocket(q, s, k) == [q EXCEPT !.sock[s] = k]

\* It changes nothing else.
LEMMA SocketFacts ==
  ASSUME NEW q \in Session, NEW s \in Sides, NEW k \in Sockets,
         NEW r, r = WithSocket(q, s, k)
  PROVE  /\ r \in Session /\ SameRest(q, r) /\ r.conn = q.conn
         /\ r.paused = q.paused /\ r.queue = q.queue
         /\ r.sock[s] = k /\ r.sock[Other(s)] = q.sock[Other(s)]
  <1>0. Other(s) \in Sides /\ Other(s) # s
    BY SessionFields
  <1>1. [q.sock EXCEPT ![s] = k] \in [Sides -> Sockets]
    BY DEF Session
  <1>2. r \in Session
    BY <1>1 DEF WithSocket, Session
  <1>3. /\ SameRest(q, r) /\ r.conn = q.conn
        /\ r.paused = q.paused /\ r.queue = q.queue
        /\ r.sock[s] = k /\ r.sock[Other(s)] = q.sock[Other(s)]
    BY <1>0 DEF WithSocket, Session, SameRest
  <1> QED
    BY <1>2, <1>3

\* What a peer can do to socket j, which becomes k: read, send, close, reset.
ByPeer(j, k) ==
    /\ k.got = j.got /\ k.wrShut = j.wrShut
    /\ \/ k.in = j.in /\ k.sent = j.sent /\ k.peer = j.peer
       \/ /\ j.peer = "open" /\ k.peer = "open"
          /\ \E n \in 1 .. MaxSent : k.in = Append(j.in, n) /\ k.sent = Append(j.sent, n)
       \/ j.peer = "open" /\ k.peer = "fin" /\ k.in = j.in /\ k.sent = j.sent
       \/ k.peer = "rst" /\ k.in = <<>> /\ k.sent = j.sent

\* The order of the data of a peer that sends, closes or resets.
LEMMA OrderedPeer ==
  ASSUME NEW q \in Session, NEW r \in Session, NEW s \in Sides, Ordered(q, s),
         ByPeer(q.sock[s], r.sock[s]),
         SameRest(q, r), SameSide(q, r, Other(s))
  PROVE  Ordered(r, s)
  <1>0. PICK o \in Sides : o = Other(s)
    BY SessionFields
  <1>1. PICK in \in Seq(1 .. MaxSent), sent \in Seq(1 .. MaxSent) :
          in = q.sock[s].in /\ sent = q.sock[s].sent
    BY SessionFields DEF Chunks
  <1>2. PICK flow \in Seq(1 .. MaxSent), wait \in Seq(1 .. MaxSent) :
          flow = Flow(q, o) /\ wait = Waiting(q, s)
    BY FlowType
  <1>3. /\ Flow(r, o) = flow /\ Waiting(r, s) = wait
        /\ Deaf(r, o) <=> Deaf(q, o)
        /\ r.tearing = q.tearing
    BY <1>0, <1>2, DeafSame DEF SameRest, Waiting
  <1>4. /\ IsPrefix(flow, sent)
        /\ \/ sent = flow \o wait \o in
           \/ Deaf(q, o) \/ q.tearing
           \/ /\ q.sock[s].peer = "rst" /\ in = <<>>
              /\ IsPrefix(flow \o wait, sent)
    BY <1>0, <1>1, <1>2 DEF Ordered
  <1>5. flow \o wait \in Seq(1 .. MaxSent)
    OBVIOUS
  <1>6. PICK fw \in Seq(1 .. MaxSent) : fw = flow \o wait
    BY <1>5
  <1>7. CASE /\ r.sock[s].in = in /\ r.sock[s].sent = sent
             /\ \/ r.sock[s].peer = q.sock[s].peer
                \/ q.sock[s].peer = "open"
    BY <1>0, <1>3, <1>4, <1>7 DEF Ordered
  <1>8. CASE /\ q.sock[s].peer = "open"
             /\ \E n \in 1 .. MaxSent : /\ r.sock[s].in = Append(in, n)
                                        /\ r.sock[s].sent = Append(sent, n)
    <2>1. PICK n \in 1 .. MaxSent : /\ r.sock[s].in = Append(in, n)
                                    /\ r.sock[s].sent = Append(sent, n)
      BY <1>8
    <2>2. <<n>> \in Seq(1 .. MaxSent)
      OBVIOUS
    <2>3. PICK e \in Seq(1 .. MaxSent) : e = <<n>>
      BY <2>2
    <2>4. Append(in, n) = in \o <<n>> /\ Append(sent, n) = sent \o <<n>>
      <3>1. Append(in, n) = in \o <<n>>
        OBVIOUS
      <3>2. Append(sent, n) = sent \o <<n>>
        OBVIOUS
      <3> QED
        BY <3>1, <3>2
    <2>5. IsPrefix(flow, sent \o e)
      BY <1>4, PrefixFacts
    <2>6. (fw \o in) \o e = fw \o (in \o e)
      BY SMTT(30)
    <2>7. sent = fw \o in => sent \o e = fw \o (in \o e)
      BY <2>6
    <2>8. sent = fw \o in \/ Deaf(q, o) \/ q.tearing
      BY <1>4, <1>6, <1>8
    <2> QED
      BY <1>0, <1>3, <1>6, <2>1, <2>3, <2>4, <2>5, <2>7, <2>8 DEF Ordered
  <1>9. CASE /\ r.sock[s].peer = "rst" /\ r.sock[s].in = <<>> /\ r.sock[s].sent = sent
    <2>1. sent = fw \o in => IsPrefix(fw, sent)
      BY PrefixFacts
    <2> QED
      BY <1>0, <1>3, <1>4, <1>6, <1>9, <2>1 DEF Ordered
  <1> QED
    BY <1>1, <1>7, <1>8, <1>9 DEF ByPeer

\* The peers keep the session sound.
LEMMA PeerSound ==
  ASSUME NEW q \in Session, NEW s \in Sides, NEW k \in Sockets, Sound(q),
         ByPeer(q.sock[s], k), s = "up" => q.client = "connected",
         NEW r, r = WithSocket(q, s, k)
  PROVE  /\ r \in Session /\ Sound(r) /\ SameRest(q, r) /\ r.conn = q.conn
         /\ r.paused = q.paused /\ r.queue = q.queue
         /\ q.sock["up"].peer = "rst" => r.sock["up"].peer = "rst"
  <1>0. PICK o \in Sides : o = Other(s) /\ o # s /\ s = Other(o)
    BY SessionFields
  <1>1. /\ r \in Session /\ SameRest(q, r) /\ r.conn = q.conn
        /\ r.paused = q.paused /\ r.queue = q.queue
        /\ r.sock[s] = k /\ r.sock[o] = q.sock[o]
    BY <1>0, SocketFacts
  <1>2. (s = "up" /\ o = "down") \/ (s = "down" /\ o = "up")
    BY <1>0 DEF Sides, Other
  <1>3. /\ k.got = q.sock[s].got /\ k.wrShut = q.sock[s].wrShut
        /\ q.sock[s].peer # "open" => k.peer # "open" /\ k.sent = q.sock[s].sent
        /\ q.sock[s].peer = "rst" => k.peer = "rst"
    BY DEF ByPeer
  <1>4. \A t \in Sides : t = s \/ t = o
    BY <1>2 DEF Sides
  <1>5. \A t \in Sides : /\ Flow(r, t) = Flow(q, t)
                         /\ r.sock[t].wrShut = q.sock[t].wrShut
                         /\ q.sock[t].peer = "rst" => r.sock[t].peer = "rst"
                         /\ Deaf(q, t) => Deaf(r, t)
    BY <1>1, <1>3, <1>4 DEF Flow, Deaf, WriteFails
  <1>6. Ordered(r, s)
    <2>1. Ordered(q, s) /\ ByPeer(q.sock[s], r.sock[s]) /\ SameSide(q, r, o)
      BY <1>1 DEF Sound, SameSide
    <2> QED
      BY <1>0, <1>1, <2>1, OrderedPeer
  <1>7. Ordered(r, o)
    <2>1. Ordered(q, o)
      BY DEF Sound
    <2>2. /\ r.sock[o].sent = q.sock[o].sent /\ r.sock[o].in = q.sock[o].in
          /\ r.sock[o].peer = q.sock[o].peer
          /\ r.pending = q.pending /\ (q.tearing => r.tearing)
      BY <1>1 DEF SameRest
    <2> QED
      BY <1>0, <1>5, <2>1, <2>2, OrderedKept
  <1>8. Bounded(r)
    BY <1>1 DEF Sound, Bounded, SameRest
  <1>9. Staged(r)
    <2>1. CASE Connecting(q)
      <3>1. s = "down" /\ o = "up"
        BY <1>2, <2>1 DEF Connecting
      <3>2. Connecting(r)
        BY <1>1, <1>3, <2>1, <3>1 DEF Connecting, Untouched, Serving, SameRest
      <3> QED
        BY <3>2 DEF Staged
    <2>2. CASE Bridging(q)
      <3>1. Bridging(r)
        BY <1>1, <1>5, <2>2 DEF Bridging, Opened, Flowing, Serving, SameRest
      <3> QED
        BY <3>1 DEF Staged
    <2>3. CASE HalfClosed(q)
      <3>1. /\ r.sock["up"].peer # "open" /\ r.sock["up"].sent = q.sock["up"].sent
            /\ r.sock["up"].peer = "fin" => q.sock["up"].peer = "fin"
            /\ r.sock["down"].peer # "rst" => q.sock["down"].peer # "rst"
        <4>1. CASE s = "up" /\ o = "down"
          <5>1. k.peer = "fin" => q.sock["up"].peer = "fin"
            BY <1>3, <2>3, <4>1 DEF ByPeer, HalfClosed
          <5> QED
            BY <1>1, <1>3, <2>3, <4>1, <5>1 DEF HalfClosed
        <4>2. CASE s = "down" /\ o = "up"
          BY <1>1, <1>3, <2>3, <4>2 DEF HalfClosed
        <4> QED
          BY <1>2, <4>1, <4>2
      <3>2. /\ r.sock["down"].wrShut = q.sock["down"].wrShut
            /\ r.sock["up"].wrShut = q.sock["up"].wrShut
            /\ Flow(r, "down") = Flow(q, "down")
        BY <1>5 DEF Sides
      <3>3. Serving(r, "down") <=> Serving(q, "down")
        BY <1>1 DEF Serving
      <3>4. HalfClosed(r)
        BY <1>1, <2>3, <3>1, <3>2, <3>3 DEF HalfClosed, SameRest
      <3> QED
        BY <3>4 DEF Staged
    <2>4. CASE Torn(q)
      <3>1. Torn(r)
        BY <1>1, <1>5, <2>4 DEF Torn, SameRest, Sides
      <3> QED
        BY <3>1 DEF Staged
    <2> QED
      BY <2>1, <2>2, <2>3, <2>4 DEF Sound, Staged
  <1>10. Sound(r)
    BY <1>4, <1>6, <1>7, <1>8, <1>9 DEF Sound
  <1> QED
    BY <1>1, <1>5, <1>10 DEF Sides

-----------------------------------------------------------------------------
(* Functors and events.                                                    *)

\* The queue has kept its functors, and f may have joined them.
Joined(q, r, f) == r.queue = q.queue \/ r.queue = Append(q.queue, f)

\* Who is queued after a functor has joined.
LEMMA JoinedFacts ==
  ASSUME NEW q \in Session, NEW r, NEW run, NEW f \in Functors, Joined(q, r, f)
  PROVE  /\ \A g : Queued(q, run, g) => Queued(r, run, g)
         /\ \A g : Queued(r, run, g) => Queued(q, run, g) \/ g = f
         /\ r.queue = Append(q.queue, f) => Queued(r, run, f)
  <1>1. PICK a \in Seq(Functors) : a = q.queue
    BY DEF Session
  <1>2. \A g : g \in Range(Append(a, f)) <=> g \in Range(a) \/ g = f
    BY RangeFacts
  <1> QED
    BY <1>1, <1>2 DEF Joined, Queued

\* The functors are distinct.
LEMMA FunctorNames ==
  /\ \A s \in Sides : Complete(s) \in Functors /\ Destroy(s) \in Functors
  /\ \A s, t \in Sides : Complete(s) # Destroy(t)
  /\ Destroy("up") # Destroy("down")
  BY DEF Complete, Destroy, Functors, Sides

\* With the upstream connection held, both connections are up.
LEMMA HeldIsBridging ==
  ASSUME NEW q, Sound(q), q.upConn
  PROVE  Bridging(q)
  BY DEF Sound, Staged, Connecting, HalfClosed, Torn

\* Paused reading that had a resume coming has one still.
Resumable(q, r, run) ==
    \A t \in Sides :
       r.upConn /\ r.paused[t] =>
          \/ r.conn[Other(t)].out # <<>>
          \/ /\ q.paused[t]
             /\ q.conn[Other(t)].out = <<>> \/ Queued(r, run, Complete(Other(t)))

\* While two connections are up, functors stay in time when a write-complete
\* joins them and output is neither lost nor forgotten.
LEMMA FunctorsOpen ==
  ASSUME NEW q \in Session, NEW r, NEW run, NEW s \in Sides, FunctorsIn(q, run),
         q.tearing => r.tearing, r.upConn = q.upConn, r.client = q.client,
         Joined(q, r, Complete(s)), Resumable(q, r, run)
  PROVE  FunctorsIn(r, run)
  <1>1. /\ \A g : Queued(q, run, g) => Queued(r, run, g)
        /\ \A g : Queued(r, run, g) => Queued(q, run, g) \/ g = Complete(s)
    <2>1. PICK f \in Functors : f = Complete(s)
      BY FunctorNames
    <2>2. Joined(q, r, f)
      BY <2>1
    <2>3. \A g : Queued(q, run, g) => Queued(r, run, g)
      BY <2>2, JoinedFacts
    <2>4. \A g : Queued(r, run, g) => Queued(q, run, g) \/ g = f
      BY <2>2, JoinedFacts
    <2> QED
      BY <2>1, <2>3, <2>4
  <1>2. /\ Queued(r, run, Destroy("down")) => Queued(q, run, Destroy("down"))
        /\ Queued(r, run, Destroy("up")) => Queued(q, run, Destroy("up"))
    BY <1>1, FunctorNames DEF Sides
  <1>3. ASSUME NEW t \in Sides, r.upConn, r.paused[t]
        PROVE  r.conn[Other(t)].out # <<>> \/ Queued(r, run, Complete(Other(t)))
    BY <1>1, <1>3 DEF FunctorsIn, Resumable
  <1> QED
    BY <1>2, <1>3 DEF FunctorsIn

\* When a connection has closed, its destruction may be queued.
LEMMA FunctorsClosed ==
  ASSUME NEW q \in Session, NEW r, NEW run, NEW s \in Sides, FunctorsIn(q, run),
         q.tearing => r.tearing, ~r.upConn, r.client # "connecting",
         s = "down" => r.tearing,
         Joined(q, r, Destroy(s))
  PROVE  FunctorsIn(r, run)
  <1>1. \A g : Queued(r, run, g) => Queued(q, run, g) \/ g = Destroy(s)
    BY ZenonT(30), JoinedFacts, FunctorNames
  <1>2. Queued(r, run, Destroy("down")) => r.tearing
    BY <1>1, FunctorNames DEF FunctorsIn, Sides
  <1> QED
    BY <1>2 DEF FunctorsIn

\* Events stay in time when none is added and the session moves on.
LEMMA EventsKept ==
  ASSUME NEW q, NEW r, NEW b, NEW c, NEW b1, NEW c1, EventsIn(q, b, c),
         b1 \subseteq b,
         c1.revents # {} => \A e \in b1 : e.side # c1.side,
         q.sock["up"].peer = "rst" => r.sock["up"].peer = "rst",
         r.client = "connected" /\ ~r.upConn => ~ReadDue(b1, c1, "up"),
         r.upConn /\ r.paused["up"] => ~ReadDue(b1, c1, "up"),
         r.upConn /\ r.paused["down"] /\ ReadDue(b1, c1, "down") =>
            Len(r.conn["up"].out) < r.flushed
  PROVE  EventsIn(r, b1, c1)
  BY DEF EventsIn

\* A read that is due was due before.
LEMMA DueBefore ==
  ASSUME NEW b, NEW c, NEW b1, NEW c1, NEW s, ReadDue(b1, c1, s), b1 \subseteq b,
         c1.side = s => "IN" \notin c1.revents
  PROVE  ReadDue(b, c, s)
  BY DEF ReadDue

-----------------------------------------------------------------------------
(* The steps.                                                              *)

\* The initial state.
LEMMA InitSession == Init => SessionInv
  <1> SUFFICES ASSUME Init PROVE SessionInv
    OBVIOUS
  <1>1. EnableReading(NewChannel) \in ChannelType /\ NewChannel \in ChannelType
    <2>1. NewChannel \in ChannelType
      BY DEF NewChannel, ChannelType, EventBits
    <2> QED
      BY <2>1, ChannelFacts
  <1>2. /\ InStep(EnableReading(NewChannel))
        /\ ~IsWriting(EnableReading(NewChannel))
    BY DEF InStep, IsWriting, EnableReading, NewChannel, UpdateChannel, EpollAdd
  <1>3. <<>> \in Chunks /\ <<>> \in Seq(Functors)
    BY DEF Chunks
  <1>4. Established(TRUE) \in Connections /\ NoConnection \in Connections
    BY <1>1, <1>3 DEF Established, NoConnection, Connections
  <1>5. PICK k \in Sockets :
          k = [in |-> <<>>, room |-> Room, peer |-> "open",
               wrShut |-> FALSE, sent |-> <<>>, got |-> <<>>]
    <2>1. Room \in 0 .. Room
      BY ProxyAssumption
    <2> QED
      BY <1>3, <2>1 DEF Sockets
  <1>6. PICK cc \in [Sides -> Connections] :
          cc = [s \in Sides |-> IF s = "down" THEN Established(TRUE) ELSE NoConnection]
    BY <1>4
  <1>7. PICK kk \in [Sides -> Sockets] : kk = [s \in Sides |-> k]
    OBVIOUS
  <1>8. PICK pp \in [Sides -> BOOLEAN] : pp = [s \in Sides |-> FALSE]
    OBVIOUS
  <1>9. p = [conn |-> cc, sock |-> kk, paused |-> pp, upReady |-> FALSE,
             upConn |-> FALSE, downConn |-> TRUE, tearing |-> FALSE,
             pending |-> <<>>, client |-> "connecting", queue |-> <<>>, flushed |-> 0]
    BY <1>5, <1>6, <1>7, <1>8 DEF Init
  <1>10. p \in Session
    BY <1>3, <1>9 DEF Session
  <1>11. /\ p.conn["down"] = Established(TRUE) /\ p.conn["up"] = NoConnection
         /\ p.sock["down"] = k /\ p.sock["up"] = k
         /\ ~p.paused["down"] /\ ~p.paused["up"]
         /\ p.queue = <<>> /\ p.pending = <<>> /\ ~p.upConn /\ ~p.upReady /\ p.downConn
         /\ ~p.tearing /\ p.client = "connecting"
    BY <1>6, <1>7, <1>8, <1>9 DEF Sides
  <1>12. /\ k.in = <<>> /\ k.sent = <<>> /\ k.got = <<>> /\ k.peer = "open"
         /\ ~k.wrShut /\ k.room = Room
    BY <1>5
  <1>13. Connecting(p)
    BY <1>2, <1>11, <1>12
       DEF Connecting, Serving, Untouched, Established, NoConnection
  <1>14. Bounded(p)
    <2>1. p.conn["down"].out = <<>> /\ p.conn["up"].out = <<>>
      BY <1>11 DEF Established, NoConnection
    <2>2. Len(<<>>) <= HighWater
      BY ProxyAssumption
    <2> QED
      BY <2>1, <2>2 DEF Bounded
  <1>15. \A s \in Sides : Ordered(p, s)
    <2> SUFFICES ASSUME NEW s \in Sides PROVE Ordered(p, s)
      OBVIOUS
    <2>1. \A t \in Sides : /\ p.conn[t].out = <<>> /\ p.sock[t].got = <<>>
                           /\ p.sock[t].sent = <<>> /\ p.sock[t].in = <<>>
      BY <1>11, <1>12 DEF Sides, Established, NoConnection
    <2>2. <<>> \o <<>> = <<>>
      OBVIOUS
    <2>3. Other(s) \in Sides
      BY DEF Sides, Other
    <2>4. Flow(p, Other(s)) = <<>> /\ Waiting(p, s) = <<>>
      BY <1>11, <2>1, <2>2, <2>3 DEF Flow, Waiting
    <2>5. IsPrefix(<<>>, <<>>)
      BY DEF IsPrefix
    <2> QED
      BY <2>1, <2>2, <2>4, <2>5 DEF Ordered
  <1>16. Sound(p)
    BY <1>13, <1>14, <1>15 DEF Sound, Staged
  <1>17. running = <<>> /\ ready = {} /\ lpc = "poll" /\ batch = {} /\ current = Idle
    BY DEF Init
  <1>18. Idle \in Events /\ Idle.revents = {}
    BY DEF Idle, Events, Sides
  <1>19. FunctorsInTime
    <2>1. Range(<<>>) = {}
      BY DEF Range
    <2> QED
      BY <1>11, <1>17, <2>1 DEF FunctorsInTime, FunctorsIn, Queued
  <1>20. EventsInTime
    BY <1>11, <1>17, <1>18 DEF EventsInTime, EventsIn, ReadDue
  <1>21. Typed
    BY <1>3, <1>10, <1>17, <1>18 DEF Typed
  <1> QED
    BY <1>16, <1>19, <1>20, <1>21 DEF SessionInv

\* The event that is not being handled.
LEMMA IdleFacts == Idle \in Events /\ Idle.revents = {} /\ Idle.side = "down"
  BY DEF Idle, Events, Sides

\* A functor queue that has not changed.
LEMMA JoinedSame ==
  ASSUME NEW q, NEW r, NEW f, r.queue = q.queue
  PROVE  Joined(q, r, f)
  BY DEF Joined

\* A step of WriteEvent.
LEMMA WriteStep == ASSUME SessionInv, WriteEvent PROVE SessionInv'
  <1>0. PICK s \in Sides : s = current.side
    BY DEF SessionInv, Typed, Events
  <1>1. PICK o \in Sides : o = Other(s) /\ o # s /\ s = Other(o)
    BY <1>0, SessionFields DEF SessionInv, Typed
  <1>2. PICK r : r = HandleWrite(p, s)
    OBVIOUS
  <1>3. /\ p' = r /\ ready' \subseteq Sides /\ current' = Idle
        /\ lpc' = lpc /\ batch' = batch /\ running' = running
        /\ current.revents = {"OUT"}
    BY <1>0, <1>2 DEF WriteEvent, Becomes, SessionInv, Typed
  <1>4. p \in Session /\ Sound(p) /\ FunctorsIn(p, running) /\ EventsIn(p, batch, current)
    BY DEF SessionInv, Typed, FunctorsInTime, EventsInTime
  <1>5. \A t : ReadDue(batch, Idle, t) => ReadDue(batch, current, t)
    BY IdleFacts, DueBefore
  <1>6. r \in Session /\ Sound(r) /\ FunctorsIn(r, running) /\ EventsIn(r, batch, Idle)
    <2>1. CASE r = p
      <3>1. EventsIn(p, batch, Idle)
        BY <1>4, <1>5, IdleFacts DEF EventsIn
      <3> QED
        BY <1>4, <2>1, <3>1
    <2>2. CASE r # p
      <3>1. Emptied(p, r, s)
        BY <1>2, <1>4, <2>2, HandleWriteFacts
      <3>2. Sound(r) /\ r \in Session
        BY <1>4, <3>1, WriteSound DEF Emptied
      <3>3. /\ SameRest(p, r) /\ SameSide(p, r, o) /\ r.paused = p.paused
            /\ r.sock[s].peer = p.sock[s].peer
        BY <1>1, <3>1 DEF Emptied, SameElsewhere
      <3>4. FunctorsIn(r, running)
        <4>1. Joined(p, r, Complete(s))
          BY <3>1 DEF Emptied, Joined
        <4>2. Complete(s) \in Functors
          BY FunctorNames
        <4>3. r.queue = Append(p.queue, Complete(s)) => Queued(r, running, Complete(s))
          BY <1>4, <4>1, <4>2, JoinedFacts
        <4>4. Resumable(p, r, running)
          <5> SUFFICES ASSUME NEW t \in Sides, r.upConn, r.paused[t]
                       PROVE  \/ r.conn[Other(t)].out # <<>>
                              \/ /\ p.paused[t]
                                 /\ p.conn[Other(t)].out = <<>>
                                      \/ Queued(r, running, Complete(Other(t)))
            BY DEF Resumable
          <5>1. p.paused[t]
            BY <3>3
          <5>2. CASE t = s
            BY <1>1, <3>3, <5>1, <5>2 DEF SameSide
          <5>3. CASE t = o
            <6>1. p.conn[s].flow
              <7>1. Bridging(p)
                BY <1>4, <3>3, HeldIsBridging DEF SameRest
              <7> QED
                BY <7>1 DEF Bridging, Opened, Flowing, Serving
            <6> QED
              BY <1>1, <3>1, <4>3, <5>1, <5>3, <6>1 DEF Emptied
          <5> QED
            BY <1>1, <5>2, <5>3 DEF Sides, Other
        <4> QED
          BY <1>4, <3>3, <4>1, <4>4, FunctorsOpen DEF SameRest
      <3>5. EventsIn(r, batch, Idle)
        <4>1. r.sock["up"].peer = p.sock["up"].peer
          BY <1>1, <3>3 DEF Sides, Other, SameSide
        <4>2. PICK a \in Nat, b \in Nat : /\ a = Len(p.conn["up"].out)
                                          /\ b = Len(r.conn["up"].out) /\ b <= a
          <5>1. "up" \in Sides /\ ("up" = s \/ "up" = o)
            BY <1>1 DEF Sides, Other
          <5>2. Len(p.conn["up"].out) \in Nat /\ Len(r.conn["up"].out) \in Nat
            BY <1>4, <3>2, <5>1, LengthIsNat
          <5>3. Len(r.conn["up"].out) <= Len(p.conn["up"].out)
            <6>1. CASE "up" = s
              BY SMTT(30), <3>1, <5>2, <6>1 DEF Emptied
            <6>2. CASE "up" = o
              BY <3>3, <5>2, <6>2 DEF SameSide
            <6> QED
              BY <5>1, <6>1, <6>2
          <5> QED
            BY <5>2, <5>3
        <4>3. PICK f \in Nat : f = p.flushed /\ f = r.flushed
          BY <1>4, <3>3 DEF Session, SameRest
        <4>4. r.upConn /\ r.paused["down"] /\ ReadDue(batch, Idle, "down") => b < f
          <5>1. r.upConn /\ r.paused["down"] /\ ReadDue(batch, Idle, "down") => a < f
            BY <1>4, <1>5, <3>3, <4>2, <4>3 DEF EventsIn, SameRest
          <5> QED
            BY <4>2, <5>1
        <4>5. /\ r.client = "connected" /\ ~r.upConn => ~ReadDue(batch, Idle, "up")
              /\ r.upConn /\ r.paused["up"] => ~ReadDue(batch, Idle, "up")
          BY <1>4, <1>5, <3>3 DEF EventsIn, SameRest
        <4> QED
          BY <1>4, <4>1, <4>2, <4>3, <4>4, <4>5, IdleFacts, EventsKept
      <3> QED
        BY <3>2, <3>4, <3>5
    <2> QED
      BY <2>1, <2>2
  <1>7. lpc = "dispatch" /\ running = <<>>
    BY <1>3 DEF SessionInv, EventsInTime, FunctorsInTime
  <1> QED
    BY <1>3, <1>6, <1>7, IdleFacts
       DEF SessionInv, Typed, FunctorsInTime, EventsInTime

\* A close leaves everything in time, and holds no upstream connection.
LEMMA CloseFacts ==
  ASSUME NEW q \in Session, NEW s \in Sides, NEW run, Sound(q), FunctorsIn(q, run),
         s = "up" => \/ q.sock["up"].peer = "rst"
                     \/ q.sock["up"].peer # "open" /\ q.sock["up"].in = <<>>,
         NEW r, r = HandleClose(q, s)
  PROVE  \/ r = q
         \/ /\ r \in Session /\ Sound(r) /\ FunctorsIn(r, run) /\ ~r.upConn
            /\ r.sock["up"].peer = q.sock["up"].peer
            /\ s = "down" => r.client # "connected"
  <1> SUFFICES ASSUME r # q
               PROVE  /\ r \in Session /\ Sound(r) /\ FunctorsIn(r, run) /\ ~r.upConn
                      /\ r.sock["up"].peer = q.sock["up"].peer
                      /\ s = "down" => r.client # "connected"
    OBVIOUS
  <1>1. CASE s = "down"
    <2>1. /\ r \in Session /\ Sound(r) /\ Torn(r)
          /\ r.queue = Append(q.queue, Destroy(s))
          /\ r.sock["up"].peer = q.sock["up"].peer
      BY <1>1, CloseDownSound
    <2>2. FunctorsIn(r, run)
      BY <2>1, FunctorsClosed DEF Torn, Joined
    <2> QED
      BY <2>1, <2>2 DEF Torn
  <1>2. CASE s = "up"
    <2>1. /\ r \in Session /\ Sound(r) /\ HalfClosed(r)
          /\ r.queue = Append(q.queue, Destroy(s))
          /\ r.sock["up"].peer = q.sock["up"].peer
      BY <1>2, CloseUpSound
    <2>2. ~q.tearing
      <3>1. q.conn["up"].state = "kConnected"
        BY <1>2 DEF HandleClose
      <3> QED
        BY <3>1 DEF Sound, Staged, Connecting, Bridging, Opened, HalfClosed, Torn
    <2>3. FunctorsIn(r, run)
      BY <1>2, <2>1, <2>2, FunctorsClosed DEF HalfClosed, Joined
    <2> QED
      BY <1>2, <2>1, <2>3 DEF HalfClosed
  <1> QED
    BY <1>1, <1>2 DEF Sides

\* The event without its reading part.
Without(c) == [c EXCEPT !.revents = @ \ {"IN"}]

\* It is an event of the same side.
LEMMA WithoutFacts ==
  ASSUME NEW c \in Events
  PROVE  /\ Without(c) \in Events /\ Without(c).side = c.side
         /\ Without(c).revents = c.revents \ {"IN"}
  BY DEF Without, Events

\* Reads that are due when the current event has lost its reading part, or not.
LEMMA DueFacts ==
  ASSUME NEW b, NEW c \in Events, NEW c1, c1 = c \/ c1 = Without(c)
  PROVE  /\ \A t : ReadDue(b, c1, t) => ReadDue(b, c, t)
         /\ c1.side = c.side /\ (c1.revents # {} => c.revents # {})
         /\ c1 \in Events
         /\ c1 = Without(c) /\ (\A e \in b : e.side # c.side) => ~ReadDue(b, c1, c.side)
  BY WithoutFacts DEF ReadDue

\* A turn of HandleRead's loop that reads a chunk.
LEMMA ReadChunk ==
  ASSUME NEW q \in Session, Sound(q), NEW b, NEW c \in Events, EventsIn(q, b, c),
         "IN" \in c.revents, NEW s \in Sides, s = c.side, q.sock[s].in # <<>>,
         NEW r, r = OnData(Popped(q, s), s, <<Head(q.sock[s].in)>>)
  PROVE  Read(q, r, s)
  <1>0. ReadDue(b, c, s)
    BY DEF ReadDue
  <1>1. CASE Connecting(q)
    <2>1. s = "down"
      BY <1>1 DEF Connecting, Untouched, Sides
    <2> QED
      BY <1>1, <2>1, ReadPendingSound
  <1>2. CASE Bridging(q)
    <2>1. s = "up" => ~q.paused["up"]
      BY <1>0, <1>2 DEF EventsIn, Bridging, Opened
    <2>2. s = "down" /\ q.paused["down"] => Len(q.conn["up"].out) < q.flushed
      BY <1>0, <1>2 DEF EventsIn, Bridging, Opened
    <2> QED
      BY <1>2, <2>1, <2>2, ReadBridgingSound
  <1>3. CASE HalfClosed(q)
    <2>1. s = "down"
      BY <1>0, <1>3 DEF EventsIn, HalfClosed, Sides
    <2> QED
      BY <1>3, <2>1, ReadPendingSound
  <1>4. CASE Torn(q)
    BY <1>4, ReadTornSound
  <1> QED
    BY <1>1, <1>2, <1>3, <1>4 DEF Sound, Staged

\* After it, functors and events are still in time.
LEMMA ReadInTime ==
  ASSUME NEW q \in Session, NEW r, NEW s \in Sides, Read(q, r, s), NEW run,
         FunctorsIn(q, run), NEW b, NEW c \in Events, EventsIn(q, b, c),
         "IN" \in c.revents, s = c.side,
         NEW c1, c1 = IF IsReading(r.conn[s].ch) THEN c ELSE Without(c)
  PROVE  FunctorsIn(r, run) /\ EventsIn(r, b, c1)
  <1>0. PICK o \in Sides : o = Other(s) /\ o # s /\ s = Other(o)
    BY SessionFields
  <1>1. /\ r.upConn = q.upConn /\ r.tearing = q.tearing
        /\ r.client = q.client /\ r.flushed = q.flushed
        /\ r.sock["up"].peer = q.sock["up"].peer
    BY DEF Read
  <1>2. q.upConn => /\ Bridging(r)
                    /\ r.conn[s].out = q.conn[s].out
                    /\ r.paused[o] = q.paused[o]
                    /\ r.paused[s] => q.paused[s] \/ r.conn[o].out # <<>>
                    /\ q.conn[o].out # <<>> => r.conn[o].out # <<>>
    BY <1>0 DEF Read
  <1>3. FunctorsIn(r, run)
    <2>1. Joined(q, r, Complete(o))
      BY <1>0 DEF Read, Joined
    <2>2. Resumable(q, r, run)
      <3> SUFFICES ASSUME NEW t \in Sides, r.upConn, r.paused[t]
                   PROVE  \/ r.conn[Other(t)].out # <<>>
                          \/ /\ q.paused[t]
                             /\ q.conn[Other(t)].out = <<>>
                                  \/ Queued(r, run, Complete(Other(t)))
        BY DEF Resumable
      <3>1. CASE t = s
        BY <1>0, <1>1, <1>2, <3>1
      <3>2. CASE t = o
        BY <1>0, <1>1, <1>2, <3>2
      <3> QED
        BY <1>0, <3>1, <3>2 DEF Sides, Other
    <2> QED
      BY <1>1, <2>1, <2>2, FunctorsOpen
  <1>4. /\ c1 = c \/ c1 = Without(c)
        /\ ~IsReading(r.conn[s].ch) => c1 = Without(c)
    OBVIOUS
  <1>5. /\ \A t : ReadDue(b, c1, t) => ReadDue(b, c, t)
        /\ c1.side = c.side /\ (c1.revents # {} => c.revents # {})
        /\ c1 = Without(c) /\ (\A e \in b : e.side # c.side) => ~ReadDue(b, c1, c.side)
    BY <1>4, DueFacts
  <1>6. \A e \in b : e.side # c.side
    BY DEF EventsIn
  <1>7. r.upConn /\ r.paused[s] => ~ReadDue(b, c1, s)
    <2> SUFFICES ASSUME r.upConn, r.paused[s] PROVE ~ReadDue(b, c1, s)
      OBVIOUS
    <2>1. ~IsReading(r.conn[s].ch)
      BY <1>1, <1>2 DEF Bridging, Opened, Flowing
    <2> QED
      BY <1>4, <1>5, <1>6, <2>1
  <1>8. r.upConn /\ r.paused["up"] => ~ReadDue(b, c1, "up")
    <2>1. CASE s = "up"
      BY <1>7, <2>1
    <2>2. CASE o = "up"
      BY <1>1, <1>2, <1>5, <2>2 DEF EventsIn
    <2> QED
      BY <1>0, <2>1, <2>2 DEF Sides, Other
  <1>9. r.upConn /\ r.paused["down"] /\ ReadDue(b, c1, "down") =>
          Len(r.conn["up"].out) < r.flushed
    <2>1. CASE s = "down"
      BY <1>7, <2>1
    <2>2. CASE s = "up" /\ o = "down"
      BY <1>1, <1>2, <1>5, <2>2 DEF EventsIn
    <2> QED
      BY <1>0, <2>1, <2>2 DEF Sides, Other
  <1>10. r.client = "connected" /\ ~r.upConn => ~ReadDue(b, c1, "up")
    BY <1>1, <1>5 DEF EventsIn
  <1>11. EventsIn(r, b, c1)
    BY <1>1, <1>5, <1>6, <1>8, <1>9, <1>10, EventsKept
  <1> QED
    BY <1>3, <1>11

\* A step of HandleRead.
LEMMA ReadStep == ASSUME SessionInv, HandleRead PROVE SessionInv'
  <1>0. PICK s \in Sides : s = current.side
    BY DEF SessionInv, Typed, Events
  <1>1. /\ p \in Session /\ Sound(p) /\ FunctorsIn(p, running)
        /\ EventsIn(p, batch, current) /\ current \in Events
    BY DEF SessionInv, Typed, FunctorsInTime, EventsInTime
  <1>2. "IN" \in current.revents /\ lpc = "dispatch" /\ running = <<>>
    BY DEF HandleRead, SessionInv, EventsInTime, FunctorsInTime
  <1>3. /\ ready' \subseteq Sides /\ lpc' = lpc /\ batch' = batch /\ running' = running
    BY DEF HandleRead, Becomes, SessionInv, Typed
  <1>4. /\ p' \in Session /\ Sound(p') /\ FunctorsIn(p', running)
        /\ EventsIn(p', batch, current') /\ current' \in Events
    <2>1. CASE p.sock[s].in # <<>>
      <3>1. PICK r : r = OnData(Popped(p, s), s, <<Head(p.sock[s].in)>>)
        OBVIOUS
      <3>2. /\ p' = r
            /\ current' = IF IsReading(r.conn[s].ch) THEN current ELSE Without(current)
        BY <1>0, <2>1, <3>1 DEF HandleRead, Becomes, Popped, Without
      <3>3. Read(p, r, s)
        BY <1>0, <1>1, <1>2, <2>1, <3>1, ReadChunk
      <3>4. FunctorsIn(r, running) /\ EventsIn(r, batch, current')
        BY <1>0, <1>1, <1>2, <3>2, <3>3, ReadInTime
      <3>5. current' \in Events
        BY <1>1, <3>2, WithoutFacts
      <3> QED
        BY <3>2, <3>3, <3>4, <3>5 DEF Read
    <2>2. CASE p.sock[s].in = <<>>
      <3>1. PICK r : r = IF p.sock[s].peer # "open" THEN HandleClose(p, s) ELSE p
        OBVIOUS
      <3>2. p' = r /\ current' = Without(current)
        BY <1>0, <2>2, <3>1 DEF HandleRead, Becomes, Without
      <3>3. /\ \A t : ReadDue(batch, Without(current), t) => ReadDue(batch, current, t)
            /\ Without(current).side = current.side
            /\ Without(current) \in Events
            /\ ~ReadDue(batch, Without(current), s)
        <4>1. \A e \in batch : e.side # current.side
          BY <1>1, <1>2 DEF EventsIn
        <4> QED
          BY <1>0, <1>1, <4>1, DueFacts
      <3>4. /\ r \in Session /\ Sound(r) /\ FunctorsIn(r, running)
            /\ EventsIn(r, batch, Without(current))
        <4>1. CASE r = p
          BY <1>1, <1>2, <3>3, <4>1, EventsKept DEF EventsIn
        <4>2. CASE r # p
          <5>1. /\ r \in Session /\ Sound(r) /\ FunctorsIn(r, running) /\ ~r.upConn
                /\ r.sock["up"].peer = p.sock["up"].peer
                /\ s = "down" => r.client # "connected"
            BY <1>1, <2>2, <3>1, <4>2, CloseFacts
          <5>2. r.client = "connected" => ~ReadDue(batch, Without(current), "up")
            BY <3>3, <5>1 DEF Sides
          <5>3. Without(current).revents # {} =>
                  \A e \in batch : e.side # Without(current).side
            BY <1>1, <1>2, <3>3 DEF EventsIn
          <5>4. EventsIn(r, batch, Without(current))
            BY <1>1, <5>1, <5>2, <5>3, EventsKept
          <5> QED
            BY <5>1, <5>4
        <4> QED
          BY <4>1, <4>2
      <3> QED
        BY <3>2, <3>3, <3>4
    <2> QED
      BY <2>1, <2>2
  <1> QED
    BY <1>1, <1>2, <1>3, <1>4 DEF SessionInv, Typed, FunctorsInTime, EventsInTime

\* The event without its hang-up, which has been looked at.
Unhung(e) == [e EXCEPT !.revents = @ \ {"HUP"}]

\* Reads that are due when an event of the batch becomes the current one.
LEMMA TakenFacts ==
  ASSUME NEW q, NEW b \in SUBSET Events, NEW c, EventsIn(q, b, c), NEW e \in b,
         NEW c1, c1 = Unhung(e) \/ c1 = Idle
  PROVE  /\ c1 \in Events
         /\ \A t : ReadDue(b \ {e}, c1, t) => ReadDue(b, c, t)
         /\ c1.revents # {} => \A f \in b \ {e} : f.side # c1.side
         /\ "IN" \notin e.revents => ~ReadDue(b \ {e}, c1, e.side)
  <1>1. e \in Events
    OBVIOUS
  <1>2. /\ Unhung(e) \in Events /\ Unhung(e).side = e.side
        /\ Unhung(e).revents = e.revents \ {"HUP"}
    BY <1>1 DEF Unhung, Events
  <1>3. \A f \in b \ {e} : f.side # e.side
    BY DEF EventsIn
  <1> QED
    BY <1>2, <1>3, IdleFacts DEF ReadDue

\* A step of TakeEvent.
LEMMA TakeStep ==
  ASSUME SessionInv, NEW e \in batch, TakeEvent(e) PROVE SessionInv'
  <1>0. PICK s \in Sides : s = e.side
    BY DEF SessionInv, Typed, Events
  <1>1. /\ p \in Session /\ Sound(p) /\ FunctorsIn(p, running)
        /\ EventsIn(p, batch, current) /\ batch \in SUBSET Events
    BY DEF SessionInv, Typed, FunctorsInTime, EventsInTime
  <1>2. lpc = "dispatch" /\ running = <<>>
    BY DEF TakeEvent, Dispatching, SessionInv, FunctorsInTime
  <1>3. /\ ready' \subseteq Sides /\ lpc' = lpc /\ running' = running
        /\ batch' = batch \ {e}
    BY DEF TakeEvent, Becomes, SessionInv, Typed
  <1>4. PICK c1 : c1 = current' /\ (c1 = Unhung(e) \/ c1 = Idle)
    BY DEF TakeEvent, Unhung
  <1>5. /\ c1 \in Events
        /\ \A t : ReadDue(batch \ {e}, c1, t) => ReadDue(batch, current, t)
        /\ c1.revents # {} => \A f \in batch \ {e} : f.side # c1.side
        /\ "IN" \notin e.revents => ~ReadDue(batch \ {e}, c1, s)
    BY <1>0, <1>1, <1>4, TakenFacts
  <1>6. /\ p' \in Session /\ Sound(p') /\ FunctorsIn(p', running)
        /\ EventsIn(p', batch \ {e}, c1)
    <2>1. CASE p' = p
      <3>1. EventsIn(p, batch \ {e}, c1)
        BY <1>1, <1>5, EventsKept DEF EventsIn
      <3> QED
        BY <1>1, <2>1, <3>1
    <2>2. CASE p' # p
      <3>1. PICK r : r = HandleClose(p, s)
        OBVIOUS
      <3>2. p' = r /\ "HUP" \in e.revents /\ "IN" \notin e.revents
        BY <1>0, <2>2, <3>1 DEF TakeEvent, Becomes
      <3>3. s = "up" => p.sock["up"].peer = "rst"
        BY <1>0, <1>1, <3>2 DEF EventsIn
      <3>4. /\ r \in Session /\ Sound(r) /\ FunctorsIn(r, running) /\ ~r.upConn
            /\ r.sock["up"].peer = p.sock["up"].peer
            /\ s = "down" => r.client # "connected"
        BY <1>1, <2>2, <3>1, <3>2, <3>3, CloseFacts
      <3>5. r.client = "connected" => ~ReadDue(batch \ {e}, c1, "up")
        BY <1>5, <3>2, <3>4 DEF Sides
      <3>6. EventsIn(r, batch \ {e}, c1)
        BY <1>1, <1>5, <3>4, <3>5, EventsKept
      <3> QED
        BY <3>2, <3>4, <3>6
    <2> QED
      BY <2>1, <2>2
  <1> QED
    BY <1>1, <1>2, <1>3, <1>4, <1>5, <1>6
       DEF SessionInv, Typed, FunctorsInTime, EventsInTime

\* A step of UpstreamConnects.
LEMMA ConnectStep == ASSUME SessionInv, UpstreamConnects PROVE SessionInv'
  <1>0. "down" \in Sides /\ "up" \in Sides /\ Other("down") = "up"
    BY DEF Sides, Other
  <1>1. /\ p \in Session /\ Sound(p) /\ FunctorsIn(p, running)
        /\ EventsIn(p, batch, current)
    BY DEF SessionInv, Typed, FunctorsInTime, EventsInTime
  <1>2. lpc = "dispatch" /\ running = <<>> /\ p.client = "connecting"
    BY DEF UpstreamConnects, Dispatching, SessionInv, FunctorsInTime
  <1>3. PICK r : r = OnUpstreamConnected(p)
    OBVIOUS
  <1>4. /\ p' = r /\ ready' \subseteq Sides /\ lpc' = lpc /\ running' = running
        /\ batch' = batch /\ current' = current
    BY <1>3 DEF UpstreamConnects, Becomes, SessionInv, Typed
  <1>5. Connecting(p)
    BY <1>1, <1>2 DEF Sound, Staged, Bridging, Opened, HalfClosed, Torn
  <1>6. /\ r \in Session /\ Sound(r) /\ Bridging(r)
        /\ ~r.paused["up"]
        /\ r.paused["down"] => /\ r.conn["up"].out # <<>>
                               /\ Len(r.conn["up"].out) < r.flushed
        /\ Joined(p, r, Complete("up"))
        /\ r.sock["up"].peer = p.sock["up"].peer
    BY <1>1, <1>3, <1>5, ConnectSound DEF Joined
  <1>7. FunctorsIn(r, running)
    <2>1. \A g : Queued(r, running, g) => Queued(p, running, g) \/ g = Complete("up")
      <3>1. PICK f \in Functors : f = Complete("up")
        BY <1>0, FunctorNames
      <3>2. Joined(p, r, f)
        BY <1>6, <3>1
      <3>3. \A g : Queued(r, running, g) => Queued(p, running, g) \/ g = f
        BY <1>1, <3>2, JoinedFacts
      <3> QED
        BY <3>1, <3>3
    <2>2. ~Queued(p, running, Destroy("down")) /\ ~Queued(p, running, Destroy("up"))
      BY <1>1, <1>5 DEF FunctorsIn, Connecting
    <2>3. ~Queued(r, running, Destroy("down")) /\ ~Queued(r, running, Destroy("up"))
      BY <1>0, <2>1, <2>2, FunctorNames
    <2> QED
      BY <1>0, <1>6, <2>3 DEF FunctorsIn, Sides
  <1>8. EventsIn(r, batch, current)
    <2>1. r.upConn
      BY <1>6 DEF Bridging, Opened
    <2> QED
      BY <1>1, <1>6, <2>1 DEF EventsIn
  <1> QED
    BY <1>2, <1>4, <1>6, <1>7, <1>8 DEF SessionInv, Typed, FunctorsInTime, EventsInTime

\* The functors have been swapped out of the queue.
Swapped(q) == [q EXCEPT !.queue = <<>>]

\* That leaves the rest of the session alone.
LEMMA SwappedSound ==
  ASSUME NEW q \in Session, Sound(q), NEW r, r = Swapped(q)
  PROVE  /\ r \in Session /\ Sound(r) /\ r.queue = <<>>
         /\ r.conn = q.conn /\ r.sock = q.sock /\ r.paused = q.paused
         /\ SameRest(q, r)
  <1>1. <<>> \in Seq(Functors)
    OBVIOUS
  <1>2. r \in Session
    BY <1>1 DEF Swapped, Session
  <1>3. /\ r.conn = q.conn /\ r.sock = q.sock /\ r.paused = q.paused
        /\ SameRest(q, r) /\ r.queue = <<>>
    BY DEF Swapped, Session, SameRest
  <1>4. Bounded(r)
    BY <1>3 DEF Sound, Bounded, SameRest
  <1>5. \A s \in Sides : Ordered(r, s)
    BY ZenonT(30), <1>3 DEF Sound, Ordered, Flow, Waiting, Deaf, WriteFails, SameRest
  <1>6. Staged(r)
    <2>1. CASE Connecting(q)
      BY <1>3, <2>1 DEF Staged, Connecting, Serving, Untouched, SameRest
    <2>2. CASE Bridging(q)
      BY <1>3, <2>2 DEF Staged, Bridging, Opened, Flowing, Serving, SameRest
    <2>3. CASE HalfClosed(q)
      BY <1>3, <2>3 DEF Staged, HalfClosed, Serving, Flow, SameRest
    <2>4. CASE Torn(q)
      BY <1>3, <2>4 DEF Staged, Torn, SameRest
    <2> QED
      BY <2>1, <2>2, <2>3, <2>4 DEF Sound, Staged
  <1> QED
    BY <1>2, <1>3, <1>4, <1>5, <1>6 DEF Sound

\* A step of DispatchDone.
LEMMA DispatchDoneStep == ASSUME SessionInv, DispatchDone PROVE SessionInv'
  <1>1. /\ p \in Session /\ Sound(p) /\ FunctorsIn(p, running)
        /\ EventsIn(p, batch, current)
    BY DEF SessionInv, Typed, FunctorsInTime, EventsInTime
  <1>2. /\ running = <<>> /\ batch = {} /\ current.revents = {}
    BY DEF DispatchDone, Dispatching, SessionInv, FunctorsInTime
  <1>3. PICK r : r = Swapped(p)
    OBVIOUS
  <1>4. PICK a \in Seq(Functors) : a = p.queue
    BY <1>1 DEF Session
  <1>5. /\ p' = r /\ ready' = ready /\ lpc' = "functors" /\ running' = a
        /\ batch' = batch /\ current' = current
    BY <1>3, <1>4 DEF DispatchDone, Swapped
  <1>6. /\ r \in Session /\ Sound(r) /\ r.queue = <<>>
        /\ r.conn = p.conn /\ r.sock = p.sock /\ r.paused = p.paused
        /\ SameRest(p, r)
    BY <1>1, <1>3, SwappedSound
  <1>7. \A g : Queued(r, a, g) <=> Queued(p, running, g)
    BY <1>2, <1>4, <1>6 DEF Queued
  <1>8. FunctorsIn(r, a)
    BY <1>1, <1>6, <1>7 DEF FunctorsIn, SameRest
  <1>9. EventsIn(r, batch, current)
    BY <1>1, <1>6 DEF EventsIn, SameRest
  <1> QED
    BY <1>2, <1>5, <1>6, <1>8, <1>9 DEF SessionInv, Typed, FunctorsInTime, EventsInTime

\* A functor runs: what is queued after it was queued before it.
LEMMA RunFacts ==
  ASSUME NEW run \in Seq(Functors), run # <<>>
  PROVE  /\ Tail(run) \in Seq(Functors)
         /\ \E s \in Sides : Head(run) = Complete(s) \/ Head(run) = Destroy(s)
         /\ \A g : g \in Range(run) <=> g = Head(run) \/ g \in Range(Tail(run))
  <1>1. Tail(run) \in Seq(Functors) /\ Head(run) \in Functors
    BY HeadTail
  <1>2. \A g : g \in Range(run) <=> g = Head(run) \/ g \in Range(Tail(run))
    BY <1>1, RangeFacts
  <1>3. PICK f \in Functors : f = Head(run)
    BY <1>1
  <1>4. \E s \in Sides : f = Complete(s) \/ f = Destroy(s)
    BY DEF Functors, Complete, Destroy
  <1> QED
    BY <1>1, <1>2, <1>3, <1>4

\* The write-complete functor of side s.
LEMMA RunComplete ==
  ASSUME NEW q \in Session, Sound(q), NEW s \in Sides, NEW run, NEW rest,
         FunctorsIn(q, run),
         \A g : g \in Range(run) <=> g = Complete(s) \/ g \in Range(rest),
         NEW r, r = WriteComplete(q, s)
  PROVE  r \in Session /\ Sound(r) /\ FunctorsIn(r, rest)
  <1>0. PICK o \in Sides : o = Other(s) /\ o # s /\ s = Other(o)
    BY SessionFields
  <1>1. /\ r \in Session /\ Sound(r) /\ SameRest(q, r) /\ r.queue = q.queue
        /\ r.conn[o].out = q.conn[o].out /\ r.conn[s].out = q.conn[s].out
        /\ r.paused[s] = q.paused[s]
        /\ r.upConn /\ r.paused[o] => q.conn[s].out # <<>>
    <2>1. CASE q.conn[s].out # <<>>
      BY <2>1 DEF WriteComplete, SameRest
    <2>2. CASE q.conn[s].out = <<>>
      <3>1. r = Resume(q, o)
        BY <1>0, <2>2 DEF WriteComplete
      <3>2. r \in Session /\ SameButReading(q, r, o) /\ Sound(r)
        BY <1>0, <2>2, <3>1, ResumeFacts, ResumeSound
      <3>3. ASSUME r.upConn PROVE ~r.paused[o]
        <4>1. q.upConn
          BY <3>2, <3>3 DEF SameButReading, SameRest
        <4>2. ~q.tearing /\ Holds(q, o)
          BY <4>1, HeldIsBridging DEF Bridging, Opened, Holds
        <4> QED
          BY <3>1, <4>2, ResumeFacts
      <3> QED
        BY <1>0, <3>2, <3>3 DEF SameButReading, SameSide
    <2> QED
      BY <2>1, <2>2
  <1>2. /\ \A g : Queued(r, rest, g) => Queued(q, run, g)
        /\ \A g : Queued(q, run, g) /\ g # Complete(s) => Queued(r, rest, g)
    BY <1>1 DEF Queued
  <1>3. ASSUME NEW t \in Sides, r.upConn, r.paused[t]
        PROVE  r.conn[Other(t)].out # <<>> \/ Queued(r, rest, Complete(Other(t)))
    <2>1. CASE t = s
      <3>1. q.upConn /\ q.paused[s]
        BY <1>1, <1>3, <2>1 DEF SameRest
      <3>2. q.conn[o].out # <<>> \/ Queued(q, run, Complete(o))
        BY <1>0, <3>1 DEF FunctorsIn
      <3>3. Complete(o) # Complete(s)
        BY <1>0 DEF Complete
      <3> QED
        BY <1>0, <1>1, <1>2, <2>1, <3>2, <3>3
    <2>2. CASE t = o
      BY <1>0, <1>1, <1>3, <2>2
    <2> QED
      BY <1>0, <2>1, <2>2 DEF Sides, Other
  <1>4. FunctorsIn(r, rest)
    BY <1>1, <1>2, <1>3 DEF FunctorsIn, SameRest
  <1> QED
    BY <1>1, <1>4

\* The functor that destroys the connection of side s.
LEMMA RunDestroy ==
  ASSUME NEW q \in Session, Sound(q), NEW s \in Sides, NEW run, NEW rest,
         FunctorsIn(q, run),
         \A g : g \in Range(run) <=> g = Destroy(s) \/ g \in Range(rest),
         NEW r, r = ConnectionDestroyed(q, s)
  PROVE  r \in Session /\ Sound(r) /\ FunctorsIn(r, rest)
  <1>1. Queued(q, run, Destroy(s))
    BY DEF Queued
  <1>2. /\ s = "down" => q.tearing
        /\ s = "up" => ~q.upConn /\ q.client # "connecting"
    BY <1>1 DEF FunctorsIn
  <1>3. r \in Session /\ Sound(r)
    BY <1>2, DestroyedSound
  <1>4. SameRest(q, r) /\ r.queue = q.queue
    BY DestroyedFacts DEF Turned
  <1>5. ~r.upConn
    <2>1. ~q.upConn
      BY <1>2, HeldIsBridging DEF Bridging, Opened, Sides
    <2> QED
      BY <1>4, <2>1 DEF SameRest
  <1>6. \A g : Queued(r, rest, g) => Queued(q, run, g)
    BY <1>4 DEF Queued
  <1>7. FunctorsIn(r, rest)
    BY <1>4, <1>5, <1>6 DEF FunctorsIn, SameRest
  <1> QED
    BY <1>3, <1>7

\* A step of RunFunctor.
LEMMA RunStep == ASSUME SessionInv, RunFunctor PROVE SessionInv'
  <1>1. /\ p \in Session /\ Sound(p) /\ FunctorsIn(p, running)
        /\ EventsIn(p, batch, current) /\ running \in Seq(Functors)
    BY DEF SessionInv, Typed, FunctorsInTime, EventsInTime
  <1>2. /\ lpc = "functors" /\ running # <<>> /\ batch = {} /\ current.revents = {}
    BY DEF RunFunctor, SessionInv, EventsInTime
  <1>3. PICK rest \in Seq(Functors), s \in Sides :
          /\ rest = Tail(running)
          /\ Head(running) = Complete(s) \/ Head(running) = Destroy(s)
          /\ \A g : g \in Range(running) <=> g = Head(running) \/ g \in Range(rest)
    BY <1>1, <1>2, RunFacts
  <1>4. /\ ready' \subseteq Sides /\ lpc' = lpc /\ running' = rest
        /\ batch' = batch /\ current' = current
    BY <1>3 DEF RunFunctor, Becomes, SessionInv, Typed
  <1>5. p' \in Session /\ Sound(p') /\ FunctorsIn(p', rest)
    <2>1. CASE Head(running) = Complete(s)
      <3>1. PICK r : r = WriteComplete(p, s)
        OBVIOUS
      <3>2. p' = r
        BY <2>1, <3>1 DEF RunFunctor, Becomes, Complete
      <3>3. r \in Session /\ Sound(r) /\ FunctorsIn(r, rest)
        BY <1>1, <1>3, <2>1, <3>1, RunComplete
      <3> QED
        BY <3>2, <3>3
    <2>2. CASE Head(running) = Destroy(s)
      <3>1. PICK r : r = ConnectionDestroyed(p, s)
        OBVIOUS
      <3>2. p' = r
        BY <2>2, <3>1 DEF RunFunctor, Becomes, Destroy
      <3>3. r \in Session /\ Sound(r) /\ FunctorsIn(r, rest)
        BY <1>1, <1>3, <2>2, <3>1, RunDestroy
      <3> QED
        BY <3>2, <3>3
    <2> QED
      BY <1>3, <2>1, <2>2
  <1>6. EventsIn(p', batch, current)
    BY <1>2 DEF EventsIn, ReadDue
  <1> QED
    BY <1>1, <1>2, <1>4, <1>5, <1>6 DEF SessionInv, Typed, FunctorsInTime, EventsInTime

\* A step of PassDone.
LEMMA PassDoneStep == ASSUME SessionInv, PassDone PROVE SessionInv'
  BY DEF SessionInv, Typed, FunctorsInTime, EventsInTime, PassDone

\* What epoll reports of side s.
LEMMA ReportedFacts ==
  ASSUME p \in Session, Sound(p), NEW s \in Sides
  PROVE  /\ Revents(s) \in SUBSET {"IN", "OUT", "HUP"}
         /\ "HUP" \in Revents(s) /\ s = "up" => p.sock["up"].peer = "rst"
         /\ p.client = "connected" /\ ~p.upConn /\ s = "up" => "IN" \notin Revents(s)
         /\ p.upConn /\ p.paused[s] => "IN" \notin Revents(s)
  <1>1. /\ Revents(s) \in SUBSET {"IN", "OUT", "HUP"}
        /\ "IN" \in Revents(s) => "IN" \in p.conn[s].ch.mask
        /\ "HUP" \in Revents(s) => Live(s) /\ "HUP" \in Poll(p.sock[s])
    BY DEF Revents, Poll
  <1>2. "HUP" \in Revents(s) /\ s = "up" => p.sock["up"].peer = "rst"
    <2> SUFFICES ASSUME "HUP" \in Revents(s), s = "up" PROVE p.sock["up"].peer = "rst"
      OBVIOUS
    <2>1. Live("up") /\ "HUP" \in Poll(p.sock["up"])
      BY <1>1
    <2>2. Bridging(p) \/ HalfClosed(p)
      BY <2>1 DEF Live, Sound, Staged, Connecting, Torn
    <2>3. ~p.sock["up"].wrShut
      BY <2>2 DEF Bridging, Opened, Flowing, HalfClosed, Sides
    <2> QED
      BY <2>1, <2>3 DEF Poll
  <1>3. p.client = "connected" /\ ~p.upConn /\ s = "up" => "IN" \notin Revents(s)
    <2> SUFFICES ASSUME p.client = "connected", ~p.upConn, s = "up"
                 PROVE  "IN" \notin Revents(s)
      OBVIOUS
    <2>1. HalfClosed(p)
      BY DEF Sound, Staged, Connecting, Bridging, Opened, Torn
    <2> QED
      BY <1>1, <2>1 DEF HalfClosed
  <1>4. p.upConn /\ p.paused[s] => "IN" \notin Revents(s)
    <2> SUFFICES ASSUME p.upConn, p.paused[s] PROVE "IN" \notin Revents(s)
      OBVIOUS
    <2>1. Bridging(p)
      BY HeldIsBridging
    <2>2. InStep(p.conn[s].ch) /\ ~IsReading(p.conn[s].ch)
      BY <2>1 DEF Bridging, Opened, Flowing, Serving
    <2> QED
      BY <1>1, <2>2 DEF InStep, IsReading
  <1> QED
    BY <1>1, <1>2, <1>3, <1>4

\* A step of EpollWait.
LEMMA EpollStep == ASSUME SessionInv, EpollWait PROVE SessionInv'
  <1>1. /\ p \in Session /\ Sound(p) /\ FunctorsIn(p, running)
        /\ EventsIn(p, batch, current) /\ ready \subseteq Sides
    BY DEF SessionInv, Typed, FunctorsInTime, EventsInTime
  <1>2. running = <<>> /\ current.revents = {}
    BY DEF EpollWait, SessionInv, FunctorsInTime, EventsInTime
  <1>3. /\ p' = p /\ ready' = {} /\ lpc' = "dispatch" /\ current' = current
        /\ running' = running
    BY DEF EpollWait
  <1>4. PICK b : /\ b = batch'
                 /\ \A e \in b : \E s \in Sides :
                      e = [side |-> s, revents |-> Revents(s)]
    <2>1. batch' = {[side |-> s, revents |-> Revents(s)] :
                       s \in {s \in ready : Revents(s) # {}}}
      BY DEF EpollWait
    <2>2. \A e \in batch' : \E s \in Sides : e = [side |-> s, revents |-> Revents(s)]
      BY <1>1, <2>1
    <2>3. PICK b : b = batch'
      OBVIOUS
    <2> QED
      BY <2>2, <2>3
  <1>5. \A e \in b : e.side \in Sides /\ e.revents = Revents(e.side) /\ e \in Events
    <2> SUFFICES ASSUME NEW e \in b
                 PROVE  e.side \in Sides /\ e.revents = Revents(e.side) /\ e \in Events
      OBVIOUS
    <2>1. PICK s \in Sides : e = [side |-> s, revents |-> Revents(s)]
      BY <1>4
    <2>2. PICK rev \in SUBSET {"IN", "OUT", "HUP"} : rev = Revents(s)
      BY <1>1, ReportedFacts
    <2>3. e = [side |-> s, revents |-> rev]
      BY <2>1, <2>2
    <2>4. e.side = s /\ e.revents = rev /\ e \in Events
      BY <2>3 DEF Events
    <2> QED
      BY <2>2, <2>4
  <1>6. \A e, f \in b : e.side = f.side => e = f
    BY <1>4
  <1>7. \A t : ReadDue(b, current, t) => t \in Sides /\ "IN" \in Revents(t)
    BY <1>2, <1>5 DEF ReadDue
  <1>8. EventsIn(p, b, current)
    <2>1. \A e \in b : "HUP" \in e.revents /\ e.side = "up" => p.sock["up"].peer = "rst"
      BY <1>1, <1>5, ReportedFacts
    <2>2. p.client = "connected" /\ ~p.upConn => ~ReadDue(b, current, "up")
      BY <1>1, <1>7, ReportedFacts
    <2>3. /\ p.upConn /\ p.paused["up"] => ~ReadDue(b, current, "up")
          /\ p.upConn /\ p.paused["down"] => ~ReadDue(b, current, "down")
      BY <1>1, <1>7, ReportedFacts
    <2> QED
      BY <1>2, <1>6, <2>1, <2>2, <2>3 DEF EventsIn
  <1> QED
    BY <1>1, <1>2, <1>3, <1>4, <1>5, <1>8
       DEF SessionInv, Typed, FunctorsInTime, EventsInTime

\* What the peers do to a socket, and that its type is kept.
LEMMA PeerFacts ==
  ASSUME NEW j \in Sockets
  PROVE  /\ [j EXCEPT !.room = Room] \in Sockets /\ ByPeer(j, [j EXCEPT !.room = Room])
         /\ j.peer = "open" => /\ [j EXCEPT !.peer = "fin"] \in Sockets
                               /\ ByPeer(j, [j EXCEPT !.peer = "fin"])
         /\ [j EXCEPT !.peer = "rst", !.in = <<>>] \in Sockets
         /\ ByPeer(j, [j EXCEPT !.peer = "rst", !.in = <<>>])
         /\ \A n \in 1 .. MaxSent :
              j.peer = "open" =>
                /\ [j EXCEPT !.in = Append(@, n), !.sent = Append(@, n)] \in Sockets
                /\ ByPeer(j, [j EXCEPT !.in = Append(@, n), !.sent = Append(@, n)])
  <1>1. PICK k \in Sockets : k = [j EXCEPT !.room = Room]
    <2>1. Room \in 0 .. Room
      BY ProxyAssumption
    <2> QED
      BY <2>1 DEF Sockets
  <1>2. ByPeer(j, k)
    BY <1>1 DEF Sockets, ByPeer
  <1>3. PICK l \in Sockets : l = [j EXCEPT !.peer = "fin"]
    BY DEF Sockets
  <1>4. j.peer = "open" => ByPeer(j, l)
    BY <1>3 DEF Sockets, ByPeer
  <1>5. PICK m \in Sockets : m = [j EXCEPT !.peer = "rst", !.in = <<>>]
    <2>1. <<>> \in Chunks
      BY DEF Chunks
    <2> QED
      BY <2>1 DEF Sockets
  <1>6. ByPeer(j, m)
    BY <1>5 DEF Sockets, ByPeer
  <1>7. ASSUME NEW n \in 1 .. MaxSent, j.peer = "open"
        PROVE  /\ [j EXCEPT !.in = Append(@, n), !.sent = Append(@, n)] \in Sockets
               /\ ByPeer(j, [j EXCEPT !.in = Append(@, n), !.sent = Append(@, n)])
    <2>1. PICK in \in Chunks, sent \in Chunks :
            in = Append(j.in, n) /\ sent = Append(j.sent, n)
      <3>1. PICK a \in Seq(1 .. MaxSent), b \in Seq(1 .. MaxSent) :
              a = j.in /\ b = j.sent
        BY DEF Sockets, Chunks
      <3>2. Append(a, n) \in Seq(1 .. MaxSent) /\ Append(b, n) \in Seq(1 .. MaxSent)
        OBVIOUS
      <3> QED
        BY <3>1, <3>2 DEF Chunks
    <2>2. PICK k2 \in Sockets : k2 = [j EXCEPT !.in = in, !.sent = sent]
      BY DEF Sockets
    <2>3. k2.in = in /\ k2.sent = sent /\ k2.peer = "open"
          /\ k2.got = j.got /\ k2.wrShut = j.wrShut
      BY <1>7, <2>2 DEF Sockets
    <2>4. ByPeer(j, k2)
      BY <1>7, <2>1, <2>3 DEF ByPeer
    <2>5. k2 = [j EXCEPT !.in = Append(@, n), !.sent = Append(@, n)]
      BY <2>1, <2>2
    <2> QED
      BY <2>4, <2>5
  <1> QED
    BY <1>1, <1>2, <1>3, <1>4, <1>5, <1>6, <1>7

\* A step of a peer.
Peer(s) == PeerSends(s) \/ PeerReads(s) \/ PeerCloses(s) \/ PeerResets(s)

\* It changes one socket of a live connection.
LEMMA PeerChanges ==
  ASSUME p \in Session, NEW s \in Sides, Peer(s)
  PROVE  /\ \E k \in Sockets : ByPeer(p.sock[s], k) /\ p' = WithSocket(p, s, k)
         /\ Live(s) /\ ready' = ready \cup {s}
         /\ UNCHANGED <<lpc, batch, current, running>>
  <1>0. PICK j \in Sockets : j = p.sock[s]
    BY DEF Session
  <1>1. CASE PeerReads(s)
    BY <1>0, <1>1, PeerFacts DEF PeerReads, SocketChanges, WithSocket
  <1>2. CASE PeerCloses(s)
    BY <1>0, <1>2, PeerFacts DEF PeerCloses, SocketChanges, WithSocket
  <1>3. CASE PeerResets(s)
    BY <1>0, <1>3, PeerFacts DEF PeerResets, SocketChanges, WithSocket
  <1>4. CASE PeerSends(s)
    <2>1. PICK n \in 1 .. MaxSent : n = Len(j.sent) + 1
      <3>1. PICK x \in Nat, y \in Nat :
              x = Len(p.sock["down"].sent) /\ y = Len(p.sock["up"].sent)
        <4>1. PICK a \in Seq(1 .. MaxSent), b \in Seq(1 .. MaxSent) :
                a = p.sock["down"].sent /\ b = p.sock["up"].sent
          BY SessionFields DEF Sides, Chunks
        <4> QED
          BY <4>1
      <3>2. x + y < MaxSent
        BY <1>4, <3>1 DEF PeerSends
      <3>3. PICK l \in Nat : l = Len(j.sent) /\ (l = x \/ l = y)
        BY <1>0, <3>1 DEF Sides
      <3>4. l + 1 \in 1 .. MaxSent
        BY <3>2, <3>3, ProxyAssumption
      <3> QED
        BY <3>3, <3>4
    <2>2. /\ Live(s) /\ j.peer = "open"
          /\ SocketChanges(s, [j EXCEPT !.in = Append(@, n), !.sent = Append(@, n)])
      BY <1>0, <1>4, <2>1 DEF PeerSends
    <2>3. PICK k \in Sockets :
            k = [j EXCEPT !.in = Append(@, n), !.sent = Append(@, n)] /\ ByPeer(j, k)
      BY <2>2, PeerFacts
    <2>4. SocketChanges(s, k)
      BY <2>2, <2>3
    <2> QED
      BY <1>0, <2>2, <2>3, <2>4 DEF SocketChanges, WithSocket
  <1> QED
    BY <1>1, <1>2, <1>3, <1>4 DEF Peer

\* A step of a peer.
LEMMA PeerStep == ASSUME SessionInv, NEW s \in Sides, Peer(s) PROVE SessionInv'
  <1>1. /\ p \in Session /\ Sound(p) /\ FunctorsIn(p, running)
        /\ EventsIn(p, batch, current)
    BY DEF SessionInv, Typed, FunctorsInTime, EventsInTime
  <1>2. PICK k \in Sockets : ByPeer(p.sock[s], k) /\ p' = WithSocket(p, s, k)
    BY <1>1, PeerChanges
  <1>3. /\ Live(s) /\ ready' = ready \cup {s}
        /\ UNCHANGED <<lpc, batch, current, running>>
    BY <1>1, PeerChanges
  <1>4. PICK r : r = WithSocket(p, s, k)
    OBVIOUS
  <1>5. s = "up" => p.client = "connected"
    BY <1>3 DEF Live
  <1>6. /\ r \in Session /\ Sound(r) /\ SameRest(p, r) /\ r.conn = p.conn
        /\ r.paused = p.paused /\ r.queue = p.queue
        /\ p.sock["up"].peer = "rst" => r.sock["up"].peer = "rst"
    BY <1>1, <1>2, <1>4, <1>5, PeerSound
  <1>7. FunctorsIn(r, running)
    BY <1>1, <1>6 DEF FunctorsIn, Queued, SameRest
  <1>8. EventsIn(r, batch, current)
    BY <1>1, <1>6 DEF EventsIn, SameRest
  <1> QED
    BY <1>1, <1>2, <1>3, <1>4, <1>6, <1>7, <1>8
       DEF SessionInv, Typed, FunctorsInTime, EventsInTime

-----------------------------------------------------------------------------
(* The theorems.                                                           *)

\* A proxied session keeps its stages: both connections are up and flow
\* control is in step with the buffers, or the upstream has closed, or all is
\* torn down, and no chunk is lost, doubled or swapped in any of them.
THEOREM SessionInvariant == Spec => []SessionInv
  <1>1. SessionInv /\ [Next]_vars => SessionInv'
    <2> SUFFICES ASSUME SessionInv, [Next]_vars PROVE SessionInv'
      OBVIOUS
    <2>1. CASE EpollWait
      BY <2>1, EpollStep
    <2>2. ASSUME NEW e \in batch, TakeEvent(e) PROVE SessionInv'
      BY <2>2, TakeStep
    <2>3. CASE HandleRead
      BY <2>3, ReadStep
    <2>4. CASE WriteEvent
      BY <2>4, WriteStep
    <2>5. CASE UpstreamConnects
      BY <2>5, ConnectStep
    <2>6. CASE DispatchDone
      BY <2>6, DispatchDoneStep
    <2>7. CASE RunFunctor
      BY <2>7, RunStep
    <2>8. CASE PassDone
      BY <2>8, PassDoneStep
    <2>9. ASSUME NEW s \in Sides, Peer(s) PROVE SessionInv'
      BY <2>9, PeerStep
    <2>10. CASE UNCHANGED vars
      BY <2>10 DEF vars, SessionInv, Typed, FunctorsInTime, EventsInTime
    <2> QED
      BY <2>1, <2>2, <2>3, <2>4, <2>5, <2>6, <2>7, <2>8, <2>9, <2>10
         DEF Next, LoopStep, Peer
  <1> QED
    BY <1>1, InitSession, PTL DEF Spec

\* A side whose reading is paused has its resumption coming (the high-water
\* and write-complete callbacks of ProxySession::Start): for any sizes.
THEOREM PausedIsResumed == Spec => []ResumeComing
  <1>1. SessionInv => ResumeComing
    <2> SUFFICES ASSUME SessionInv, NEW s \in Sides, p.paused[s], p.upConn, p.downConn
                 PROVE  \/ /\ p.conn[Other(s)].out # <<>>
                           /\ "OUT" \in p.conn[Other(s)].ch.mask
                        \/ Complete(Other(s)) \in Range(p.queue) \cup Range(running)
      BY DEF ResumeComing, Complete
    <2>1. /\ Bridging(p) /\ Other(s) \in Sides
          /\ p.conn[Other(s)].out # <<>> \/ Queued(p, running, Complete(Other(s)))
      BY HeldIsBridging, SessionFields
         DEF SessionInv, Typed, FunctorsInTime, FunctorsIn
    <2>2. Serving(p, Other(s))
      BY <2>1 DEF Bridging, Opened, Flowing
    <2> QED
      BY <2>1, <2>2 DEF Serving, InStep, IsWriting, Queued
  <1> QED
    BY <1>1, SessionInvariant, PTL

\* A slow peer makes the proxy hold no more than the high-water mark, or what
\* had come before the upstream was connected.
THEOREM BuffersBounded == Spec => []Backpressure
  <1>1. SessionInv => Backpressure
    <2> SUFFICES ASSUME SessionInv PROVE Backpressure
      OBVIOUS
    <2>1. PICK d \in Nat, u \in Nat, f \in Nat :
            /\ d = Len(p.conn["down"].out) /\ u = Len(p.conn["up"].out)
            /\ f = p.flushed
      BY LengthIsNat DEF SessionInv, Typed, Session, Sides
    <2>2. d <= HighWater /\ (u <= HighWater \/ u <= f)
      BY <2>1 DEF SessionInv, Sound, Bounded
    <2>3. PICK h \in Nat : h = HighWater
      BY ProxyAssumption
    <2>4. Max({h, f}) = IF h <= f THEN f ELSE h
      BY MaxOfTwo
    <2>5. u <= Max({h, f})
      BY <2>2, <2>3, <2>4
    <2> QED
      BY <2>1, <2>2, <2>3, <2>5 DEF Backpressure
  <1> QED
    BY <1>1, SessionInvariant, PTL

\* Every chunk is in one place on its way, in order, and the downstream sees
\* end of file only behind everything the upstream sent before it closed.
THEOREM ChunksInOrder == Spec => []InOrder
  <1>1. SessionInv => InOrder
    <2> SUFFICES ASSUME SessionInv PROVE InOrder
      OBVIOUS
    <2>0. /\ p \in Session /\ Sound(p) /\ "down" \in Sides /\ "up" \in Sides
          /\ Other("down") = "up" /\ Other("up") = "down"
      BY DEF SessionInv, Typed, Sides, Other
    <2>1. ASSUME NEW s \in Sides PROVE IsPrefix(p.sock[s].got, p.sock[Other(s)].sent)
      <3>1. PICK o \in Sides : o = Other(s) /\ s = Other(o)
        BY <2>0, SessionFields
      <3>2. PICK got \in Seq(1 .. MaxSent), out \in Seq(1 .. MaxSent),
                 sent \in Seq(1 .. MaxSent) :
              got = p.sock[s].got /\ out = p.conn[s].out /\ sent = p.sock[o].sent
        BY <2>0, SessionFields DEF Chunks
      <3>3. IsPrefix(got \o out, sent)
        BY <2>0, <3>1, <3>2 DEF Sound, Ordered, Flow
      <3>4. IsPrefix(got, sent)
        BY <3>3, PrefixFacts
      <3> QED
        BY <3>1, <3>2, <3>4
    <2>2. ASSUME Bridged
          PROVE  /\ p.sock["down"].sent = p.sock["up"].got \o p.conn["up"].out
                                            \o p.pending \o p.sock["down"].in
                 /\ p.sock["up"].sent = p.sock["down"].got \o p.conn["down"].out
                                          \o p.sock["up"].in
      <3>1. ASSUME NEW s \in Sides PROVE ~Deaf(p, s)
        <4>1. /\ ~p.tearing /\ p.sock[s].peer = "open"
              /\ p.conn[s].state \in {"none", "kConnected"}
          BY <2>2 DEF Bridged
        <4>2. Connecting(p) \/ Bridging(p)
          <5>1. p.conn["down"].state \in {"none", "kConnected"} /\ ~p.tearing
            BY <2>0, <2>2 DEF Bridged
          <5> QED
            BY <2>0, <5>1 DEF Sound, Staged, HalfClosed, Torn
        <4>3. ~p.sock[s].wrShut
          BY <4>2 DEF Connecting, Untouched, Bridging, Opened, Flowing, Sides
        <4> QED
          BY <4>1, <4>3 DEF Deaf, WriteFails
      <3>2. /\ Ordered(p, "down") /\ Ordered(p, "up")
            /\ ~Deaf(p, "down") /\ ~Deaf(p, "up") /\ ~p.tearing
            /\ p.sock["down"].peer = "open" /\ p.sock["up"].peer = "open"
        BY <2>0, <2>2, <3>1 DEF Sound, Bridged
      <3>3. /\ p.sock["down"].sent = Flow(p, "up") \o Waiting(p, "down") \o p.sock["down"].in
            /\ p.sock["up"].sent = Flow(p, "down") \o Waiting(p, "up") \o p.sock["up"].in
        BY <2>0, <3>2 DEF Ordered
      <3>4. PICK flow \in Seq(1 .. MaxSent) : flow = Flow(p, "down")
        BY <2>0, FlowType
      <3>5. flow \o <<>> = flow
        OBVIOUS
      <3> QED
        BY <3>3, <3>4, <3>5 DEF Flow, Waiting
    <2>3. ASSUME p.sock["up"].peer = "fin", p.sock["down"].peer # "rst",
                 p.sock["down"].wrShut
          PROVE  p.sock["down"].got = p.sock["up"].sent
      <3>1. HalfClosed(p)
        BY <2>0, <2>3 DEF Sound, Staged, Connecting, Bridging, Opened, Flowing, Torn
      <3>2. p.conn["down"].out = <<>> /\ p.sock["up"].sent = Flow(p, "down")
        BY <2>3, <3>1 DEF HalfClosed
      <3>3. PICK got \in Seq(1 .. MaxSent) : got = p.sock["down"].got
        BY <2>0, SessionFields DEF Chunks
      <3>4. got \o <<>> = got
        OBVIOUS
      <3> QED
        BY <3>2, <3>3, <3>4 DEF Flow
    <2> QED
      BY <2>1, <2>2, <2>3 DEF InOrder
  <1> QED
    BY <1>1, SessionInvariant, PTL
==============================================================================
