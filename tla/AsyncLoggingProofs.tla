------------------------- MODULE AsyncLoggingProofs -------------------------
(***************************************************************************)
(* Proofs about AsyncLogging, for any threads, any lines and any capacity  *)
(* of a buffer.                                                            *)
(***************************************************************************)
EXTENDS AsyncLogging, FiniteSetTheorems, SequenceTheorems, TLAPS

-----------------------------------------------------------------------------
(* FlattenSeq, a recursive function on the indices of its argument.  The   *)
(* induction is a search for the least index that goes wrong.              *)

\* A set of naturals that is not empty has a least element.
LEMMA LeastNatural ==
  ASSUME NEW T \in SUBSET Nat, T # {}
  PROVE  \E m \in T : \A n \in T : m <= n
  <1> DEFINE U == {0 .. n : n \in T}
  <1>1. U \subseteq FiniteSubsetsOf(Nat)
    <2> SUFFICES ASSUME NEW n \in T
                 PROVE  0 .. n \in FiniteSubsetsOf(Nat)
      OBVIOUS
    <2> QED
      BY FS_Interval DEF FiniteSubsetsOf
  <1>2. U # {}
    OBVIOUS
  <1> HIDE DEF U
  <1>3. PICK x \in U : \A y \in U : <<y, x>> \notin StrictSubsetOrdering(Nat)
    BY <1>1, <1>2, FS_StrictSubsetOrderingWellFounded, WFMin
  <1>4. PICK m \in T : x = 0 .. m
    BY DEF U
  <1>5. ASSUME NEW n \in T, n < m
        PROVE  FALSE
    <2>1. m \in 0 .. m /\ m \notin 0 .. n /\ 0 .. n \subseteq 0 .. m
      BY <1>5
    <2>2. <<0 .. n, 0 .. m>> \in StrictSubsetOrdering(Nat)
      BY <2>1 DEF StrictSubsetOrdering
    <2> QED
      BY <1>3, <1>4, <2>2 DEF U
  <1> QED
    BY <1>5

\* f holds the concatenations of the first sequences of ss, up to the n-th.
Flattens(f, ss, n) ==
    f = [i \in 1 .. n |-> IF i = 1 THEN ss[i] ELSE f[i - 1] \o ss[i]]

\* ss and tt agree on their first n sequences.
SamePrefix(ss, tt, n) == \A i \in 1 .. n : ss[i] = tt[i]

\* Two such functions agree where both are defined.
LEMMA FlattensUnique ==
  ASSUME NEW ss, NEW tt, NEW m \in Nat, NEW n \in Nat, m <= n,
         SamePrefix(ss, tt, m),
         NEW f, Flattens(f, ss, m), NEW g, Flattens(g, tt, n)
  PROVE  SamePrefix(f, g, m)
  <1> DEFINE T == {i \in 1 .. m : f[i] # g[i]}
  <1> SUFFICES ASSUME T # {}
               PROVE  FALSE
    BY DEF SamePrefix
  <1>1. PICK k \in T : \A i \in T : k <= i
    <2> T \in SUBSET Nat
      OBVIOUS
    <2> HIDE DEF T
    <2> QED
      BY LeastNatural
  <1>2. k \in 1 .. m /\ k \in 1 .. n /\ f[k] # g[k]
    OBVIOUS
  <1>3. /\ f[k] = IF k = 1 THEN ss[k] ELSE f[k - 1] \o ss[k]
        /\ g[k] = IF k = 1 THEN tt[k] ELSE g[k - 1] \o tt[k]
    BY <1>2 DEF Flattens
  <1>4. k # 1 => f[k - 1] = g[k - 1]
    <2> SUFFICES ASSUME k # 1, f[k - 1] # g[k - 1]
                 PROVE  FALSE
      OBVIOUS
    <2>1. k - 1 \in 1 .. m /\ ~(k <= k - 1)
      BY <1>2
    <2> QED
      BY <1>1, <2>1
  <1> QED
    BY <1>2, <1>3, <1>4 DEF SamePrefix

\* There is such a function for every length.
LEMMA FlattensExists ==
  ASSUME NEW S, NEW ss \in Seq(Seq(S))
  PROVE  \A n \in 0 .. Len(ss) : \E f \in [1 .. n -> Seq(S)] : Flattens(f, ss, n)
  <1> DEFINE Good(n) == \E f \in [1 .. n -> Seq(S)] : Flattens(f, ss, n)
             T == {n \in 0 .. Len(ss) : ~Good(n)}
  <1> SUFFICES ASSUME T # {}
               PROVE  FALSE
    OBVIOUS
  <1>1. PICK n \in T : \A i \in T : n <= i
    <2> T \in SUBSET Nat
      OBVIOUS
    <2> HIDE DEF T
    <2> QED
      BY LeastNatural
  <1>2. n \in 0 .. Len(ss) /\ ~Good(n)
    OBVIOUS
  <1>3. CASE n = 0
    <2> DEFINE f == [i \in 1 .. 0 |-> IF i = 1 THEN ss[i] ELSE <<>>]
    <2>1. f \in [1 .. 0 -> Seq(S)] /\ Flattens(f, ss, 0)
      BY DEF Flattens
    <2> QED
      BY <1>2, <1>3, <2>1
  <1>4. CASE n # 0
    <2>1. n - 1 \in 0 .. Len(ss) /\ n \in 1 .. Len(ss) /\ ~(n <= n - 1)
      BY <1>2, <1>4
    <2>2. Good(n - 1)
      BY <1>1, <2>1
    <2>3. PICK f \in [1 .. n - 1 -> Seq(S)] : Flattens(f, ss, n - 1)
      BY <2>2
    <2> DEFINE last == IF n = 1 THEN ss[n] ELSE f[n - 1] \o ss[n]
               g == [i \in 1 .. n |-> IF i = n THEN last ELSE f[i]]
    <2>4. ss[n] \in Seq(S)
      BY <2>1
    <2>5. last \in Seq(S)
      <3>1. CASE n = 1
        BY <2>4, <3>1
      <3>2. CASE n # 1
        <4>1. f[n - 1] \in Seq(S)
          BY <2>1, <2>3, <3>2
        <4> QED
          BY <2>4, <3>2, <4>1, ConcatProperties
      <3> QED
        BY <3>1, <3>2
    <2>6. g \in [1 .. n -> Seq(S)]
      <3>1. ASSUME NEW i \in 1 .. n, i # n
            PROVE  f[i] \in Seq(S)
        BY <2>1, <2>3, <3>1
      <3> HIDE DEF last
      <3> QED
        BY <2>5, <3>1
    <2>7. ASSUME NEW i \in 1 .. n
          PROVE  g[i] = IF i = 1 THEN ss[i] ELSE g[i - 1] \o ss[i]
      <3>1. CASE i = n
        <4>1. i # 1 => g[i - 1] = f[i - 1]
          BY <2>1, <3>1
        <4> QED
          BY <3>1, <4>1
      <3>2. CASE i # n
        <4>1. i \in 1 .. n - 1
          BY <2>1, <3>2
        <4>2. f[i] = IF i = 1 THEN ss[i] ELSE f[i - 1] \o ss[i]
          BY <2>3, <4>1 DEF Flattens
        <4>3. g[i] = f[i] /\ (i # 1 => g[i - 1] = f[i - 1])
          BY <2>1, <3>2, <4>1
        <4> QED
          BY <4>2, <4>3
      <3> QED
        BY <3>1, <3>2
    <2> HIDE DEF g
    <2>8. Flattens(g, ss, n)
      BY <2>6, <2>7 DEF Flattens
    <2> QED
      BY <1>2, <2>6, <2>8
  <1> QED
    BY <1>3, <1>4

\* What FlattenSeq returns, by way of any such function.
LEMMA FlattenSeqValue ==
  ASSUME NEW S, NEW ss \in Seq(Seq(S)), ss # <<>>,
         NEW f, Flattens(f, ss, Len(ss))
  PROVE  FlattenSeq(ss) = f[Len(ss)]
  <1> DEFINE g == CHOOSE h : Flattens(h, ss, Len(ss))
  <1>1. Flattens(g, ss, Len(ss))
    OBVIOUS
  <1>2. Len(ss) \in Nat /\ Len(ss) # 0
    OBVIOUS
  <1>3. FlattenSeq(ss) = g[Len(ss)]
    BY <1>2 DEF FlattenSeq, Flattens
  <1> HIDE DEF g
  <1>4. Len(ss) \in 1 .. Len(ss)
    BY <1>2
  <1>5. SamePrefix(f, g, Len(ss))
    BY <1>1, <1>2, FlattensUnique DEF SamePrefix
  <1> QED
    BY <1>3, <1>4, <1>5 DEF SamePrefix

\* Nothing is gained from no buffers; a buffer more adds its lines at the end.
LEMMA FlattenAppend ==
  ASSUME NEW S, NEW ss \in Seq(Seq(S))
  PROVE  /\ FlattenSeq(ss) \in Seq(S)
         /\ ss = <<>> => FlattenSeq(ss) = <<>>
         /\ \A b \in Seq(S) : FlattenSeq(Append(ss, b)) = FlattenSeq(ss) \o b
  <1>1. ss = <<>> => FlattenSeq(ss) = <<>>
    BY DEF FlattenSeq
  <1>2. FlattenSeq(ss) \in Seq(S)
    <2>1. CASE ss = <<>>
      <3>1. <<>> \in Seq(S)
        BY EmptySeq
      <3> QED
        BY <1>1, <2>1, <3>1, Zenon
    <2>2. CASE ss # <<>>
      <3>1. Len(ss) \in 0 .. Len(ss) /\ Len(ss) \in 1 .. Len(ss)
        BY <2>2
      <3>2. PICK f \in [1 .. Len(ss) -> Seq(S)] : Flattens(f, ss, Len(ss))
        BY <3>1, FlattensExists
      <3> QED
        BY <2>2, <3>1, <3>2, FlattenSeqValue
    <2> QED
      BY <2>1, <2>2
  <1>3. ASSUME NEW b \in Seq(S)
        PROVE  FlattenSeq(Append(ss, b)) = FlattenSeq(ss) \o b
    <2> DEFINE tt == Append(ss, b)
               n  == Len(ss)
    <2>1. /\ tt \in Seq(Seq(S)) /\ tt # <<>> /\ Len(tt) = n + 1 /\ n \in Nat
          /\ \A i \in 1 .. n : ss[i] = tt[i]
          /\ tt[n + 1] = b
      BY AppendProperties
    <2> HIDE DEF tt
    <2>2. n + 1 \in 0 .. Len(tt)
      BY <2>1
    <2>3. PICK g \in [1 .. n + 1 -> Seq(S)] : Flattens(g, tt, n + 1)
      BY <2>1, <2>2, FlattensExists
    <2>4. FlattenSeq(tt) = g[n + 1]
      BY <2>1, <2>3, FlattenSeqValue
    <2>5. g[n + 1] = IF n + 1 = 1 THEN b ELSE g[n] \o b
      <3>1. n + 1 \in 1 .. n + 1 /\ (n + 1) - 1 = n
        BY <2>1
      <3>2. g[n + 1] = IF n + 1 = 1 THEN tt[n + 1] ELSE g[(n + 1) - 1] \o tt[n + 1]
        BY <2>3, <3>1 DEF Flattens
      <3> QED
        BY <2>1, <3>1, <3>2, Zenon
    <2>6. CASE ss = <<>>
      <3>1. g[n + 1] = b
        BY <2>5, <2>6
      <3>2. <<>> \o b = b
        BY ConcatEmptySeq
      <3> QED
        BY <1>1, <2>4, <2>6, <3>1, <3>2, Zenon DEF tt
    <2>7. CASE ss # <<>>
      <3>1. n \in 0 .. Len(ss) /\ n \in 1 .. n /\ n + 1 # 1 /\ n <= n + 1
        BY <2>1, <2>7
      <3>2. PICK f \in [1 .. n -> Seq(S)] : Flattens(f, ss, n)
        BY <3>1, FlattensExists
      <3>3. f[n] = g[n]
        <4> HIDE DEF n
        <4>1. n \in Nat /\ n + 1 \in Nat /\ n <= n + 1
          BY <2>1
        <4>2. SamePrefix(ss, tt, n)
          BY <2>1 DEF SamePrefix
        <4>3. SamePrefix(f, g, n)
          BY <2>3, <3>2, <4>1, <4>2, FlattensUnique
        <4> QED
          BY <3>1, <4>3 DEF SamePrefix
      <3>4. FlattenSeq(ss) = f[n]
        BY <2>7, <3>2, FlattenSeqValue
      <3> QED
        BY <2>4, <2>5, <3>1, <3>3, <3>4, Zenon DEF tt
    <2> QED
      BY <2>6, <2>7
  <1> QED
    BY <1>1, <1>2, <1>3

-----------------------------------------------------------------------------
(* The inductive invariant.                                                *)

\* The backend is between two rounds, with its own buffers empty.
Idle == bpc \in {"none", "open", "loop", "lock", "waiting", "sweep"}

\* Where the buffers are at each place of the backend.  nextBuffer_ is gone
\* only if a full buffer waits, so that a round that gives both of its own
\* buffers away has at least two to take back.
BuffersPlaced ==
    /\ main = "init" <=> bpc = "none"
    /\ main \in {"stopped", "off"} => bpc = "exited"
    /\ nextBuffer_ \in {<<>>, Null}
    /\ bpc # "exited" /\ nextBuffer_ = Null => buffers_ # <<>>
    /\ Idle => buffer1 = <<>> /\ buffer2 = <<>> /\ buffersToWrite = <<>>
    /\ bpc \in {"write", "recycle"} =>
         /\ buffer1 = Null /\ buffer2 \in {<<>>, Null}
         /\ buffersToWrite # <<>>
         /\ buffer2 = Null => Len(buffersToWrite) > 1
    /\ bpc # "exited" => currentBuffer_ # Null

\* A current buffer that the last sweep has taken is in the file.
SweptIsWritten == currentBuffer_ = Null => file = appended

LogInv ==
    /\ TypeOK
    /\ BuffersPlaced
    /\ NothingUndefined
    /\ LinesInOrder
    /\ SweptIsWritten

\* Nothing is moved, dereferenced or written before the first step.
LEMMA InitLogInv == Init => LogInv
  <1> SUFFICES ASSUME Init
               PROVE  LogInv
    OBVIOUS
  <1> USE AsyncLoggingAssumption DEF Init
  <1>1. <<>> \in Seq(Lines) /\ <<>> \in Seq(Seq(Lines)) /\ <<>> # Null
    BY EmptySeq
  <1>2. TypeOK
    BY <1>1 DEF TypeOK, Pointers
  <1>3. BuffersPlaced /\ NothingUndefined /\ SweptIsWritten
    BY <1>1 DEF BuffersPlaced, NothingUndefined, SweptIsWritten, Idle
  <1>4. LinesInOrder
    <2>1. FlattenSeq(<<>>) = <<>>
      BY <1>1, FlattenAppend
    <2>2. <<>> \o <<>> = <<>>
      BY <1>1, ConcatEmptySeq
    <2> QED
      BY <1>1, <2>1, <2>2, Zenon DEF LinesInOrder, Unwritten
  <1> QED
    BY <1>2, <1>3, <1>4 DEF LogInv

\* The types survive every step: FlattenSeq returns lines, and a buffer that is
\* taken from a vector is a buffer.
LEMMA StepTypeOK ==
  ASSUME LogInv, [Next]_vars
  PROVE  TypeOK'
  <1> USE AsyncLoggingAssumption DEF LogInv, TypeOK, Pointers
  <1>0. <<>> \in Seq(Lines) /\ <<>> \in Seq(Seq(Lines))
    BY EmptySeq
  <1>1. CASE Start \/ StopStores \/ StopJoins \/ CutOff
    BY <1>1 DEF Start, StopStores, StopJoins, CutOff, front, back
  <1>2. ASSUME NEW t \in Threads, NEW x \in Lines, AppendLine(t, x)
        PROVE  TypeOK'
    <2>1. Append(appended, x) \in Seq(Lines)
      BY AppendProperties
    <2>2. CASE UNCHANGED <<front, appended>>
      BY <1>2, <2>2 DEF AppendLine, front, back
    <2>3. CASE /\ currentBuffer_ # Null
               /\ currentBuffer_' = Append(currentBuffer_, x)
               /\ appended' = Append(appended, x)
               /\ UNCHANGED <<nextBuffer_, buffers_, undefined>>
      <3>1. Append(currentBuffer_, x) \in Seq(Lines)
        BY <2>3, AppendProperties
      <3> QED
        BY <1>2, <2>1, <2>3, <3>1 DEF AppendLine, back
    <2>4. CASE /\ currentBuffer_ # Null
               /\ buffers_' = Append(buffers_, currentBuffer_)
               /\ currentBuffer_' = Append(FreshBuffer, x)
               /\ nextBuffer_' = Null
               /\ appended' = Append(appended, x)
               /\ UNCHANGED undefined
      <3>1. Append(buffers_, currentBuffer_) \in Seq(Seq(Lines))
        BY <2>4, AppendProperties
      <3>2. FreshBuffer \in Seq(Lines)
        BY <1>0 DEF FreshBuffer
      <3>3. Append(FreshBuffer, x) \in Seq(Lines)
        BY <3>2, AppendProperties
      <3> QED
        BY <1>2, <2>1, <2>4, <3>1, <3>3 DEF AppendLine, back
    <2> QED
      BY <1>2, <2>2, <2>3, <2>4 DEF AppendLine
  <1>3. CASE OpenFile \/ CheckRunning \/ StartWaiting
    BY <1>3 DEF OpenFile, CheckRunning, StartWaiting, front, back
  <1>4. CASE SwapBuffers
    <2>1. Append(buffers_, currentBuffer_) \in Seq(Seq(Lines))
      BY <1>4, AppendProperties DEF SwapBuffers, WaitEnds, BuffersPlaced
    <2> QED
      BY <1>4, <2>1 DEF SwapBuffers
  <1>5. CASE WriteBuffers
    <2>1. file \o FlattenSeq(buffersToWrite) \in Seq(Lines)
      BY FlattenAppend, ConcatProperties
    <2> QED
      BY <1>5, <2>1 DEF WriteBuffers, front, back
  <1>6. CASE Recycle
    BY <1>0, <1>6 DEF Recycle, Reset, front, back
  <1>7. CASE FinalSweep
    <2>1. Swept \in Seq(Seq(Lines))
      BY <1>7, AppendProperties DEF FinalSweep, Swept, BuffersPlaced
    <2>2. file \o FlattenSeq(Swept) \in Seq(Lines)
      BY <2>1, FlattenAppend, ConcatProperties
    <2> QED
      BY <1>7, <2>1, <2>2 DEF FinalSweep
  <1>8. CASE UNCHANGED vars
    BY <1>8 DEF vars
  <1> QED
    BY <1>1, <1>2, <1>3, <1>4, <1>5, <1>6, <1>7, <1>8 DEF Next, Backend

\* A vector with one buffer more is not empty and is one longer.
LEMMA FullerVector ==
  ASSUME NEW bs \in Seq(Seq(Lines)), NEW b \in Seq(Lines)
  PROVE  /\ Append(bs, b) # <<>>
         /\ Len(Append(bs, b)) = Len(bs) + 1
         /\ Len(bs) \in Nat
         /\ bs # <<>> => Len(bs) # 0
  BY AppendProperties, LenProperties, EmptySeq

\* The buffers stay where they belong: only a swap takes the backend's own
\* ones, and the recycling that follows finds enough to give both back.
LEMMA StepBuffersPlaced ==
  ASSUME LogInv, [Next]_vars
  PROVE  BuffersPlaced' /\ NothingUndefined'
  <1> USE AsyncLoggingAssumption DEF LogInv, BuffersPlaced, NothingUndefined, Idle
  <1>0. <<>> # Null
    BY EmptySeq
  <1>1. CASE Start \/ StopStores \/ StopJoins \/ CutOff
    BY <1>1 DEF Start, StopStores, StopJoins, CutOff, front, back
  <1>2. ASSUME NEW t \in Threads, NEW x \in Lines, AppendLine(t, x)
        PROVE  BuffersPlaced' /\ NothingUndefined'
    <2>1. CASE currentBuffer_ = Null
      BY <1>2, <2>1 DEF AppendLine, front, back
    <2>2. CASE /\ currentBuffer_ # Null
               /\ currentBuffer_' = Append(currentBuffer_, x)
               /\ UNCHANGED <<nextBuffer_, buffers_, undefined>>
      <3>1. Append(currentBuffer_, x) \in Seq(Lines)
        BY <2>2, AppendProperties DEF TypeOK, Pointers
      <3>2. currentBuffer_' # Null
        BY <2>2, <3>1
      <3> QED
        BY <1>2, <2>2, <3>2 DEF AppendLine, back
    <2>3. CASE /\ currentBuffer_ # Null
               /\ buffers_' = Append(buffers_, currentBuffer_)
               /\ currentBuffer_' = Append(FreshBuffer, x)
               /\ nextBuffer_' = Null
               /\ UNCHANGED undefined
      <3>1. FreshBuffer = <<>>
        BY DEF FreshBuffer
      <3>2. Append(FreshBuffer, x) \in Seq(Lines)
        BY <3>1, EmptySeq, AppendProperties
      <3>3. currentBuffer_' # Null
        BY <2>3, <3>2
      <3>4. buffers_' # <<>>
        <4>1. buffers_ \in Seq(Seq(Lines)) /\ currentBuffer_ \in Seq(Lines)
          BY <2>3 DEF TypeOK, Pointers
        <4> QED
          BY <2>3, <4>1, FullerVector
      <3> QED
        BY <1>2, <2>3, <3>3, <3>4 DEF AppendLine, back
    <2> QED
      BY <1>2, <2>1, <2>2, <2>3 DEF AppendLine
  <1>3. CASE OpenFile \/ CheckRunning \/ StartWaiting
    BY <1>3 DEF OpenFile, CheckRunning, StartWaiting, front, back
  <1>4. CASE SwapBuffers
    <2>1. Idle /\ bpc # "none" /\ currentBuffer_ \in Seq(Lines)
      BY <1>4 DEF SwapBuffers, WaitEnds, TypeOK, Pointers
    <2>2. /\ buffersToWrite' # <<>>
          /\ Len(buffersToWrite') = Len(buffers_) + 1
          /\ Len(buffers_) \in Nat
          /\ buffers_ # <<>> => Len(buffers_) # 0
      <3>1. buffers_ \in Seq(Seq(Lines)) /\ buffersToWrite' = Append(buffers_, currentBuffer_)
        BY <1>4 DEF SwapBuffers, TypeOK
      <3> QED
        BY <2>1, <3>1, FullerVector
    <2>3. nextBuffer_ = Null => Len(buffersToWrite') > 1
      BY <2>1, <2>2
    <2> QED
      BY <1>0, <1>4, <2>1, <2>2, <2>3 DEF SwapBuffers, Replenishes
  <1>5. CASE WriteBuffers
    BY <1>5 DEF WriteBuffers, front, back
  <1>6. CASE Recycle
    <2>1. Len(buffersToWrite) \in Nat /\ Len(buffersToWrite) # 0
      BY <1>6 DEF Recycle, TypeOK
    <2>2. Missing = 1 \/ (Missing = 2 /\ buffer2 = Null)
      BY <1>0, <1>6 DEF Recycle, Missing
    <2>3. Len(KeptBuffers) = IF Len(buffersToWrite) > 2 THEN 2 ELSE Len(buffersToWrite)
      <3>1. Len(buffersToWrite) > 2 => Len(SubSeq(buffersToWrite, 1, 2)) = 2
        BY <2>1, SubSeqProperties DEF TypeOK
      <3> QED
        BY <3>1 DEF KeptBuffers
    <2>4. ~(Missing > Len(KeptBuffers))
      BY <1>6, <2>1, <2>2, <2>3 DEF Recycle
    <2>5. /\ undefined' = undefined
          /\ buffer1' = <<>> /\ buffer2' = <<>> /\ buffersToWrite' = <<>>
      BY <1>6, <2>4 DEF Recycle, Reset
    <2> QED
      BY <1>6, <2>5 DEF Recycle, front
  <1>7. CASE FinalSweep
    BY <1>7 DEF FinalSweep
  <1>8. CASE UNCHANGED vars
    BY <1>8 DEF vars
  <1> QED
    BY <1>1, <1>2, <1>3, <1>4, <1>5, <1>6, <1>7, <1>8 DEF Next, Backend

\* The file f, then the lines on their way: the buffers being written w, the
\* full ones q and the current one c.
AllLines(f, w, q, c) == f \o (w \o q \o c)

\* What the steps of the log do to these four leaves all the lines as they
\* are, or adds one at the end: a line goes to the current buffer, or to a new
\* one; the buffers are swapped out; they are written; the last sweep.
KeepsLines(f, w, q, c) ==
    /\ \A x \in Lines :
         /\ AllLines(f, w, q, Append(c, x)) = Append(AllLines(f, w, q, c), x)
         /\ AllLines(f, w, q \o c, Append(<<>>, x)) = Append(AllLines(f, w, q, c), x)
    /\ AllLines(f, q \o c, <<>>, <<>>) = AllLines(f, <<>>, q, c)
    /\ AllLines(f \o w, <<>>, q, c) = AllLines(f, w, q, c)
    /\ f \o (q \o c) = AllLines(f, <<>>, q, c)

\* They do, for any lines.
LEMMA LinesMove ==
  ASSUME NEW f \in Seq(Lines), NEW w \in Seq(Lines), NEW q \in Seq(Lines),
         NEW c \in Seq(Lines)
  PROVE  KeepsLines(f, w, q, c)
  <1>1. /\ <<>> \in Seq(Lines) /\ w \o q \in Seq(Lines) /\ q \o c \in Seq(Lines)
        /\ w \o q \o c \in Seq(Lines) /\ f \o (w \o q \o c) \in Seq(Lines)
    BY EmptySeq, ConcatProperties
  <1>2. <<>> \o q = q /\ (q \o c) \o <<>> = q \o c /\ (w \o q \o c) \o <<>> = w \o q \o c
    BY <1>1, ConcatEmptySeq
  <1>3. w \o (q \o c) = w \o q \o c
    BY SMTT(30), ConcatAssociative
  <1>4. ASSUME NEW x \in Lines
        PROVE  /\ AllLines(f, w, q, Append(c, x)) = Append(AllLines(f, w, q, c), x)
               /\ AllLines(f, w, q \o c, Append(<<>>, x)) = Append(AllLines(f, w, q, c), x)
    <2>1. <<x>> \in Seq(Lines)
      OBVIOUS
    <2>2. Append(c, x) = c \o <<x>> /\ Append(<<>>, x) = <<x>>
      BY AppendIsConcat
    <2>3. (w \o q) \o (c \o <<x>>) = (w \o q \o c) \o <<x>>
      BY <1>1, <2>1, ConcatAssociative
    <2>4. f \o ((w \o q \o c) \o <<x>>) = (f \o (w \o q \o c)) \o <<x>>
      BY <1>1, <2>1, ConcatAssociative
    <2>5. Append(f \o (w \o q \o c), x) = (f \o (w \o q \o c)) \o <<x>>
      BY <1>1, AppendIsConcat
    <2> QED
      BY <1>3, <2>2, <2>3, <2>4, <2>5, Zenon DEF AllLines
  <1>5. AllLines(f \o w, <<>>, q, c) = AllLines(f, w, q, c)
    <2>1. (f \o w) \o (q \o c) = f \o (w \o (q \o c))
      BY SMTT(30), <1>1, ConcatAssociative
    <2> QED
      BY <1>2, <1>3, <2>1, Zenon DEF AllLines
  <1>6. /\ AllLines(f, q \o c, <<>>, <<>>) = AllLines(f, <<>>, q, c)
        /\ f \o (q \o c) = AllLines(f, <<>>, q, c)
    BY <1>2, Zenon DEF AllLines
  <1> QED
    BY <1>4, <1>5, <1>6, Zenon DEF KeepsLines

\* The three parts of the lines on their way, as the state has them.
Writing == IF bpc = "write" THEN FlattenSeq(buffersToWrite) ELSE <<>>

Full == FlattenSeq(buffers_)

Current == IF currentBuffer_ = Null THEN <<>> ELSE currentBuffer_

\* They are sequences of lines, and a full buffer adds its lines at the end.
LEMMA PartsAreLines ==
  ASSUME TypeOK
  PROVE  /\ Writing \in Seq(Lines) /\ Full \in Seq(Lines) /\ Current \in Seq(Lines)
         /\ FlattenSeq(buffersToWrite) \in Seq(Lines)
         /\ \A b \in Seq(Lines) : FlattenSeq(Append(buffers_, b)) = Full \o b
  <1>1. buffers_ \in Seq(Seq(Lines)) /\ buffersToWrite \in Seq(Seq(Lines))
    BY DEF TypeOK
  <1>2. <<>> \in Seq(Lines)
    BY EmptySeq
  <1>3. FlattenSeq(buffers_) \in Seq(Lines) /\ FlattenSeq(buffersToWrite) \in Seq(Lines)
    BY <1>1, FlattenAppend
  <1>4. \A b \in Seq(Lines) : FlattenSeq(Append(buffers_, b)) = FlattenSeq(buffers_) \o b
    BY <1>1, FlattenAppend
  <1>5. Writing \in Seq(Lines)
    BY <1>2, <1>3 DEF Writing
  <1>6. Current \in Seq(Lines)
    BY <1>2 DEF Current, TypeOK, Pointers
  <1> QED
    BY <1>3, <1>4, <1>5, <1>6, Zenon DEF Full

\* No step of the log loses, repeats or reorders a line.
LEMMA StepLinesInOrder ==
  ASSUME LogInv, [Next]_vars
  PROVE  LinesInOrder' /\ SweptIsWritten'
  <1> DEFINE All == AllLines(file, Writing, Full, Current)
  <1>0. /\ TypeOK /\ BuffersPlaced /\ SweptIsWritten
        /\ bpc # "exited" => appended = All
        /\ LinesInOrder' <=> (bpc' # "exited" => appended' = All')
    BY Zenon DEF LogInv, LinesInOrder, Unwritten, AllLines, Writing, Full, Current
  <1>1. /\ file \in Seq(Lines) /\ <<>> \in Seq(Lines) /\ <<>> # Null
        /\ Writing \in Seq(Lines) /\ Full \in Seq(Lines) /\ Current \in Seq(Lines)
        /\ FlattenSeq(<<>>) = <<>>
    <2>1. <<>> \in Seq(Lines) /\ <<>> \in Seq(Seq(Lines))
      BY EmptySeq
    <2>2. FlattenSeq(<<>>) = <<>>
      BY <2>1, FlattenAppend
    <2>3. file \in Seq(Lines) /\ <<>> # Null
      BY <1>0, <2>1, AsyncLoggingAssumption DEF TypeOK
    <2> QED
      BY <1>0, <2>1, <2>2, <2>3, PartsAreLines, Zenon
  <1>2. KeepsLines(file, Writing, Full, Current)
    BY <1>1, LinesMove
  <1>3. ASSUME UNCHANGED <<front, file, appended>>,
               bpc' = bpc \/ (bpc # "write" /\ bpc' # "write" /\ bpc # "exited"),
               buffersToWrite' = buffersToWrite \/ bpc # "write"
        PROVE  LinesInOrder' /\ SweptIsWritten'
    <2>1. All' = All
      BY <1>3 DEF Writing, Full, Current, front
    <2> QED
      BY <1>0, <1>3, <2>1 DEF SweptIsWritten, front
  <1>4. CASE Start \/ StopStores \/ StopJoins \/ CutOff
    <2>1. Start => bpc = "none"
      BY <1>0 DEF Start, BuffersPlaced
    <2> QED
      BY <1>3, <1>4, <2>1 DEF Start, StopStores, StopJoins, CutOff, back
  <1>5. CASE OpenFile \/ CheckRunning \/ StartWaiting \/ Recycle
    BY <1>3, <1>5 DEF OpenFile, CheckRunning, StartWaiting, Recycle, back
  <1>6. ASSUME NEW t \in Threads, NEW x \in Lines, AppendLine(t, x)
        PROVE  LinesInOrder' /\ SweptIsWritten'
    <2>0. UNCHANGED <<bpc, file, buffersToWrite>> /\ Writing' = Writing
      BY <1>6 DEF AppendLine, back, Writing
    <2>1. CASE currentBuffer_ = Null
      BY <1>3, <1>6, <2>0, <2>1 DEF AppendLine
    <2>2. CASE currentBuffer_ # Null
      <3>1. /\ currentBuffer_ \in Seq(Lines) /\ Current = currentBuffer_
            /\ appended' = Append(appended, x)
        BY <1>0, <1>6, <2>2 DEF TypeOK, Pointers, Current, AppendLine
      <3>2. /\ Append(currentBuffer_, x) \in Seq(Lines) /\ Append(<<>>, x) \in Seq(Lines)
            /\ Append(currentBuffer_, x) # Null /\ Append(<<>>, x) # Null
        <4>1. Append(currentBuffer_, x) \in Seq(Lines)
          BY <3>1, AppendProperties
        <4>2. Append(<<>>, x) \in Seq(Lines)
          BY <1>1, AppendProperties
        <4> QED
          BY <4>1, <4>2, AsyncLoggingAssumption, Zenon
      <3>3. CASE currentBuffer_' = Append(currentBuffer_, x) /\ UNCHANGED buffers_
        <4>1. Full' = Full /\ Current' = Append(Current, x) /\ currentBuffer_' # Null
          BY <3>1, <3>2, <3>3 DEF Full, Current
        <4>2. AllLines(file, Writing, Full, Append(Current, x)) = Append(All, x)
          BY <1>2, Zenon DEF KeepsLines
        <4> QED
          BY <1>0, <2>0, <3>1, <4>1, <4>2, Zenon DEF SweptIsWritten
      <3>4. CASE /\ buffers_' = Append(buffers_, currentBuffer_)
                 /\ currentBuffer_' = Append(FreshBuffer, x)
        <4>1. FreshBuffer = <<>>
          BY <1>0 DEF FreshBuffer, BuffersPlaced
        <4>2. /\ Full' = Full \o Current /\ Current' = Append(<<>>, x)
              /\ currentBuffer_' # Null
          BY <1>0, <3>1, <3>2, <3>4, <4>1, PartsAreLines, Zenon DEF Full, Current
        <4>3. AllLines(file, Writing, Full \o Current, Append(<<>>, x)) = Append(All, x)
          BY <1>2, Zenon DEF KeepsLines
        <4> QED
          BY <1>0, <2>0, <3>1, <4>2, <4>3, Zenon DEF SweptIsWritten
      <3> QED
        BY <1>6, <2>2, <3>3, <3>4 DEF AppendLine
    <2> QED
      BY <2>1, <2>2
  <1>7. ASSUME Idle
        PROVE  /\ currentBuffer_ \in Seq(Lines) /\ Current = currentBuffer_
               /\ buffer1 = <<>> /\ buffersToWrite = <<>> /\ Writing = <<>>
               /\ FlattenSeq(Append(buffers_, currentBuffer_)) = Full \o Current
               /\ bpc # "exited"
    <2>1. /\ currentBuffer_ \in Seq(Lines) /\ Current = currentBuffer_ /\ Writing = <<>>
          /\ buffer1 = <<>> /\ buffersToWrite = <<>> /\ bpc # "exited"
      BY <1>0, <1>7 DEF BuffersPlaced, Idle, TypeOK, Pointers, Writing, Current
    <2> QED
      BY <1>0, <2>1, PartsAreLines, Zenon
  <1>8. CASE SwapBuffers
    <2>1. Idle
      BY <1>8 DEF SwapBuffers, WaitEnds, Idle
    <2>2. /\ bpc' = "write" /\ UNCHANGED <<file, appended>>
          /\ buffersToWrite' = Append(buffers_, currentBuffer_)
          /\ buffers_' = <<>> /\ currentBuffer_' = <<>>
      BY <1>7, <1>8, <2>1 DEF SwapBuffers
    <2>3. Writing' = Full \o Current /\ Full' = <<>> /\ Current' = <<>>
      BY <1>1, <1>7, <2>1, <2>2, Zenon DEF Writing, Full, Current
    <2>4. AllLines(file, Full \o Current, <<>>, <<>>) = AllLines(file, <<>>, Full, Current)
      BY <1>2, Zenon DEF KeepsLines
    <2> QED
      BY <1>0, <1>1, <1>7, <2>1, <2>2, <2>3, <2>4, Zenon DEF SweptIsWritten
  <1>9. CASE WriteBuffers
    <2>1. /\ bpc = "write" /\ bpc' = "recycle" /\ bpc # "exited" /\ bpc' # "write"
          /\ file' = file \o FlattenSeq(buffersToWrite)
          /\ UNCHANGED <<buffers_, currentBuffer_, appended>>
          /\ currentBuffer_ # Null
      BY <1>0, <1>9 DEF WriteBuffers, front, BuffersPlaced
    <2>2. /\ Writing' = <<>> /\ Full' = Full /\ Current' = Current
          /\ file' = file \o Writing
      BY <2>1, Zenon DEF Writing, Full, Current
    <2>3. AllLines(file \o Writing, <<>>, Full, Current) = All
      BY <1>2, Zenon DEF KeepsLines
    <2> QED
      BY <1>0, <2>1, <2>2, <2>3, Zenon DEF SweptIsWritten
  <1>10. CASE FinalSweep
    <2>1. Idle /\ bpc' = "exited"
      BY <1>10 DEF FinalSweep, Idle
    <2>2. file' = file \o FlattenSeq(Append(buffers_, currentBuffer_)) /\ appended' = appended
      BY <1>10 DEF FinalSweep, Swept
    <2>3. file \o (Full \o Current) = AllLines(file, <<>>, Full, Current)
      BY <1>2, Zenon DEF KeepsLines
    <2> QED
      BY <1>0, <1>7, <2>1, <2>2, <2>3, Zenon DEF SweptIsWritten
  <1>11. CASE UNCHANGED vars
    BY <1>3, <1>11 DEF vars, front
  <1> QED
    BY <1>4, <1>5, <1>6, <1>8, <1>9, <1>10, <1>11 DEF Next, Backend

\* LogInv holds in every state of the asynchronous log.
THEOREM LogInvariant == Spec => []LogInv
  <1>1. Init => LogInv
    BY InitLogInv
  <1>2. LogInv /\ [Next]_vars => LogInv'
    BY StepTypeOK, StepBuffersPlaced, StepLinesInOrder DEF LogInv
  <1> QED
    BY <1>1, <1>2, PTL DEF Spec

\* Pointers, vectors and program counters of the asynchronous log keep their types.
THEOREM TypeCorrect == Spec => []TypeOK
  BY LogInvariant, PTL DEF LogInv

\* Exactly once, in order: for any number of threads, lines and any capacity,
\* the file and the buffers on their way to it (Append, ThreadFunc) hold every
\* line that was appended, once and in order.
THEOREM LinesStayInOrder == Spec => []LinesInOrder
  BY LogInvariant, PTL DEF LogInv

\* No null buffer is dereferenced, and no back() taken of an empty vector,
\* before the backend thread has ended.
THEOREM NeverUndefined == Spec => []NothingUndefined
  BY LogInvariant, PTL DEF LogInv

\* Stop() returns with every line in the file, if the file could be opened.
THEOREM StopHasFlushed == Spec => []StopFlushes
  <1>1. LogInv => StopFlushes
    BY DEF LogInv, SweptIsWritten, StopFlushes
  <1> QED
    BY <1>1, LogInvariant, PTL

=============================================================================
