--------------------------- MODULE EventLoopProofs ---------------------------
(***************************************************************************)
(* Proofs about EventLoop, for any set of threads and functors, any finite *)
(* set of channels, any initial size of the event array and any bound on   *)
(* the quit calls.                                                         *)
(***************************************************************************)
EXTENDS EventLoop, FiniteSetTheorems, SequenceTheorems, TLAPS

-----------------------------------------------------------------------------
(* Types.                                                                  *)

\* What epoll_wait returns are channels, and finitely many of them.
LEMMA BatchIsFinite ==
  ASSUME TypeOK, NEW n, NEW b \in Batches(n)
  PROVE  b \subseteq Live /\ b \subseteq Channels /\ Cardinality(b) \in Nat
  <1>1. b \subseteq Live /\ b \subseteq Channels
    BY DEF Batches, Live, TypeOK
  <1>2. IsFiniteSet(Channels)
    BY EventLoopAssumption, FS_AddElement DEF Channels
  <1>3. Cardinality(b) \in Nat
    BY <1>1, <1>2, FS_Subset, FS_CardinalityType
  <1> QED
    BY <1>1, <1>3

\* A new loop is well typed.
LEMMA InitTypeOK == Init => TypeOK
  <1> SUFFICES ASSUME Init
               PROVE  TypeOK
    OBVIOUS
  <1>1. inCallback \in BOOLEAN /\ quit_ \in BOOLEAN
    BY DEF Init
  <1>2. /\ pending_functors_ \in Seq(Functors)
        /\ functors \in Seq(Functors)
        /\ pushed \in Seq(Functors)
        /\ done \in Seq(Functors)
    BY DEF Init
  <1>3. eventsSize \in Nat \ {0}
    BY EventLoopAssumption DEF Init
  <1> QED
    BY <1>1, <1>2, <1>3 DEF Init, TypeOK, LoopPcs

\* No step of a caller, the kernel or the loop leaves the types.
LEMMA NextTypeOK == TypeOK /\ [Next]_vars => TypeOK'
  <1> SUFFICES ASSUME TypeOK, [Next]_vars
               PROVE  TypeOK'
    OBVIOUS
  <1> USE DEF TypeOK, LoopPcs, loopVars, kernelVars, history
  <1>1. ASSUME NEW t \in Actors, NEW f \in Functors, QueueInLoop(t, f)
        PROVE  TypeOK'
    BY <1>1 DEF QueueInLoop, WakesOnQueue
  <1>2. ASSUME NEW t \in Actors, NEW f \in Functors, RunInLoop(t, f)
        PROVE  TypeOK'
    BY <1>1, <1>2 DEF RunInLoop
  <1>3. ASSUME NEW t \in Actors, Wakeup(t)
        PROVE  TypeOK'
    BY <1>3 DEF Wakeup, Channels
  <1>4. ASSUME NEW t \in Actors, Quit(t)
        PROVE  TypeOK'
    BY <1>4 DEF Quit, WakesOnQuit
  <1>5. CASE QuitFromSignal
    BY <1>5 DEF QuitFromSignal, Actors
  <1>6. ASSUME NEW c \in IoChannels, IoReady(c)
        PROVE  TypeOK'
    BY <1>6 DEF IoReady, Channels
  <1>7. CASE LoopEnter
    BY <1>7 DEF LoopEnter
  <1>8. CASE CheckQuit
    BY <1>8 DEF CheckQuit
  <1>9. CASE EpollWait
    <2>1. PICK b \in Batches(eventsSize) :
            events' = b /\ nfds' = Cardinality(b) /\ ready' = Live \ b
      BY <1>9 DEF EpollWait
    <2>2. b \subseteq Channels /\ Cardinality(b) \in Nat
      BY <2>1, BatchIsFinite
    <2>3. ready' \subseteq Channels
      BY <2>1 DEF Live
    <2> QED
      BY <1>9, <2>1, <2>2, <2>3 DEF EpollWait
  <1>10. CASE HandleWakeup
    BY <1>10 DEF HandleWakeup
  <1>11. ASSUME NEW c \in IoChannels, HandleIo(c)
         PROVE  TypeOK'
    BY <1>11 DEF HandleIo
  <1>12. CASE CallbackReturns
    BY <1>12 DEF CallbackReturns
  <1>13. CASE DispatchDone
    BY <1>13 DEF DispatchDone
  <1>14. CASE SwapFunctors
    BY <1>14 DEF SwapFunctors
  <1>15. CASE RunFunctor
    BY <1>15 DEF RunFunctor
  <1>16. CASE PassDone
    BY <1>16 DEF PassDone, NextEventsSize
  <1>17. CASE EpollInterrupted
    BY <1>17 DEF EpollInterrupted
  <1>18. CASE EpollFails
    BY <1>18 DEF EpollFails
  <1>19. CASE UNCHANGED vars
    BY <1>19 DEF vars
  <1> QED
    BY <1>1, <1>2, <1>3, <1>4, <1>5, <1>6, <1>7, <1>8, <1>9, <1>10, <1>11,
       <1>12, <1>13, <1>14, <1>15, <1>16, <1>17, <1>18, <1>19
    DEF Next, LoopStep

\* The type invariant of the loop's state holds in every reachable state.
THEOREM TypeCorrect == Spec => []TypeOK
  BY InitTypeOK, NextTypeOK, PTL DEF Spec

-----------------------------------------------------------------------------
(* The wakeup protocol.                                                    *)

\* A new loop has nothing queued and has not been asked to quit.
LEMMA InitWakeupInv == Init => WakeupInv
  BY DEF Init, WakeupInv, LoopShape, NoLostWakeup, NoLostQuit, WakeupReadSucceeds

\* Every step keeps the wakeup protocol: whoever queues or quits owes a
\* write, and only the loop thread, on its way to the swap, drains it.
LEMMA NextWakeupInv == TypeOK /\ WakeupInv /\ [Next]_vars => WakeupInv'
  <1> SUFFICES ASSUME TypeOK, WakeupInv, [Next]_vars
               PROVE  WakeupInv'
    OBVIOUS
  <1> USE EventLoopAssumption
      DEF TypeOK, WakeupInv, LoopShape, NoLostWakeup, NoLostQuit,
          WakeupReadSucceeds, WakeupComing, loopVars, kernelVars, history
  <1>1. ASSUME NEW t \in Actors, NEW f \in Functors, QueueInLoop(t, f)
        PROVE  WakeupInv'
    BY <1>1 DEF QueueInLoop, CanCall, WakesOnQueue
  <1>2. ASSUME NEW t \in Actors, NEW f \in Functors, RunInLoop(t, f)
        PROVE  WakeupInv'
    BY <1>1, <1>2 DEF RunInLoop
  <1>3. ASSUME NEW t \in Actors, Wakeup(t)
        PROVE  WakeupInv'
    BY <1>3 DEF Wakeup
  <1>4. ASSUME NEW t \in Actors, Quit(t)
        PROVE  WakeupInv'
    BY <1>4 DEF Quit, CanCall, WakesOnQuit
  <1>5. CASE QuitFromSignal
    BY <1>5 DEF QuitFromSignal
  <1>6. ASSUME NEW c \in IoChannels, IoReady(c)
        PROVE  WakeupInv'
    BY <1>6 DEF IoReady
  <1>7. CASE LoopEnter
    BY <1>7 DEF LoopEnter
  <1>8. CASE CheckQuit
    BY <1>8 DEF CheckQuit
  <1>9. CASE EpollWait
    <2>1. PICK b \in Batches(eventsSize) : events' = b
      BY <1>9 DEF EpollWait
    <2>2. WakeupChannel \in b => counter > 0
      BY <2>1, BatchIsFinite DEF Live
    <2> QED
      BY <1>9, <2>1, <2>2 DEF EpollWait
  <1>10. CASE HandleWakeup
    BY <1>10 DEF HandleWakeup
  <1>11. ASSUME NEW c \in IoChannels, HandleIo(c)
         PROVE  WakeupInv'
    BY <1>11 DEF HandleIo
  <1>12. CASE CallbackReturns
    BY <1>12 DEF CallbackReturns, LoopFree
  <1>13. CASE DispatchDone
    BY <1>13 DEF DispatchDone
  <1>14. CASE SwapFunctors
    BY <1>14 DEF SwapFunctors
  <1>15. CASE RunFunctor
    BY <1>15 DEF RunFunctor
  <1>16. CASE PassDone
    BY <1>16 DEF PassDone, NextEventsSize
  <1>17. CASE EpollInterrupted
    BY <1>17 DEF EpollInterrupted
  <1>18. CASE EpollFails
    BY <1>18 DEF EpollFails
  <1>19. CASE UNCHANGED vars
    BY <1>19 DEF vars
  <1> QED
    BY <1>1, <1>2, <1>3, <1>4, <1>5, <1>6, <1>7, <1>8, <1>9, <1>10, <1>11,
       <1>12, <1>13, <1>14, <1>15, <1>16, <1>17, <1>18, <1>19
    DEF Next, LoopStep

\* The wakeup protocol holds in every reachable state.
LEMMA WakeupInvariant == Spec => []WakeupInv
  BY InitWakeupInv, NextWakeupInv, TypeCorrect, PTL DEF Spec

\* A functor queued after the loop's swap always has a wakeup coming: the
\* loop cannot sleep in epoll_wait on queued work, whatever the schedule.
THEOREM NoWakeupIsLost == Spec => []NoLostWakeup
  <1>1. WakeupInv => NoLostWakeup
    BY DEF WakeupInv
  <1> QED
    BY <1>1, WakeupInvariant, PTL

\* The loop cannot sleep in epoll_wait on a quit request.
THEOREM NoQuitIsLost == Spec => []NoLostQuit
  <1>1. WakeupInv => NoLostQuit
    BY DEF WakeupInv
  <1> QED
    BY <1>1, WakeupInvariant, PTL

\* HandleRead always finds a counter to read.
THEOREM ReadAlwaysSucceeds == Spec => []WakeupReadSucceeds
  <1>1. WakeupInv => WakeupReadSucceeds
    BY DEF WakeupInv
  <1> QED
    BY <1>1, WakeupInvariant, PTL

-----------------------------------------------------------------------------
(* Exactly once, in order.                                                 *)

\* Queueing at the end of a concatenation.
LEMMA AppendToConcat ==
  ASSUME NEW S, NEW s \in Seq(S), NEW t \in Seq(S), NEW e \in S
  PROVE  s \o Append(t, e) = Append(s \o t, e)
  <1>1. Append(t, e) = t \o <<e>> /\ <<e>> \in Seq(S)
    BY AppendIsConcat
  <1>2. s \o t \in Seq(S)
    BY ConcatProperties
  <1>3. Append(s \o t, e) = (s \o t) \o <<e>>
    BY <1>2, AppendIsConcat
  <1> QED
    BY <1>1, <1>3, ConcatAssociative

\* Moving the head of one sequence to the end of the one before it.
LEMMA HeadMoves ==
  ASSUME NEW S, NEW s \in Seq(S), NEW t \in Seq(S), t # <<>>
  PROVE  Append(s, Head(t)) \o Tail(t) = s \o t
  <1>1. Head(t) \in S /\ Tail(t) \in Seq(S) /\ t = <<Head(t)>> \o Tail(t)
    BY HeadTailProperties
  <1>2. Append(s, Head(t)) = s \o <<Head(t)>> /\ <<Head(t)>> \in Seq(S)
    BY <1>1, AppendIsConcat
  <1> QED
    BY <1>1, <1>2, ConcatAssociative

\* Queueing, swapping and executing keep the functors in order.
LEMMA NextQueuedInOrder ==
  TypeOK /\ LoopShape /\ QueuedInOrder /\ [Next]_vars => QueuedInOrder'
  <1> SUFFICES ASSUME TypeOK, LoopShape, QueuedInOrder, [Next]_vars
               PROVE  QueuedInOrder'
    OBVIOUS
  <1> USE DEF TypeOK, QueuedInOrder, loopVars, kernelVars, history
  <1>0. done \o functors \in Seq(Functors)
    BY ConcatProperties
  <1>1. ASSUME NEW t \in Actors, NEW f \in Functors, QueueInLoop(t, f)
        PROVE  QueuedInOrder'
    <2>1. (done \o functors) \o Append(pending_functors_, f)
            = Append((done \o functors) \o pending_functors_, f)
      BY <1>0, AppendToConcat
    <2>2. /\ pushed' = Append(pushed, f)
          /\ pending_functors_' = Append(pending_functors_, f)
          /\ done' = done /\ functors' = functors
      BY <1>1 DEF QueueInLoop
    <2> QED
      BY <2>1, <2>2, Zenon
  <1>2. ASSUME NEW t \in Actors, NEW f \in Functors, RunInLoop(t, f)
        PROVE  QueuedInOrder'
    BY <1>1, <1>2 DEF RunInLoop
  <1>3. CASE SwapFunctors
    <2>1. functors = <<>>
      BY <1>3 DEF LoopShape, SwapFunctors
    <2>2. pushed = done \o pending_functors_
      BY <2>1, ConcatEmptySeq
    <2> QED
      BY <1>3, <2>2, <1>0, ConcatEmptySeq, ConcatProperties DEF SwapFunctors
  <1>4. CASE RunFunctor
    BY <1>4, HeadMoves DEF RunFunctor
  <1>5. CASE UNCHANGED <<pushed, done, functors, pending_functors_>>
    BY <1>5
  <1> QED
    BY <1>1, <1>2, <1>3, <1>4, <1>5
    DEF Next, LoopStep, vars, Wakeup, Quit, QuitFromSignal, IoReady, LoopEnter,
        CheckQuit, EpollWait, HandleWakeup, HandleIo, CallbackReturns,
        DispatchDone, PassDone, EpollInterrupted, EpollFails

\* Every functor is executed at most once and in the order of the calls of
\* QueueInLoop; none is dropped between the queue and its execution.
THEOREM ExactlyOnceInOrder == Spec => []QueuedInOrder
  <1>1. Init => QueuedInOrder
    BY DEF Init, QueuedInOrder
  <1>2. WakeupInv => LoopShape
    BY DEF WakeupInv
  <1> QED
    BY <1>1, <1>2, NextQueuedInOrder, TypeCorrect, WakeupInvariant, PTL DEF Spec

-----------------------------------------------------------------------------
(* The loop implements the functor queue.                                  *)

\* The elements of a concatenation.
LEMMA ConcatRange ==
  ASSUME NEW S, NEW s \in Seq(S), NEW t \in Seq(S)
  PROVE  Range(s) \cup Range(t) \subseteq Range(s \o t)
  <1> DEFINE st == s \o t
  <1>1. Len(st) = Len(s) + Len(t)
    BY ConcatProperties
  <1>2. ASSUME NEW i \in 1 .. Len(s)
        PROVE  i \in 1 .. Len(st) /\ st[i] = s[i]
    BY <1>1, ConcatProperties
  <1>3. ASSUME NEW i \in 1 .. Len(t)
        PROVE  i + Len(s) \in 1 .. Len(st) /\ st[i + Len(s)] = t[i]
    BY <1>1, ConcatProperties
  <1>4. /\ DOMAIN s = 1 .. Len(s)
        /\ DOMAIN t = 1 .. Len(t)
        /\ DOMAIN st = 1 .. Len(st)
    BY ConcatProperties
  <1> QED
    BY <1>2, <1>3, <1>4, Zenon DEF Range

\* A functor nobody has handed over is new to the abstract queue.
LEMMA FreshIsNew ==
  ASSUME TypeOK, QueuedInOrder, NEW f \in Functors, Fresh(f)
  PROVE  f \notin Range(functors \o pending_functors_) \cup Range(done)
  <1> USE DEF TypeOK
  <1>1. functors \o pending_functors_ \in Seq(Functors)
    BY ConcatProperties
  <1>2. pushed = done \o (functors \o pending_functors_)
    BY ConcatAssociative DEF QueuedInOrder
  <1>3. Range(done) \cup Range(functors \o pending_functors_) \subseteq Range(pushed)
    BY <1>1, <1>2, ConcatRange
  <1> QED
    BY <1>3 DEF Fresh

\* Every step of the loop is a step of the abstract queue or changes nothing
\* that the abstract queue sees.
LEMMA StepIsQueueStep ==
  ASSUME TypeOK, LoopShape, QueuedInOrder, [Next]_vars
  PROVE  [FQ!FQNext]_(FQ!fqVars)
  <1> DEFINE queue == functors \o pending_functors_
  <1> USE DEF TypeOK, loopVars, kernelVars, history
  <1>1. ASSUME NEW t \in Actors, NEW f \in Functors, QueueInLoop(t, f)
        PROVE  FQ!FQNext
    <2>1. queue' = Append(queue, f)
      BY <1>1, AppendToConcat DEF QueueInLoop
    <2>2. f \notin Range(queue) \cup Range(done)
      BY <1>1, FreshIsNew, Zenon DEF QueueInLoop
    <2>3. done' = done /\ lpc' = lpc
      BY <1>1 DEF QueueInLoop
    <2>4. FQ!Post(f)
      BY <2>1, <2>2, <2>3, Zenon DEF FQ!Post, FQ!Range, Range
    <2> QED
      BY <2>4 DEF FQ!FQNext
  <1>2. CASE RunFunctor
    <2>1. functors # <<>> /\ queue # <<>> /\ Head(queue) = Head(functors)
      BY <1>2, ConcatProperties DEF RunFunctor
    <2>2. queue' = Tail(queue)
      BY <1>2 DEF RunFunctor
    <2>3. FQ!Execute
      BY <1>2, <2>1, <2>2 DEF FQ!Execute, RunFunctor
    <2> QED
      BY <2>3 DEF FQ!FQNext
  <1>3. CASE SwapFunctors
    <2>1. functors = <<>>
      BY <1>3 DEF LoopShape, SwapFunctors
    <2>2. queue' = queue
      BY <1>3, <2>1, ConcatEmptySeq DEF SwapFunctors
    <2> QED
      BY <1>3, <2>2 DEF SwapFunctors, FQ!fqVars
  <1>4. CASE CheckQuit
    BY <1>4 DEF CheckQuit, FQ!FQNext, FQ!Stop, FQ!fqVars
  <1>5. CASE EpollFails
    BY <1>5 DEF EpollFails, FQ!FQNext, FQ!Stop
  <1>6. CASE UNCHANGED <<functors, pending_functors_, done, lpc>>
    BY <1>6 DEF FQ!fqVars
  <1>7. CASE /\ UNCHANGED <<functors, pending_functors_, done>>
             /\ lpc # "exited" /\ lpc' # "exited"
    BY <1>7 DEF FQ!fqVars
  <1>8. ASSUME NEW t \in Actors, NEW f \in Functors, RunInLoop(t, f)
        PROVE  [FQ!FQNext]_(FQ!fqVars)
    BY <1>1, <1>6, <1>8 DEF RunInLoop
  <1> QED
    BY <1>1, <1>2, <1>3, <1>4, <1>5, <1>6, <1>7, <1>8
    DEF Next, LoopStep, vars, Wakeup, Quit, QuitFromSignal, IoReady, LoopEnter,
        EpollWait, HandleWakeup, HandleIo, CallbackReturns, DispatchDone,
        PassDone, EpollInterrupted

\* Every behaviour of the loop is one of the abstract functor queue (its
\* progress, which needs fairness, is model-checked only).
THEOREM LoopImplementsQueue == Spec => FQ!FQSafety
  <1>1. Init => FQ!FQInit
    BY DEF Init, FQ!FQInit
  <1>2. TypeOK /\ LoopShape /\ QueuedInOrder /\ [Next]_vars
          => [FQ!FQNext]_(FQ!fqVars)
    BY StepIsQueueStep
  <1>3. WakeupInv => LoopShape
    BY DEF WakeupInv
  <1> QED
    BY <1>1, <1>2, <1>3, TypeCorrect, WakeupInvariant, ExactlyOnceInOrder, PTL
    DEF Spec, FQ!FQSafety

=============================================================================
