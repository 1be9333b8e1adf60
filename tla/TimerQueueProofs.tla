-------------------------- MODULE TimerQueueProofs --------------------------
(***************************************************************************)
(* Proofs about TimerQueue, for any set of timers, any delays and period,  *)
(* and any bounds on the clock and on the calls of CancelTimer.            *)
(***************************************************************************)
EXTENDS TimerQueue, SequenceTheorems, TLAPS

-----------------------------------------------------------------------------
(* The inductive invariant.                                                *)

\* An add of this timer waits in the queue.
IsAdd(k, i) == queue[k].op = "add" /\ queue[k].id = i

Queued(i) == \E k \in 1 .. Len(queue) : IsAdd(k, i)

\* A timer that has not been added yet: nobody knows it but its caller.
Unused(i) ==
    /\ active_[i] = None /\ current # i
    /\ \A t \in expired : t.id # i
    /\ i \notin cancelled
    /\ fired[i] = 0

\* A timer is in one place at a time: not created, in the queue, in the
\* table, in the snapshot of the round or in its callback.
OnePlace ==
    /\ \A i \in TimerIds : i \notin created => ~Queued(i) /\ Unused(i)
    /\ \A i \in TimerIds : Queued(i) => Unused(i)
    /\ \A k, l \in 1 .. Len(queue) : \A i \in TimerIds :
         IsAdd(k, i) /\ IsAdd(l, i) => k = l
    /\ \A t \in expired : active_[t.id] = None /\ current # t.id
    /\ \A t, u \in expired : t.id = u.id => t = u
    /\ current # None => active_[current] = None

\* Snapshot and callback exist only in a round, which no second report of the
\* timerfd can begin.
RoundShape ==
    /\ fetched => ~calling_expired_timers_
    /\ ~calling_expired_timers_ => expired = {} /\ current = None

\* A timer of this round that was cancelled is remembered until it returns,
\* and a one-shot timer in the snapshot has not run.
RoundRemembers ==
    \A i \in TimerIds : current = i \/ (\E t \in expired : t.id = i) =>
        /\ i \in cancelled => i \in canceling_timers_
        /\ i \notin Periodic /\ current # i => fired[i] = 0

TimerInv ==
    /\ TypeOK
    /\ OnePlace
    /\ RoundShape
    /\ RoundRemembers
    /\ TablesAgree
    /\ ArmedForEarliest
    /\ FinishedStaysOut
-----------------------------------------------------------------------------
(* Facts about the operators of the model.                                 *)

\* TablesAgree, entry by entry, for any two tables.
Agree(ts, act) ==
    \A i \in TimerIds, w \in Time : [id |-> i, when |-> w] \in ts <=> act[i] = w

\* That is TablesAgree.
LEMMA TablesMatch ==
  ASSUME NEW ts \in SUBSET Timers, NEW act \in [TimerIds -> Time \cup {None}]
  PROVE  Agree(ts, act) <=>
           ts = {[id |-> i, when |-> act[i]] : i \in {j \in TimerIds : act[j] # None}}
  <1> DEFINE us == {[id |-> i, when |-> act[i]] : i \in {j \in TimerIds : act[j] # None}}
  <1>1. ASSUME ts = us, NEW i \in TimerIds, NEW w \in Time
        PROVE  [id |-> i, when |-> w] \in ts <=> act[i] = w
    BY <1>1, TimerAssumption DEF Time
  <1>2. ASSUME Agree(ts, act)
        PROVE  ts = us
    <2>1. ASSUME NEW t \in ts
          PROVE  t \in us
      <3>1. t.id \in TimerIds /\ t.when \in Time /\ t = [id |-> t.id, when |-> t.when]
        BY DEF Timers
      <3>2. act[t.id] = t.when
        BY <1>2, <3>1 DEF Agree
      <3> QED
        BY <3>1, <3>2, TimerAssumption DEF Time
    <2>2. ASSUME NEW i \in TimerIds, act[i] # None
          PROVE  [id |-> i, when |-> act[i]] \in ts
      <3>1. act[i] \in Time
        BY <2>2
      <3> QED
        BY <1>2, <3>1 DEF Agree
    <2> QED
      BY <2>1, <2>2
  <1> QED
    BY <1>1, <1>2 DEF Agree

\* A timer is its id and its time.
LEMMA TimerIsPair ==
  ASSUME NEW t \in Timers
  PROVE  t.id \in TimerIds /\ t.when \in Time /\ t = [id |-> t.id, when |-> t.when]
  BY DEF Timers

\* The earliest key is no later than any.
LEMMA EarliestIsFirst ==
  ASSUME NEW ts \in SUBSET Timers, NEW e \in Earliest(ts)
  PROVE  e \in Time /\ \A t \in ts : e <= t.when
  BY DEF Earliest, Timers, Time

\* What the timerfd is set to is not after what is due later.
LEMMA LaterMonotone ==
  ASSUME NEW a \in Time, NEW b \in Time, NEW c \in Time, NEW d \in Time,
         a <= b, c <= d
  PROVE  Later(a, c) \in Time /\ Later(a, c) <= Later(b, d)
  BY DEF Later, Time

\* What is left of the queue after its first call.
LEMMA QueueTail ==
  ASSUME TypeOK, queue # <<>>, queue' = Tail(queue)
  PROVE  /\ Head(queue) \in Calls /\ Head(queue) = queue[1] /\ 1 \in 1 .. Len(queue)
         /\ queue' \in Seq(Calls)
         /\ \A k \in 1 .. Len(queue') :
              k + 1 \in 1 .. Len(queue) /\ queue'[k] = queue[k + 1]
  BY HeadTailProperties DEF TypeOK

\* The queue with one call more.
LEMMA QueueAppend ==
  ASSUME TypeOK, NEW c \in Calls, queue' = Append(queue, c)
  PROVE  /\ queue' \in Seq(Calls)
         /\ Len(queue') = Len(queue) + 1 /\ Len(queue) \in Nat
         /\ \A k \in 1 .. Len(queue) : queue'[k] = queue[k]
         /\ queue'[Len(queue) + 1] = c
  BY AppendProperties DEF TypeOK

-----------------------------------------------------------------------------
(* The two operations on the table, whoever calls them.                    *)

\* The calls that touch the table leave the round and the clock alone.
Outside == <<now, onReadyList, fetched, batchVars>>

\* Adding an unused timer keeps the tables in step and the timerfd armed.
LEMMA AddKeeps ==
  ASSUME TimerInv, NEW id \in TimerIds, NEW when \in Time, Unused(id),
         AddTimerInLoop(id, when), UNCHANGED Outside
  PROVE  /\ timers_' \in SUBSET Timers
         /\ active_' \in [TimerIds -> Time \cup {None}]
         /\ deadline' \in Time \cup {None} /\ ticks' \in {0, 1}
         /\ TablesAgree'
         /\ ArmedForEarliest'
  <1>0. /\ TypeOK /\ TablesAgree /\ ArmedForEarliest
        /\ now \in Time /\ timers_ \in SUBSET Timers
    BY DEF TimerInv, TypeOK
  <1>1. timers_' \in SUBSET Timers /\ active_' \in [TimerIds -> Time \cup {None}]
    BY <1>0 DEF AddTimerInLoop, TypeOK, Timers
  <1>2. deadline' \in Time \cup {None} /\ ticks' \in {0, 1}
    <2>1. Later(when, now) \in Time
      BY <1>0 DEF Later
    <2> QED
      BY <1>0, <2>1 DEF AddTimerInLoop, ResetTimerfd, TypeOK
  <1>3. TablesAgree'
    <2>1. Agree(timers_, active_)
      BY <1>0, TablesMatch DEF TablesAgree, TypeOK
    <2>2. \A w \in Time : active_[id] # w
      BY TimerAssumption DEF Unused, Time
    <2>3. Agree(timers_', active_')
      BY <1>0, <2>1, <2>2 DEF Agree, AddTimerInLoop, TypeOK
    <2> QED
      BY <1>1, <2>3, TablesMatch DEF TablesAgree
  <1>4. ArmedForEarliest'
    <2> SUFFICES ASSUME ~calling_expired_timers_', ~fetched', ~(ticks' > 0 /\ onReadyList')
                 PROVE  deadline' # None /\ \A t \in timers_' : deadline' <= Later(t.when, now)'
      BY DEF ArmedForEarliest
    <2>0. ~calling_expired_timers_ /\ ~fetched /\ now' = now /\ onReadyList' = onReadyList
      BY DEF Outside, batchVars
    <2>1. CASE EarliestChanged(when)
      <3>1. deadline' = Later(when, now)
        BY <2>1 DEF AddTimerInLoop, ResetTimerfd
      <3>2. ASSUME NEW t \in timers_'
            PROVE  t.when \in Time /\ when <= t.when
        BY <1>0, <1>1, <2>1 DEF AddTimerInLoop, EarliestChanged, Timers, Time
      <3>3. \A t \in timers_' : Later(when, now) <= Later(t.when, now)
        BY <1>0, <3>2, LaterMonotone DEF Time
      <3>4. Later(when, now) # None
        BY <1>0, TimerAssumption DEF Later, Time
      <3> QED
        BY <2>0, <3>1, <3>3, <3>4
    <2>2. CASE ~EarliestChanged(when)
      <3>1. deadline' = deadline /\ ticks' = ticks
        BY <2>2 DEF AddTimerInLoop
      <3>2. PICK u \in timers_ : ~(when < u.when)
        BY <2>2 DEF EarliestChanged
      <3>3. deadline # None /\ \A t \in timers_ : deadline <= Later(t.when, now)
        BY <1>0, <2>0, <3>1, <3>2 DEF ArmedForEarliest
      <3>4. u.when \in Time /\ u.when <= when
        BY <1>0, <3>2 DEF Timers, Time
      <3>5. deadline <= Later(when, now)
        <4>1. deadline <= Later(u.when, now) /\ deadline \in Time
          BY <1>0, <3>3 DEF TypeOK
        <4> QED
          BY <1>0, <3>4, <4>1 DEF Later, Time
      <3> QED
        BY <2>0, <3>1, <3>3, <3>5 DEF AddTimerInLoop
    <2> QED
      BY <2>1, <2>2
  <1> QED
    BY <1>1, <1>2, <1>3, <1>4

\* Cancelling a timer keeps the tables in step and the timerfd armed.
LEMMA CancelKeeps ==
  ASSUME TimerInv, NEW id \in TimerIds, CancelTimerInLoop(id), UNCHANGED Outside
  PROVE  /\ timers_' \in SUBSET Timers
         /\ active_' = [active_ EXCEPT ![id] = None]
         /\ active_' \in [TimerIds -> Time \cup {None}]
         /\ deadline' \in Time \cup {None} /\ ticks' \in {0, 1}
         /\ TablesAgree'
         /\ ArmedForEarliest'
  <1>0. /\ TypeOK /\ TablesAgree /\ ArmedForEarliest
        /\ now \in Time /\ timers_ \in SUBSET Timers
        /\ active_ \in [TimerIds -> Time \cup {None}]
        /\ deadline \in Time \cup {None} /\ ticks \in {0, 1}
    BY DEF TimerInv, TypeOK
  <1>1. CASE active_[id] = None /\ UNCHANGED tableVars
    <2>1. active_' = [active_ EXCEPT ![id] = None]
      BY <1>0, <1>1 DEF tableVars
    <2>2. ArmedForEarliest'
      BY <1>0, <1>1 DEF ArmedForEarliest, tableVars, Outside, batchVars
    <2>3. TablesAgree'
      BY <1>0, <1>1 DEF TablesAgree, tableVars
    <2> QED
      BY <1>0, <1>1, <2>1, <2>2, <2>3 DEF tableVars
  <1>2. CASE active_[id] # None /\ EraseTimer(id)
    <2>1. /\ timers_' \in SUBSET Timers /\ timers_' \subseteq timers_
          /\ active_' = [active_ EXCEPT ![id] = None]
          /\ active_' \in [TimerIds -> Time \cup {None}]
      BY <1>0, <1>2 DEF EraseTimer
    <2>2. TablesAgree'
      <3>1. Agree(timers_, active_)
        BY <1>0, TablesMatch DEF TablesAgree
      <3>2. \A w \in Time : None # w
        BY TimerAssumption DEF Time
      <3>3. active_[id] \in Time
        BY <1>0, <1>2
      <3>4. Agree(timers_', active_')
        BY <1>0, <1>2, <3>1, <3>2, <3>3 DEF Agree, EraseTimer
      <3> QED
        BY <2>1, <3>4, TablesMatch DEF TablesAgree
    <2>3. CASE /\ timers_' # {} /\ \A t \in timers_' : active_[id] <= t.when
               /\ \E e \in Earliest(timers_') : ResetTimerfd(e)
      <3>1. PICK e \in Earliest(timers_') : ResetTimerfd(e)
        BY <2>3
      <3>2. e \in Time /\ \A t \in timers_' : t.when \in Time /\ e <= t.when
        BY <2>1, <3>1, EarliestIsFirst DEF Timers
      <3>3. deadline' = Later(e, now) /\ ticks' = 0
        BY <3>1 DEF ResetTimerfd
      <3>4. Later(e, now) \in Time /\ \A t \in timers_' : Later(e, now) <= Later(t.when, now)
        BY <1>0, <3>2, LaterMonotone DEF Time
      <3>5. ArmedForEarliest'
        BY <3>3, <3>4, TimerAssumption DEF ArmedForEarliest, Outside, Time
      <3> QED
        BY <2>1, <2>2, <3>3, <3>4, <3>5
    <2>4. CASE UNCHANGED <<deadline, ticks>>
      <3>1. ArmedForEarliest'
        BY <1>0, <2>1, <2>4 DEF ArmedForEarliest, Outside, batchVars
      <3> QED
        BY <1>0, <2>1, <2>2, <2>4, <3>1
    <2> QED
      BY <1>2, <2>3, <2>4 DEF EraseTimer
  <1> QED
    BY <1>1, <1>2 DEF CancelTimerInLoop

\* Cancelling one in the table takes it away for good; cancelling one of this
\* round is remembered; cancelling an unused one has no effect.
LEMMA CancelFinishes ==
  ASSUME TimerInv, NEW id \in TimerIds, CancelTimerInLoop(id), UNCHANGED Outside
  PROVE  /\ canceling_timers_' \in SUBSET TimerIds /\ cancelled' \in SUBSET TimerIds
         /\ \A i \in TimerIds : Unused(i) => Unused(i)'
         /\ RoundShape'
         /\ RoundRemembers'
         /\ FinishedStaysOut'
  <1>0. /\ TypeOK /\ OnePlace /\ RoundShape /\ RoundRemembers /\ FinishedStaysOut
        /\ active_ \in [TimerIds -> Time \cup {None}]
        /\ active_' = [active_ EXCEPT ![id] = None]
        /\ UNCHANGED <<fetched, calling_expired_timers_, expired, current, fired>>
        /\ cancelled' = IF Added(id) THEN cancelled \cup {id} ELSE cancelled
    BY CancelKeeps DEF TimerInv, TypeOK, CancelTimerInLoop, Outside, batchVars
  <1>1. /\ canceling_timers_' \in SUBSET TimerIds /\ cancelled' \in SUBSET TimerIds
        /\ canceling_timers_ \subseteq canceling_timers_'
    BY <1>0 DEF TypeOK, CancelTimerInLoop, EraseTimer, NoteCancel
  <1>2. \A i \in TimerIds : Unused(i) => Unused(i)'
    BY <1>0 DEF Unused, Added
  <1>3. RoundShape'
    BY <1>0 DEF RoundShape
  <1>4. RoundRemembers'
    <2> SUFFICES ASSUME NEW i \in TimerIds, current = i \/ \E t \in expired : t.id = i,
                        i \in cancelled'
                 PROVE  i \in canceling_timers_'
      BY <1>0 DEF RoundRemembers
    <2>1. CASE i \in cancelled
      BY <1>0, <1>1, <2>1 DEF RoundRemembers
    <2>2. CASE i \notin cancelled
      <3>1. i = id /\ active_[id] = None
        BY <1>0, <2>2, TimerAssumption DEF OnePlace
      <3>2. calling_expired_timers_
        BY <1>0, TimerAssumption DEF RoundShape
      <3> QED
        BY <3>1, <3>2 DEF CancelTimerInLoop, NoteCancel
    <2> QED
      BY <2>1, <2>2
  <1>5. FinishedStaysOut'
    BY <1>0 DEF FinishedStaysOut
  <1> QED
    BY <1>1, <1>2, <1>3, <1>4, <1>5

-----------------------------------------------------------------------------
(* The steps.                                                              *)

\* A new loop has no timers.
LEMMA InitTimerInv == Init => TimerInv
  <1> SUFFICES ASSUME Init
               PROVE  TimerInv
    OBVIOUS
  <1> USE TimerAssumption DEF Init
  <1>1. TypeOK
    <2>1. onReadyList \in BOOLEAN /\ fetched \in BOOLEAN /\ calling_expired_timers_ \in BOOLEAN
      OBVIOUS
    <2>2. queue \in Seq(Calls)
      BY EmptySeq
    <2> QED
      BY <2>1, <2>2 DEF TypeOK, Time
  <1>2. OnePlace /\ RoundShape /\ RoundRemembers /\ ArmedForEarliest /\ FinishedStaysOut
    BY DEF OnePlace, Queued, Unused, RoundShape, RoundRemembers, ArmedForEarliest,
           FinishedStaysOut
  <1>3. TablesAgree
    BY DEF TablesAgree
  <1> QED
    BY <1>1, <1>2, <1>3 DEF TimerInv

\* RunAfter or RunEvery on the loop thread.
LEMMA AddFromLoopKeeps ==
  ASSUME TimerInv, NEW id \in TimerIds, NEW d \in DelaysOf(id), AddFromLoop(id, d)
  PROVE  TimerInv'
  <1>0. /\ TypeOK /\ OnePlace /\ RoundShape /\ RoundRemembers /\ FinishedStaysOut
        /\ UNCHANGED Outside /\ AddTimerInLoop(id, now + d)
        /\ Unused(id) /\ ~Queued(id) /\ id \notin created
    BY DEF TimerInv, AddFromLoop, Outside, OnePlace
  <1>1. now + d \in Time
    BY <1>0, TimerAssumption DEF DelaysOf, TypeOK, Time
  <1>2. /\ timers_' \in SUBSET Timers
        /\ active_' \in [TimerIds -> Time \cup {None}]
        /\ deadline' \in Time \cup {None} /\ ticks' \in {0, 1}
        /\ TablesAgree' /\ ArmedForEarliest'
    BY <1>0, <1>1, AddKeeps
  <1>3. TypeOK'
    BY <1>0, <1>2 DEF TypeOK, AddFromLoop, batchVars
  <1>4. /\ active_' = [active_ EXCEPT ![id] = now + d] /\ created' = created \cup {id}
        /\ UNCHANGED <<queue, fetched, calling_expired_timers_, expired, current,
                       fired, cancelled, canceling_timers_>>
    BY DEF AddFromLoop, AddTimerInLoop, batchVars
  <1>5. OnePlace'
    BY <1>0, <1>4 DEF OnePlace, Queued, IsAdd, Unused, TypeOK
  <1>6. RoundShape' /\ RoundRemembers'
    BY <1>0, <1>4 DEF RoundShape, RoundRemembers
  <1>7. FinishedStaysOut'
    BY <1>0, <1>4 DEF FinishedStaysOut, Unused, TypeOK
  <1> QED
    BY <1>2, <1>3, <1>5, <1>6, <1>7 DEF TimerInv

\* RunAfter or RunEvery on another thread.
LEMMA AddFromThreadKeeps ==
  ASSUME TimerInv, NEW id \in TimerIds, NEW d \in DelaysOf(id), AddFromThread(id, d)
  PROVE  TimerInv'
  <1> DEFINE c == [op |-> "add", id |-> id, when |-> now + d]
  <1>0. /\ TypeOK /\ OnePlace /\ RoundShape /\ RoundRemembers /\ FinishedStaysOut
        /\ TablesAgree /\ ArmedForEarliest
        /\ Unused(id) /\ ~Queued(id) /\ id \notin created
    BY DEF TimerInv, AddFromThread, OnePlace
  <1>1. c \in Calls
    <2>1. now + d \in Time
      BY <1>0, TimerAssumption DEF DelaysOf, TypeOK, Time
    <2> QED
      BY <2>1 DEF Calls
  <1>2. /\ created' = created \cup {id} /\ queue' = Append(queue, c)
        /\ UNCHANGED <<now, timers_, active_, deadline, ticks, onReadyList, fetched,
                       calling_expired_timers_, expired, snapshotNow, current, fired,
                       canceling_timers_, cancels, cancelled>>
    BY DEF AddFromThread, tableVars, batchVars
  <1>3. c.op = "add" /\ c.id = id
    OBVIOUS
  <1> HIDE DEF c
  <1>4. /\ queue' \in Seq(Calls)
        /\ Len(queue') = Len(queue) + 1 /\ Len(queue) \in Nat
        /\ \A k \in 1 .. Len(queue) : queue'[k] = queue[k]
        /\ queue'[Len(queue) + 1] = c
    BY <1>0, <1>1, <1>2, QueueAppend
  <1>5. TypeOK'
    BY <1>0, <1>2, <1>4 DEF TypeOK
  <1>6. ASSUME NEW k \in 1 .. Len(queue'), NEW i \in TimerIds
        PROVE  IsAdd(k, i)' <=> \/ k \in 1 .. Len(queue) /\ IsAdd(k, i)
                                \/ k = Len(queue) + 1 /\ i = id
    BY <1>3, <1>4 DEF IsAdd
  <1>7. \A i \in TimerIds : Queued(i)' <=> Queued(i) \/ i = id
    BY <1>4, <1>6 DEF Queued
  <1>8. \A i \in TimerIds : Unused(i)' <=> Unused(i)
    BY <1>2 DEF Unused
  <1>9. OnePlace'
    <2>1. /\ \A i \in TimerIds : i \notin created' => ~Queued(i)' /\ Unused(i)'
          /\ \A i \in TimerIds : Queued(i)' => Unused(i)'
      BY <1>0, <1>2, <1>7, <1>8 DEF OnePlace
    <2>2. \A k, l \in 1 .. Len(queue') : \A i \in TimerIds :
             IsAdd(k, i)' /\ IsAdd(l, i)' => k = l
      BY <1>0, <1>6 DEF OnePlace, Queued
    <2> QED
      BY <1>0, <1>2, <2>1, <2>2 DEF OnePlace
  <1>10. RoundShape' /\ RoundRemembers' /\ FinishedStaysOut' /\ TablesAgree' /\ ArmedForEarliest'
    BY <1>0, <1>2 DEF RoundShape, RoundRemembers, FinishedStaysOut, TablesAgree, ArmedForEarliest
  <1> QED
    BY <1>5, <1>9, <1>10 DEF TimerInv

\* CancelTimer on the loop thread.
LEMMA CancelFromLoopKeeps ==
  ASSUME TimerInv, NEW id \in TimerIds, CancelFromLoop(id)
  PROVE  TimerInv'
  <1>0. /\ TypeOK /\ OnePlace
        /\ CancelTimerInLoop(id) /\ UNCHANGED Outside
        /\ cancels \in Nat /\ cancels' = cancels + 1
        /\ UNCHANGED <<now, created, queue, onReadyList, fetched,
                       calling_expired_timers_, expired, snapshotNow, current, fired>>
    BY DEF TimerInv, TypeOK, CancelFromLoop, Outside, batchVars
  <1>1. /\ timers_' \in SUBSET Timers
        /\ active_' = [active_ EXCEPT ![id] = None]
        /\ active_' \in [TimerIds -> Time \cup {None}]
        /\ deadline' \in Time \cup {None} /\ ticks' \in {0, 1}
        /\ TablesAgree' /\ ArmedForEarliest'
    BY <1>0, CancelKeeps
  <1>2. /\ canceling_timers_' \in SUBSET TimerIds /\ cancelled' \in SUBSET TimerIds
        /\ \A i \in TimerIds : Unused(i) => Unused(i)'
        /\ RoundShape' /\ RoundRemembers' /\ FinishedStaysOut'
    BY <1>0, CancelFinishes
  <1>3. TypeOK'
    BY <1>0, <1>1, <1>2 DEF TypeOK
  <1>4. OnePlace'
    BY <1>0, <1>1, <1>2 DEF OnePlace, Queued, IsAdd, TypeOK
  <1> QED
    BY <1>1, <1>2, <1>3, <1>4 DEF TimerInv

\* CancelTimer on another thread.
LEMMA CancelFromThreadKeeps ==
  ASSUME TimerInv, NEW id \in TimerIds, CancelFromThread(id)
  PROVE  TimerInv'
  <1> DEFINE c == [op |-> "cancel", id |-> id]
  <1>0. /\ TypeOK /\ OnePlace /\ RoundShape /\ RoundRemembers /\ FinishedStaysOut
        /\ TablesAgree /\ ArmedForEarliest
        /\ cancels \in Nat /\ cancels' = cancels + 1
    BY DEF TimerInv, TypeOK, CancelFromThread
  <1>1. c \in Calls /\ c.op # "add"
    BY DEF Calls
  <1>2. /\ queue' = Append(queue, c)
        /\ UNCHANGED <<now, created, timers_, active_, deadline, ticks, onReadyList, fetched,
                       calling_expired_timers_, expired, snapshotNow, current, fired,
                       canceling_timers_, cancelled>>
    BY DEF CancelFromThread, tableVars, batchVars
  <1> HIDE DEF c
  <1>3. /\ queue' \in Seq(Calls)
        /\ Len(queue') = Len(queue) + 1 /\ Len(queue) \in Nat
        /\ \A k \in 1 .. Len(queue) : queue'[k] = queue[k]
        /\ queue'[Len(queue) + 1] = c
    BY <1>0, <1>1, <1>2, QueueAppend
  <1>4. TypeOK'
    BY <1>0, <1>2, <1>3 DEF TypeOK
  <1>5. ASSUME NEW k \in 1 .. Len(queue'), NEW i \in TimerIds
        PROVE  IsAdd(k, i)' <=> k \in 1 .. Len(queue) /\ IsAdd(k, i)
    BY <1>1, <1>3 DEF IsAdd
  <1>6. \A i \in TimerIds : Queued(i)' <=> Queued(i)
    BY <1>3, <1>5 DEF Queued
  <1>7. \A i \in TimerIds : Unused(i)' <=> Unused(i)
    BY <1>2 DEF Unused
  <1>8. OnePlace'
    <2>1. \A k, l \in 1 .. Len(queue') : \A i \in TimerIds :
             IsAdd(k, i)' /\ IsAdd(l, i)' => k = l
      BY <1>0, <1>5 DEF OnePlace
    <2> QED
      BY <1>0, <1>2, <1>6, <1>7, <2>1 DEF OnePlace
  <1>9. RoundShape' /\ RoundRemembers' /\ FinishedStaysOut' /\ TablesAgree' /\ ArmedForEarliest'
    BY <1>0, <1>2 DEF RoundShape, RoundRemembers, FinishedStaysOut, TablesAgree, ArmedForEarliest
  <1> QED
    BY <1>4, <1>8, <1>9 DEF TimerInv

\* A queued call is made.
LEMMA RunQueuedKeeps ==
  ASSUME TimerInv, RunQueued
  PROVE  TimerInv'
  <1> DEFINE call == Head(queue)
  <1>0. /\ TypeOK /\ OnePlace /\ RoundShape /\ RoundRemembers /\ FinishedStaysOut
        /\ UNCHANGED Outside
        /\ UNCHANGED <<now, created, onReadyList, fetched, calling_expired_timers_,
                       expired, snapshotNow, current, fired, cancels>>
        /\ queue # <<>> /\ queue' = Tail(queue)
    BY DEF TimerInv, RunQueued, Outside, batchVars
  <1>1. /\ call \in Calls /\ call = queue[1] /\ 1 \in 1 .. Len(queue)
        /\ queue' \in Seq(Calls)
        /\ \A k \in 1 .. Len(queue') :
              k + 1 \in 1 .. Len(queue) /\ queue'[k] = queue[k + 1]
    BY <1>0, QueueTail
  <1>2. ASSUME NEW k \in 1 .. Len(queue'), NEW i \in TimerIds
        PROVE  IsAdd(k, i)' <=> IsAdd(k + 1, i)
    BY <1>1 DEF IsAdd
  <1>3. \A i \in TimerIds : Queued(i)' => Queued(i)
    BY <1>1, <1>2 DEF Queued
  <1>4. \A k, l \in 1 .. Len(queue') : \A i \in TimerIds :
           IsAdd(k, i)' /\ IsAdd(l, i)' => k = l
    <2> SUFFICES ASSUME NEW k \in 1 .. Len(queue'), NEW l \in 1 .. Len(queue'),
                        NEW i \in TimerIds, IsAdd(k, i)', IsAdd(l, i)'
                 PROVE  k = l
      OBVIOUS
    <2>1. k + 1 = l + 1
      BY <1>0, <1>1, <1>2 DEF OnePlace
    <2> QED
      BY <2>1
  <1>5. PICK id \in TimerIds : id = call.id
    BY <1>1 DEF Calls
  <1> HIDE DEF call
  <1>6. CASE /\ call.op = "add" /\ AddTimerInLoop(call.id, call.when)
             /\ UNCHANGED <<canceling_timers_, cancelled>>
    <2>1. PICK w \in Time : w = call.when
      BY <1>1, <1>6 DEF Calls
    <2>2. IsAdd(1, id)
      BY <1>1, <1>5, <1>6 DEF IsAdd
    <2>3. Unused(id) /\ id \in created
      BY <1>0, <1>1, <1>5, <2>2 DEF OnePlace, Queued
    <2>4. ~Queued(id)'
      <3>1. \A k \in 1 .. Len(queue') : k + 1 # 1
        OBVIOUS
      <3>2. \A k \in 1 .. Len(queue') : ~IsAdd(k + 1, id)
        BY <1>0, <1>1, <1>5, <2>2, <3>1 DEF OnePlace
      <3> QED
        BY <1>2, <1>5, <3>2 DEF Queued
    <2>5. /\ timers_' \in SUBSET Timers
          /\ active_' \in [TimerIds -> Time \cup {None}]
          /\ deadline' \in Time \cup {None} /\ ticks' \in {0, 1}
          /\ TablesAgree' /\ ArmedForEarliest'
      BY <1>0, <1>5, <1>6, <2>1, <2>3, AddKeeps
    <2>6. active_' = [active_ EXCEPT ![id] = w]
      BY <1>5, <1>6, <2>1 DEF AddTimerInLoop
    <2>7. TypeOK'
      BY <1>0, <1>1, <1>6, <2>5 DEF TypeOK
    <2>8. \A i \in TimerIds : i # id => (Unused(i)' <=> Unused(i))
      BY <1>0, <1>6, <2>6 DEF Unused, TypeOK
    <2>9. OnePlace'
      <3>1. /\ \A i \in TimerIds : i \notin created' => ~Queued(i)' /\ Unused(i)'
            /\ \A i \in TimerIds : Queued(i)' => Unused(i)'
        BY <1>0, <1>3, <2>3, <2>4, <2>8 DEF OnePlace
      <3>2. /\ \A t \in expired' : active_'[t.id] = None /\ current' # t.id
            /\ \A t, u \in expired' : t.id = u.id => t = u
            /\ current' # None => active_'[current'] = None
        BY <1>0, <2>3, <2>6 DEF OnePlace, TypeOK, Unused
      <3> QED
        BY <1>4, <3>1, <3>2 DEF OnePlace
    <2>10. RoundShape' /\ RoundRemembers'
      BY <1>0, <1>6 DEF RoundShape, RoundRemembers
    <2>11. FinishedStaysOut'
      BY <1>0, <1>6, <2>3, <2>6 DEF FinishedStaysOut, Unused, TypeOK
    <2> QED
      BY <2>5, <2>7, <2>9, <2>10, <2>11 DEF TimerInv
  <1>7. CASE CancelTimerInLoop(call.id)
    <2>1. /\ timers_' \in SUBSET Timers
          /\ active_' = [active_ EXCEPT ![id] = None]
          /\ active_' \in [TimerIds -> Time \cup {None}]
          /\ deadline' \in Time \cup {None} /\ ticks' \in {0, 1}
          /\ TablesAgree' /\ ArmedForEarliest'
      BY <1>0, <1>5, <1>7, CancelKeeps
    <2>2. /\ canceling_timers_' \in SUBSET TimerIds /\ cancelled' \in SUBSET TimerIds
          /\ \A i \in TimerIds : Unused(i) => Unused(i)'
          /\ RoundShape' /\ RoundRemembers' /\ FinishedStaysOut'
      BY <1>0, <1>5, <1>7, CancelFinishes
    <2>3. TypeOK'
      BY <1>0, <1>1, <2>1, <2>2 DEF TypeOK
    <2>4. OnePlace'
      <3>1. /\ \A i \in TimerIds : i \notin created' => ~Queued(i)' /\ Unused(i)'
            /\ \A i \in TimerIds : Queued(i)' => Unused(i)'
        BY <1>0, <1>3, <2>2 DEF OnePlace
      <3>2. /\ \A t \in expired' : active_'[t.id] = None /\ current' # t.id
            /\ \A t, u \in expired' : t.id = u.id => t = u
            /\ current' # None => active_'[current'] = None
        BY <1>0, <2>1 DEF OnePlace, TypeOK
      <3> QED
        BY <1>4, <3>1, <3>2 DEF OnePlace
    <2> QED
      BY <2>1, <2>2, <2>3, <2>4 DEF TimerInv
  <1> QED
    BY <1>6, <1>7 DEF RunQueued, call

\* The clock and the kernel's timer.
LEMMA KernelKeeps ==
  ASSUME TimerInv, Tick \/ TimerfdExpires \/ EpollReports
  PROVE  TimerInv'
  <1>0. /\ TypeOK /\ OnePlace /\ RoundShape /\ RoundRemembers /\ FinishedStaysOut
        /\ TablesAgree /\ ArmedForEarliest
    BY DEF TimerInv
  <1>1. UNCHANGED <<created, queue, timers_, active_, calling_expired_timers_, expired,
                    snapshotNow, current, fired, canceling_timers_, cancels, cancelled>>
    BY DEF Tick, TimerfdExpires, EpollReports, tableVars, batchVars
  <1>2. TypeOK'
    <2>1. onReadyList' \in BOOLEAN /\ fetched' \in BOOLEAN
      BY <1>0 DEF TypeOK, Tick, TimerfdExpires, EpollReports
    <2>2. now' \in Time /\ deadline' \in Time \cup {None} /\ ticks' \in {0, 1}
      BY <1>0 DEF TypeOK, Tick, TimerfdExpires, EpollReports, tableVars, Time
    <2> QED
      BY <1>0, <1>1, <2>1, <2>2 DEF TypeOK
  <1>3. OnePlace' /\ RoundRemembers' /\ FinishedStaysOut' /\ TablesAgree'
    BY <1>0, <1>1 DEF OnePlace, Queued, IsAdd, Unused, RoundRemembers, FinishedStaysOut,
                      TablesAgree
  <1>4. RoundShape'
    BY <1>0, <1>1 DEF RoundShape, Tick, TimerfdExpires, EpollReports
  <1>5. ArmedForEarliest'
    <2>1. CASE Tick
      <3>1. /\ UNCHANGED <<deadline, ticks, onReadyList, fetched>>
            /\ now \in Time /\ now' \in Time /\ now <= now'
        BY <1>0, <2>1 DEF Tick, tableVars, TypeOK, Time
      <3>2. \A t \in timers_ : t.when \in Time
        BY <1>0 DEF TypeOK, Timers
      <3>3. ASSUME NEW t \in timers_, deadline \in Time, deadline <= Later(t.when, now)
            PROVE  deadline <= Later(t.when, now')
        BY <3>1, <3>2, <3>3 DEF Later, Time
      <3>4. deadline # None => deadline \in Time
        BY <1>0 DEF TypeOK
      <3> QED
        BY <1>0, <1>1, <3>1, <3>3, <3>4 DEF ArmedForEarliest
    <2>2. CASE TimerfdExpires \/ EpollReports
      BY <2>2 DEF TimerfdExpires, EpollReports, ArmedForEarliest
    <2> QED
      BY <2>1, <2>2
  <1> QED
    BY <1>2, <1>3, <1>4, <1>5 DEF TimerInv

\* HandleTimerfd moves what is due from the tables to the snapshot.
LEMMA TakeExpiredKeeps ==
  ASSUME TimerInv, TakeExpired
  PROVE  TimerInv'
  <1>0. /\ TypeOK /\ OnePlace /\ RoundShape /\ FinishedStaysOut /\ TablesAgree
        /\ timers_ \in SUBSET Timers /\ now \in Time
        /\ active_ \in [TimerIds -> Time \cup {None}]
    BY DEF TimerInv, TypeOK
  <1>1. /\ UNCHANGED <<now, created, queue, deadline, onReadyList, current, fired,
                       cancels, cancelled>>
        /\ fetched' = FALSE /\ ticks' = 0 /\ snapshotNow' = now
        /\ calling_expired_timers_' = TRUE /\ canceling_timers_' = {}
        /\ expired' = {t \in timers_ : t.when <= now}
        /\ timers_' = timers_ \ expired'
        /\ active_' = Without(expired')
        /\ current = None
    BY <1>0 DEF TakeExpired, RoundShape
  <1>2. Agree(timers_, active_)
    BY <1>0, TablesMatch DEF TablesAgree
  <1>3. ASSUME NEW t \in timers_
        PROVE  /\ t.id \in TimerIds /\ t.when \in Time /\ t = [id |-> t.id, when |-> t.when]
               /\ active_[t.id] = t.when /\ active_[t.id] # None
    <2>1. t.id \in TimerIds /\ t.when \in Time /\ t = [id |-> t.id, when |-> t.when]
      BY <1>0, TimerIsPair
    <2>2. active_[t.id] = t.when
      BY <1>2, <2>1 DEF Agree
    <2> QED
      BY <2>1, <2>2, TimerAssumption DEF Time
  <1>4. \A t, u \in timers_ : t.id = u.id => t = u
    BY <1>3
  <1>5. /\ expired' \subseteq timers_ /\ expired' \in SUBSET Timers
        /\ timers_' \in SUBSET Timers
        /\ active_' \in [TimerIds -> Time \cup {None}]
        /\ \A i \in TimerIds : active_'[i] = IF \E t \in expired' : t.id = i
                                             THEN None ELSE active_[i]
    BY <1>0, <1>1 DEF Without
  <1>6. TypeOK'
    BY <1>0, <1>1, <1>5 DEF TypeOK
  <1>7. ASSUME NEW i \in TimerIds, Unused(i)
        PROVE  Unused(i)'
    BY <1>1, <1>3, <1>5, <1>7 DEF Unused
  <1>8. OnePlace'
    <2>1. \A i \in TimerIds : Queued(i)' <=> Queued(i)
      BY <1>1 DEF Queued, IsAdd
    <2>2. \A t \in expired' : active_'[t.id] = None /\ current' # t.id
      BY <1>1, <1>3, <1>5, TimerAssumption
    <2>3. \A t, u \in expired' : t.id = u.id => t = u
      BY <1>4, <1>5
    <2> QED
      BY <1>0, <1>1, <1>7, <2>1, <2>2, <2>3 DEF OnePlace, IsAdd
  <1>9. RoundShape' /\ ArmedForEarliest'
    BY <1>1 DEF RoundShape, ArmedForEarliest
  <1>10. RoundRemembers'
    <2> SUFFICES ASSUME NEW i \in TimerIds, NEW t \in expired', t.id = i
                 PROVE  /\ i \notin cancelled
                        /\ i \notin Periodic => fired[i] = 0
      BY <1>1, TimerAssumption DEF RoundRemembers
    <2>1. active_[i] # None
      BY <1>3, <1>5
    <2>2. fired[i] \in Nat
      BY <1>0 DEF TypeOK
    <2> QED
      BY <1>0, <2>1, <2>2 DEF FinishedStaysOut
  <1>11. FinishedStaysOut'
    BY <1>0, <1>1, <1>5 DEF FinishedStaysOut
  <1>12. TablesAgree'
    <2>1. Agree(timers_', active_')
      <3> SUFFICES ASSUME NEW i \in TimerIds, NEW w \in Time
                   PROVE  [id |-> i, when |-> w] \in timers_' <=> active_'[i] = w
        BY DEF Agree
      <3>1. [id |-> i, when |-> w] \in timers_ <=> active_[i] = w
        BY <1>2 DEF Agree
      <3>2. None # w
        BY TimerAssumption DEF Time
      <3>3. CASE \E t \in expired' : t.id = i
        <4>1. PICK t \in expired' : t.id = i
          BY <3>3
        <4>2. [id |-> i, when |-> w] \in timers_ => [id |-> i, when |-> w] = t
          BY <1>4, <1>5, <4>1
        <4> QED
          BY <1>1, <1>5, <3>2, <4>1, <4>2
      <3>4. CASE ~ \E t \in expired' : t.id = i
        BY <1>1, <1>5, <3>1, <3>4
      <3> QED
        BY <3>3, <3>4
    <2> QED
      BY <1>5, <2>1, TablesMatch DEF TablesAgree
  <1> QED
    BY <1>6, <1>8, <1>9, <1>10, <1>11, <1>12 DEF TimerInv

\* A timer of the round is called.
LEMMA CallTimerKeeps ==
  ASSUME TimerInv, NEW t \in expired, CallTimer(t)
  PROVE  TimerInv'
  <1>0. /\ TypeOK /\ OnePlace /\ RoundShape /\ RoundRemembers /\ FinishedStaysOut
        /\ TablesAgree
        /\ t \in Timers /\ t.id \in TimerIds
        /\ fired \in [TimerIds -> Nat]
    BY DEF TimerInv, TypeOK, Timers
  <1>1. /\ UNCHANGED <<now, created, queue, timers_, active_, deadline, ticks, onReadyList,
                       fetched, calling_expired_timers_, snapshotNow, canceling_timers_,
                       cancels, cancelled>>
        /\ expired' = expired \ {t} /\ current' = t.id /\ current = None
        /\ fired' = [fired EXCEPT ![t.id] = @ + 1]
        /\ calling_expired_timers_
    BY DEF CallTimer, tableVars
  <1>2. TypeOK'
    BY <1>0, <1>1 DEF TypeOK
  <1>3. ASSUME NEW i \in TimerIds, Unused(i)
        PROVE  Unused(i)'
    BY <1>0, <1>1, <1>3 DEF Unused
  <1>4. OnePlace'
    <2>1. \A i \in TimerIds : Queued(i)' <=> Queued(i)
      BY <1>1 DEF Queued, IsAdd
    <2>2. /\ \A u \in expired' : active_'[u.id] = None /\ current' # u.id
          /\ \A u, v \in expired' : u.id = v.id => u = v
          /\ active_'[current'] = None
      BY <1>0, <1>1 DEF OnePlace
    <2> QED
      BY <1>0, <1>1, <1>3, <2>1, <2>2 DEF OnePlace, IsAdd
  <1>5. RoundShape' /\ ArmedForEarliest' /\ TablesAgree'
    BY <1>0, <1>1 DEF RoundShape, ArmedForEarliest, TablesAgree
  <1>6. RoundRemembers'
    <2> SUFFICES ASSUME NEW i \in TimerIds, i = t.id \/ \E u \in expired' : u.id = i
                 PROVE  /\ i \in cancelled => i \in canceling_timers_
                        /\ i \notin Periodic /\ t.id # i => fired'[i] = 0
      BY <1>1 DEF RoundRemembers
    <2>1. \E u \in expired : u.id = i
      BY <1>1
    <2>2. /\ i \in cancelled => i \in canceling_timers_
          /\ i \notin Periodic => fired[i] = 0
      BY <1>0, <1>1, <2>1, TimerAssumption DEF RoundRemembers
    <2> QED
      BY <1>0, <1>1, <2>2
  <1>7. FinishedStaysOut'
    <2> SUFFICES ASSUME NEW i \in TimerIds, i \notin Periodic
                 PROVE  fired'[i] <= 1 /\ (fired'[i] = 1 => active_[i] = None)
      BY <1>0, <1>1 DEF FinishedStaysOut
    <2>1. CASE i = t.id
      <3>1. fired[i] = 0 /\ active_[i] = None
        BY <1>0, <1>1, <2>1, TimerAssumption DEF RoundRemembers, OnePlace
      <3> QED
        BY <1>0, <1>1, <2>1, <3>1
    <2>2. CASE i # t.id
      BY <1>0, <1>1, <2>2 DEF FinishedStaysOut
    <2> QED
      BY <2>1, <2>2
  <1> QED
    BY <1>2, <1>4, <1>5, <1>6, <1>7 DEF TimerInv

\* A callback returns: a periodic timer nobody cancelled goes back.
LEMMA TimerReturnsKeeps ==
  ASSUME TimerInv, TimerReturns
  PROVE  TimerInv'
  <1>0. /\ TypeOK /\ OnePlace /\ RoundShape /\ RoundRemembers /\ FinishedStaysOut
        /\ TablesAgree /\ snapshotNow \in Time /\ timers_ \in SUBSET Timers
        /\ active_ \in [TimerIds -> Time \cup {None}]
    BY DEF TimerInv, TypeOK
  <1>1. /\ UNCHANGED <<now, created, queue, deadline, ticks, onReadyList, fetched,
                       calling_expired_timers_, expired, snapshotNow, fired,
                       canceling_timers_, cancels, cancelled>>
        /\ current # None /\ current' = None /\ calling_expired_timers_
    BY <1>0 DEF TimerReturns, RoundShape
  <1>2. PICK id \in TimerIds : current = id
    BY <1>0, <1>1 DEF TypeOK
  <1>3. active_[id] = None /\ id \in created /\ ~Queued(id)
        /\ \A t \in expired : t.id # id
    BY <1>0, <1>1, <1>2 DEF OnePlace, Unused
  <1>4. PICK w \in Time : w = snapshotNow + Period
    BY <1>0, TimerAssumption DEF Time
  <1>5. \/ UNCHANGED <<timers_, active_>>
        \/ /\ id \in Periodic /\ id \notin cancelled
           /\ timers_' = timers_ \cup {[id |-> id, when |-> w]}
           /\ active_' = [active_ EXCEPT ![id] = w]
    BY <1>0, <1>2, <1>4 DEF TimerReturns, Renews, RoundRemembers
  <1>6. timers_' \in SUBSET Timers /\ active_' \in [TimerIds -> Time \cup {None}]
    BY <1>0, <1>5 DEF Timers
  <1>7. TypeOK'
    BY <1>0, <1>1, <1>6 DEF TypeOK
  <1>8. ASSUME NEW i \in TimerIds, Unused(i)
        PROVE  Unused(i)'
    BY <1>0, <1>1, <1>2, <1>5, <1>8, TimerAssumption DEF Unused
  <1>9. OnePlace'
    <2>1. \A i \in TimerIds : Queued(i)' <=> Queued(i)
      BY <1>1 DEF Queued, IsAdd
    <2>2. \A t \in expired' : active_'[t.id] = None /\ current' # t.id
      <3>1. \A t \in expired : t.id \in TimerIds /\ active_[t.id] = None /\ t.id # id
        BY <1>0, <1>3 DEF OnePlace, TypeOK, Timers
      <3> QED
        BY <1>0, <1>1, <1>5, <3>1, TimerAssumption
    <2> QED
      BY <1>0, <1>1, <1>8, <2>1, <2>2 DEF OnePlace, IsAdd
  <1>10. RoundShape' /\ ArmedForEarliest'
    BY <1>0, <1>1 DEF RoundShape, ArmedForEarliest
  <1>11. RoundRemembers'
    BY <1>0, <1>1, <1>2, <1>3, TimerAssumption DEF RoundRemembers
  <1>12. FinishedStaysOut'
    BY <1>0, <1>1, <1>5 DEF FinishedStaysOut
  <1>13. TablesAgree'
    <2>1. Agree(timers_, active_)
      BY <1>0, TablesMatch DEF TablesAgree
    <2>2. \A v \in Time : None # v
      BY TimerAssumption DEF Time
    <2>3. Agree(timers_', active_')
      <3>1. CASE UNCHANGED <<timers_, active_>>
        BY <2>1, <3>1 DEF Agree
      <3>2. CASE /\ timers_' = timers_ \cup {[id |-> id, when |-> w]}
                 /\ active_' = [active_ EXCEPT ![id] = w]
        BY <1>0, <1>3, <2>1, <2>2, <3>2 DEF Agree
      <3> QED
        BY <1>5, <3>1, <3>2
    <2> QED
      BY <1>6, <2>3, TablesMatch DEF TablesAgree
  <1> QED
    BY <1>7, <1>9, <1>10, <1>11, <1>12, <1>13 DEF TimerInv

\* The round ends and the timerfd is set again.
LEMMA RoundDoneKeeps ==
  ASSUME TimerInv, RoundDone
  PROVE  TimerInv'
  <1>0. /\ TypeOK /\ OnePlace /\ RoundShape /\ RoundRemembers /\ FinishedStaysOut
        /\ TablesAgree /\ now \in Time /\ timers_ \in SUBSET Timers
    BY DEF TimerInv, TypeOK
  <1>1. /\ UNCHANGED <<now, created, queue, timers_, active_, onReadyList, fetched, expired,
                       snapshotNow, current, fired, canceling_timers_, cancels, cancelled>>
        /\ calling_expired_timers_' = FALSE /\ calling_expired_timers_
        /\ expired = {} /\ current = None
    BY DEF RoundDone
  <1>2. OnePlace' /\ RoundShape' /\ RoundRemembers' /\ FinishedStaysOut' /\ TablesAgree'
    BY <1>0, <1>1 DEF OnePlace, Queued, IsAdd, Unused, RoundShape, RoundRemembers,
                      FinishedStaysOut, TablesAgree
  <1>3. CASE timers_ # {} /\ \E e \in Earliest(timers_) : ResetTimerfd(e)
    <2>1. PICK e \in Earliest(timers_) : ResetTimerfd(e)
      BY <1>3
    <2>2. e \in Time /\ \A t \in timers_ : t.when \in Time /\ e <= t.when
      BY <1>0, <2>1, EarliestIsFirst DEF Timers
    <2>3. deadline' = Later(e, now) /\ ticks' = 0
      BY <2>1 DEF ResetTimerfd
    <2>4. Later(e, now) \in Time /\ \A t \in timers_ : Later(e, now) <= Later(t.when, now)
      BY <1>0, <2>2, LaterMonotone DEF Time
    <2>5. ArmedForEarliest'
      BY <1>1, <2>3, <2>4, TimerAssumption DEF ArmedForEarliest, Time
    <2>6. TypeOK'
      BY <1>0, <1>1, <2>3, <2>4 DEF TypeOK
    <2> QED
      BY <1>2, <2>5, <2>6 DEF TimerInv
  <1>4. CASE timers_ = {} /\ UNCHANGED <<deadline, ticks>>
    <2>1. ArmedForEarliest'
      BY <1>1, <1>4 DEF ArmedForEarliest
    <2>2. TypeOK'
      BY <1>0, <1>1, <1>4 DEF TypeOK
    <2> QED
      BY <1>2, <2>1, <2>2 DEF TimerInv
  <1> QED
    BY <1>3, <1>4 DEF RoundDone, Rearm

-----------------------------------------------------------------------------
(* The theorems.                                                           *)

\* TimerInv holds in every state of the timer queue.
THEOREM TimerInvariant == Spec => []TimerInv
  <1>1. Init => TimerInv
    BY InitTimerInv
  <1>2. ASSUME TimerInv, UNCHANGED vars
        PROVE  TimerInv'
    BY <1>2 DEF vars, TimerInv, TypeOK, OnePlace, Queued, IsAdd, Unused, RoundShape,
                RoundRemembers, TablesAgree, ArmedForEarliest, FinishedStaysOut
  <1>3. TimerInv /\ [Next]_vars => TimerInv'
    BY <1>2, AddFromLoopKeeps, AddFromThreadKeeps, CancelFromLoopKeeps,
       CancelFromThreadKeeps, RunQueuedKeeps, KernelKeeps, TakeExpiredKeeps,
       CallTimerKeeps, TimerReturnsKeeps, RoundDoneKeeps
       DEF Next, LoopStep, HandleTimerfd
  <1> QED
    BY <1>1, <1>3, PTL DEF Spec

\* The tables, the queue and the snapshot keep their types.
THEOREM TypeCorrect == Spec => []TypeOK
  BY TimerInvariant, PTL DEF TimerInv

\* The two tables agree, whichever threads add and cancel timers, and whether
\* they do so inside a round or outside of it.
THEOREM TablesAlwaysAgree == Spec => []TablesAgree
  BY TimerInvariant, PTL DEF TimerInv

\* No wait is lost: while timers wait and no round is running, the timerfd is
\* armed no later than the earliest of them or its expiration is on the way.
THEOREM AlwaysArmed == Spec => []ArmedForEarliest
  BY TimerInvariant, PTL DEF TimerInv

\* A cancelled timer never returns to the table, and a one-shot timer fires
\* once at most.
THEOREM FinishedForGood == Spec => []FinishedStaysOut
  BY TimerInvariant, PTL DEF TimerInv

=============================================================================
