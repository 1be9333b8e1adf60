----------------------------- MODULE TimerQueue -----------------------------
(***************************************************************************)
(* The timers of one EventLoop: the tables timers_ and active_, the        *)
(* timerfd that wakes the loop, and the calls RunAfter, RunEvery and       *)
(* CancelTimer, made by the loop's own thread from inside a callback (they *)
(* act at once) or by any other thread (they are queued as functors).      *)
(*                                                                         *)
(* The functor queue is the abstract one of FunctorQueue, which EventLoop  *)
(* implements: one FIFO, executed after the events of a pass.  Time is a   *)
(* natural number that moves at any moment, also while callbacks run.      *)
(***************************************************************************)
EXTENDS Naturals, Sequences

CONSTANTS
    TimerIds,       \* what next_timer_id_ hands out
    Periodic,       \* the ids handed out by RunEvery
    Period,         \* interval_sec of those, in ticks
    Delays,         \* the delays callers ask of RunAfter, in ticks
    MaxTime,        \* bound on the clock
    MaxCancels,     \* bound on the calls of CancelTimer
    None            \* no time, no timer

ASSUME TimerAssumption ==
    /\ Periodic \subseteq TimerIds
    /\ Period \in Nat \ {0}
    /\ Delays \subseteq Nat
    /\ MaxTime \in Nat /\ MaxCancels \in Nat
    /\ None \notin Nat /\ None \notin TimerIds

Time == Nat
Timers == [id : TimerIds, when : Time]
Calls == [op : {"add"}, id : TimerIds, when : Time]
           \cup [op : {"cancel"}, id : TimerIds]

VARIABLES
    now,
    created,        \* ids handed out so far
    queue,          \* add and cancel functors queued by other threads
    timers_,        \* set of timers; the order within a time key is left open
    active_,        \* id -> its key in timers_, or None
    deadline,       \* when the timerfd expires, None if disarmed
    ticks,          \* unread expirations of the timerfd
    onReadyList,    \* the timerfd is on epoll's ready list
    fetched,        \* epoll_wait reported it, HandleTimerfd is still to come
    calling_expired_timers_,
    expired,        \* the snapshot of HandleTimerfd, what is left of it
    snapshotNow,    \* its local variable now
    current,        \* the timer whose callback is running, or None
    canceling_timers_,
    cancels,        \* calls of CancelTimer so far
    fired,          \* history: callbacks started, per timer
    cancelled       \* history: timers cancelled after they had been added

tableVars == <<timers_, active_, deadline, ticks>>
batchVars == <<calling_expired_timers_, expired, snapshotNow, current, fired>>
vars == <<now, created, queue, timers_, active_, deadline, ticks, onReadyList,
          fetched, calling_expired_timers_, expired, snapshotNow, current,
          canceling_timers_, cancels, fired, cancelled>>

TypeOK ==
    /\ now \in Time
    /\ created \in SUBSET TimerIds
    /\ queue \in Seq(Calls)
    /\ timers_ \in SUBSET Timers
    /\ active_ \in [TimerIds -> Time \cup {None}]
    /\ deadline \in Time \cup {None}
    /\ ticks \in {0, 1}
    /\ onReadyList \in BOOLEAN
    /\ fetched \in BOOLEAN
    /\ calling_expired_timers_ \in BOOLEAN
    /\ expired \in SUBSET Timers
    /\ snapshotNow \in Time
    /\ current \in TimerIds \cup {None}
    /\ canceling_timers_ \in SUBSET TimerIds
    /\ cancels \in Nat
    /\ fired \in [TimerIds -> Nat]
    /\ cancelled \in SUBSET TimerIds

Init ==
    /\ now = 0
    /\ created = {}
    /\ queue = <<>>
    /\ timers_ = {}
    /\ active_ = [i \in TimerIds |-> None]
    /\ deadline = None
    /\ ticks = 0
    /\ onReadyList = FALSE
    /\ fetched = FALSE
    /\ calling_expired_timers_ = FALSE
    /\ expired = {}
    /\ snapshotNow = 0
    /\ current = None
    /\ canceling_timers_ = {}
    /\ cancels = 0
    /\ fired = [i \in TimerIds |-> 0]
    /\ cancelled = {}

-----------------------------------------------------------------------------
(* Helpers.                                                                *)

Later(a, b) == IF a < b THEN b ELSE a

\* The key of timers_.begin(), as a set with at most one element.
Earliest(ts) == {t.when : t \in {u \in ts : \A v \in ts : u.when <= v.when}}

\* timerfd_settime: at least a microsecond ahead, and any expiration that has
\* not been read is forgotten.
ResetTimerfd(earliest) ==
    /\ deadline' = Later(earliest, now)
    /\ ticks' = 0

\* Variant: the timerfd is only set for the first timer.
EarliestChangedIfEmpty(when) == timers_ = {}

EarliestChanged(when) == \A t \in timers_ : when < t.when

AddTimerInLoop(id, when) ==
    /\ timers_' = timers_ \cup {[id |-> id, when |-> when]}
    /\ active_' = [active_ EXCEPT ![id] = when]
    /\ IF EarliestChanged(when)
       THEN ResetTimerfd(when)
       ELSE UNCHANGED <<deadline, ticks>>

\* The timer with this id is waiting, in this round's snapshot, or running.
Added(id) == active_[id] # None \/ current = id \/ \E t \in expired : t.id = id

\* Cancelling a timer that is in the table.
EraseTimer(id) ==
    /\ timers_' = timers_ \ {[id |-> id, when |-> active_[id]]}
    /\ active_' = [active_ EXCEPT ![id] = None]
    /\ IF timers_' # {} /\ \A t \in timers_' : active_[id] <= t.when
       THEN \E e \in Earliest(timers_') : ResetTimerfd(e)
       ELSE UNCHANGED <<deadline, ticks>>
    /\ UNCHANGED canceling_timers_

\* Variant: a cancel that comes while the timer is being called is forgotten.
NoteCancelForgets(id) == UNCHANGED canceling_timers_

\* Cancelling one that is not: it is only remembered during a round.
NoteCancel(id) ==
    canceling_timers_' = IF calling_expired_timers_
                         THEN canceling_timers_ \cup {id}
                         ELSE canceling_timers_

CancelTimerInLoop(id) ==
    /\ \/ active_[id] # None /\ EraseTimer(id)
       \/ active_[id] = None /\ NoteCancel(id) /\ UNCHANGED tableVars
    /\ cancelled' = IF Added(id) THEN cancelled \cup {id} ELSE cancelled

-----------------------------------------------------------------------------
(* Calls.  The loop thread may make them from any callback: a timer's, or  *)
(* that of another channel, before or after HandleTimerfd in a pass.       *)

\* RunEvery's first time is one period ahead.
DelaysOf(id) == IF id \in Periodic THEN {Period} ELSE Delays

InCallback == current # None \/ ~calling_expired_timers_

\* RunAfter and RunEvery on the loop thread.
AddFromLoop(id, delay) ==
    /\ InCallback
    /\ id \notin created
    /\ created' = created \cup {id}
    /\ AddTimerInLoop(id, now + delay)
    /\ UNCHANGED <<now, queue, onReadyList, fetched, batchVars,
                   canceling_timers_, cancels, cancelled>>

\* RunAfter and RunEvery on another thread: the time is fixed here.
AddFromThread(id, delay) ==
    /\ id \notin created
    /\ created' = created \cup {id}
    /\ queue' = Append(queue, [op |-> "add", id |-> id, when |-> now + delay])
    /\ UNCHANGED <<now, tableVars, onReadyList, fetched, batchVars,
                   canceling_timers_, cancels, cancelled>>

CancelFromLoop(id) ==
    /\ InCallback
    /\ id \in created
    /\ cancels < MaxCancels
    /\ cancels' = cancels + 1
    /\ CancelTimerInLoop(id)
    /\ UNCHANGED <<now, created, queue, onReadyList, fetched, batchVars>>

CancelFromThread(id) ==
    /\ id \in created
    /\ cancels < MaxCancels
    /\ cancels' = cancels + 1
    /\ queue' = Append(queue, [op |-> "cancel", id |-> id])
    /\ UNCHANGED <<now, created, tableVars, onReadyList, fetched, batchVars,
                   canceling_timers_, cancelled>>

\* DoPendingFunctors: after every event of the pass has been handled.
RunQueued ==
    /\ queue # <<>>
    /\ ~fetched /\ ~calling_expired_timers_
    /\ queue' = Tail(queue)
    /\ LET call == Head(queue)
       IN  \/ /\ call.op = "add"
              /\ AddTimerInLoop(call.id, call.when)
              /\ UNCHANGED <<canceling_timers_, cancelled>>
           \/ /\ call.op = "cancel"
              /\ CancelTimerInLoop(call.id)
    /\ UNCHANGED <<now, created, onReadyList, fetched, batchVars, cancels>>

-----------------------------------------------------------------------------
(* The kernel.                                                             *)

Tick ==
    /\ now < MaxTime
    /\ now' = now + 1
    /\ UNCHANGED <<created, queue, tableVars, onReadyList, fetched, batchVars,
                   canceling_timers_, cancels, cancelled>>

TimerfdExpires ==
    /\ deadline # None
    /\ deadline <= now
    /\ deadline' = None
    /\ ticks' = 1
    /\ onReadyList' = TRUE
    /\ UNCHANGED <<now, created, queue, timers_, active_, fetched, batchVars,
                   canceling_timers_, cancels, cancelled>>

\* epoll_wait reports the edge once, and only if there is still something to
\* read.
EpollReports ==
    /\ onReadyList /\ ticks > 0
    /\ ~fetched /\ ~calling_expired_timers_
    /\ onReadyList' = FALSE
    /\ fetched' = TRUE
    /\ UNCHANGED <<now, created, queue, tableVars, batchVars,
                   canceling_timers_, cancels, cancelled>>

-----------------------------------------------------------------------------
(* HandleTimerfd.                                                          *)

\* Variant: active_ keeps the timers that go to the snapshot.
WithoutNothing(ts) == active_

\* active_ without the timers in ts.
Without(ts) ==
    [i \in TimerIds |-> IF \E t \in ts : t.id = i THEN None ELSE active_[i]]

\* Read the timerfd (the read fails if a reset in the same pass took the
\* expiration away; the code goes on), then move what is due to a snapshot.
TakeExpired ==
    /\ fetched
    /\ fetched' = FALSE
    /\ ticks' = 0
    /\ snapshotNow' = now
    /\ expired' = {t \in timers_ : t.when <= now}
    /\ timers_' = timers_ \ expired'
    /\ active_' = Without(expired')
    /\ calling_expired_timers_' = TRUE
    /\ canceling_timers_' = {}
    /\ UNCHANGED <<now, created, queue, deadline, onReadyList, current, fired,
                   cancels, cancelled>>

\* The callbacks run in the order of their times.
CallTimer(t) ==
    /\ calling_expired_timers_ /\ current = None
    /\ t \in expired
    /\ \A u \in expired : t.when <= u.when
    /\ expired' = expired \ {t}
    /\ current' = t.id
    /\ fired' = [fired EXCEPT ![t.id] = @ + 1]
    /\ UNCHANGED <<now, created, queue, tableVars, onReadyList, fetched,
                   calling_expired_timers_, snapshotNow, canceling_timers_,
                   cancels, cancelled>>

\* A periodic timer that was not cancelled during this round is put back.
Renews(id) == id \in Periodic /\ id \notin canceling_timers_

TimerReturns ==
    /\ current # None
    /\ current' = None
    /\ IF Renews(current)
       THEN LET next == snapshotNow + Period
            IN  /\ timers_' = timers_ \cup {[id |-> current, when |-> next]}
                /\ active_' = [active_ EXCEPT ![current] = next]
       ELSE UNCHANGED <<timers_, active_>>
    /\ UNCHANGED <<now, created, queue, deadline, ticks, onReadyList, fetched,
                   calling_expired_timers_, expired, snapshotNow, fired,
                   canceling_timers_, cancels, cancelled>>

\* Variant: the timerfd is not set again after a round.
RearmNever == UNCHANGED <<deadline, ticks>>

Rearm ==
    IF timers_ # {}
    THEN \E e \in Earliest(timers_) : ResetTimerfd(e)
    ELSE UNCHANGED <<deadline, ticks>>

RoundDone ==
    /\ calling_expired_timers_ /\ current = None
    /\ expired = {}
    /\ calling_expired_timers_' = FALSE
    /\ Rearm
    /\ UNCHANGED <<now, created, queue, timers_, active_, onReadyList, fetched,
                   expired, snapshotNow, current, fired, canceling_timers_,
                   cancels, cancelled>>

-----------------------------------------------------------------------------
HandleTimerfd ==
    TakeExpired \/ (\E t \in expired : CallTimer(t)) \/ TimerReturns \/ RoundDone

LoopStep == EpollReports \/ HandleTimerfd \/ RunQueued

Next ==
    \/ \E i \in TimerIds : \E d \in DelaysOf(i) :
         AddFromLoop(i, d) \/ AddFromThread(i, d)
    \/ \E i \in TimerIds : CancelFromLoop(i) \/ CancelFromThread(i)
    \/ Tick \/ TimerfdExpires
    \/ LoopStep

Spec == Init /\ [][Next]_vars

\* The clock moves, the kernel's timer fires, the loop thread is scheduled.
Fairness == WF_vars(Tick) /\ WF_vars(TimerfdExpires) /\ WF_vars(LoopStep)

FairSpec == Spec /\ Fairness

-----------------------------------------------------------------------------
(* Properties.                                                             *)

\* The two tables agree: CancelTimerInLoop finds through active_ exactly the
\* entry of timers_ it must erase, and no id is in the table twice.
TablesAgree ==
    timers_ = {[id |-> i, when |-> active_[i]] :
                  i \in {j \in TimerIds : active_[j] # None}}

\* Whenever timers wait and no round is running, the timerfd is armed no later
\* than the earliest of them (or than now, if that one is overdue), or its
\* expiration is on the way to HandleTimerfd (AddTimerInLoop,
\* CancelTimerInLoop, HandleTimerfd).
ArmedForEarliest ==
    timers_ # {} /\ ~calling_expired_timers_ =>
        \/ fetched
        \/ ticks > 0 /\ onReadyList
        \/ deadline # None /\ \A t \in timers_ : deadline <= Later(t.when, now)

\* A timer that is finished never returns to the table (HandleTimerfd,
\* CancelTimerInLoop): no renewal, after its own callback or later in the
\* round, brings a cancelled one back, and a one-shot timer fires once.
FinishedStaysOut ==
    \A i \in TimerIds :
        /\ i \in cancelled => active_[i] = None
        /\ i \notin Periodic => fired[i] <= 1 /\ (fired[i] = 1 => active_[i] = None)

\* A timer in the table leaves it: its callback starts or it is cancelled
\* (for timers due within the bound on the clock).
DueTimersLeave ==
    \A i \in TimerIds, w \in 0 .. MaxTime : active_[i] = w ~> active_[i] # w
=============================================================================
