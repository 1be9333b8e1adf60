-------------------------- MODULE CommentRepository --------------------------
(***************************************************************************)
(* The comment store: the ring of the newest comments that every sub loop  *)
(* writes, the queue of database tasks, the thread that writes them to     *)
(* SQLite in batches, the orderly shutdown, and a crash of the process     *)
(* followed by a restart that rebuilds the ring from the table.            *)
(*                                                                         *)
(* A comment is a model value; a row of the table is the comment and       *)
(* whether it has been blotted out.  A slot's critical section contains    *)
(* the enqueueing, so both are one step; taking the sequence number is a   *)
(* step of its own.                                                        *)
(*                                                                         *)
(* The database may refuse any statement, those of Initialize included.  A *)
(* refused statement changes no row, but SQLite may end the transaction it *)
(* belongs to: the statements behind it are then committed one by one.     *)
(***************************************************************************)
EXTENDS Naturals, Sequences, FiniteSets, SequencesExt

CONSTANTS
    Pushers,        \* sub loop threads
    Comments,       \* what clients post, each at most once
    MaxMem,         \* MAX_MEM_COMMENTS
    MaxErases,      \* bound on the agent's calls of EraseComment
    MaxFailures,    \* bound on the statements the database refuses
    MaxStarts,      \* bound on the starts of the process
    None

ASSUME CommentRepositoryAssumption ==
    /\ MaxMem \in Nat \ {0}
    /\ MaxErases \in Nat /\ MaxFailures \in Nat /\ MaxStarts \in Nat
    /\ None \notin Comments
    /\ IsFiniteSet(Comments)

VARIABLES
    phase,          \* "down", "up", "draining" (sub loops joined), "closing"
    g_comment_sequence,
    ring,           \* g_comment_ring_buffer
    pushing,        \* pusher -> its sequence number and comment, or None
    m_db_queue,
    local_queue,    \* the batch being written
    wpc,            \* where DBWorkerLoop is
    m_stop_requested,
    all_ok,
    tx,             \* {the table as the open transaction sees it}, {} if none
    batch,          \* history: all tasks of the batch being written
    db,             \* the committed table: sequence number -> row
    seen,           \* what the agent has seen and may still act upon, or None
    posted,         \* comments clients have posted
    erases, failures, starts,
    truth,          \* history: the table as the callers were told it is
    blind           \* history: this life has read no row of a table that has some

memoryVars == <<g_comment_sequence, ring, pushing, m_db_queue, truth, blind>>
workerVars == <<local_queue, wpc, all_ok, tx, batch>>
counters == <<posted, erases, failures, starts>>
vars == <<phase, g_comment_sequence, ring, pushing, m_db_queue, local_queue,
          wpc, m_stop_requested, all_ok, tx, batch, db, seen, posted, erases,
          failures, starts, truth, blind>>

-----------------------------------------------------------------------------
(* Tables: functions from a finite set of sequence numbers to rows.        *)

Rows == [comment : Comments, erased : BOOLEAN]
Slots == [sequence : Nat, comment : Comments \cup {None}, erased : BOOLEAN]
EmptySlot == [sequence |-> 0, comment |-> None, erased |-> FALSE]
Tasks == [action : {"INSERT"}, seq : Nat, comment : Comments]
            \cup [action : {"UPDATE"}, seq : Nat]

NoRows == [s \in {} |-> None]
IsTable(t) == /\ IsFiniteSet(DOMAIN t) /\ DOMAIN t \subseteq Nat
              /\ \A s \in DOMAIN t : t[s] \in Rows

Put(t, s, row) == [r \in DOMAIN t \cup {s} |-> IF r = s THEN row ELSE t[r]]

\* INSERT OR REPLACE, and an UPDATE that finds no row does nothing.
ExecuteTask(t, task) ==
    IF task.action = "INSERT"
    THEN Put(t, task.seq, [comment |-> task.comment, erased |-> FALSE])
    ELSE IF task.seq \in DOMAIN t
         THEN Put(t, task.seq, [t[task.seq] EXCEPT !.erased = TRUE])
         ELSE t

Slot(s) == s % MaxMem

\* What the SELECT has returned after n rows: the newest ones.
Selected(t, n) ==
    [s \in {s \in DOMAIN t : Cardinality({r \in DOMAIN t : r > s}) < n} |-> t[s]]

-----------------------------------------------------------------------------
TypeOK ==
    /\ phase \in {"down", "up", "draining", "closing"}
    /\ g_comment_sequence \in Nat
    /\ ring \in [0 .. MaxMem - 1 -> Slots]
    /\ pushing \in [Pushers -> [seq : Nat, comment : Comments] \cup {None}]
    /\ m_db_queue \in Seq(Tasks) /\ local_queue \in Seq(Tasks)
    /\ wpc \in {"none", "lock", "blocking", "asleep", "begin", "exec", "exited"}
    /\ m_stop_requested \in BOOLEAN /\ all_ok \in BOOLEAN
    /\ Cardinality(tx) <= 1 /\ \A t \in tx : IsTable(t)
    /\ batch \in Seq(Tasks)
    /\ blind \in BOOLEAN
    /\ IsTable(db) /\ IsTable(truth)
    /\ seen \in [seq : Nat, comment : Comments, life : Nat] \cup {None}
    /\ posted \in SUBSET Comments
    /\ erases \in 0 .. MaxErases
    /\ failures \in 0 .. MaxFailures
    /\ starts \in 0 .. MaxStarts

EmptyRing == [k \in 0 .. MaxMem - 1 |-> EmptySlot]

Init ==
    /\ phase = "down"
    /\ g_comment_sequence = 0
    /\ ring = EmptyRing
    /\ pushing = [w \in Pushers |-> None]
    /\ m_db_queue = <<>> /\ local_queue = <<>>
    /\ wpc = "none"
    /\ m_stop_requested = FALSE /\ all_ok = TRUE
    /\ tx = {} /\ batch = <<>>
    /\ db = NoRows /\ truth = NoRows
    /\ blind = FALSE
    /\ seen = None
    /\ posted = {}
    /\ erases = 0 /\ failures = 0 /\ starts = 0

-----------------------------------------------------------------------------
(* Start, crash and shutdown of the process.                               *)

\* Variant: the counter resumes at the last number and not behind it.
FirstFreeOffByOne(t) == IF DOMAIN t = {} THEN 0 ELSE Max(DOMAIN t)

\* max_seq + 1, or the counter's initial value if there is no row.
FirstFree(t) == IF DOMAIN t = {} THEN 0 ELSE 1 + Max(DOMAIN t)

\* The rows that were read go into their slots, oldest first.
Restored(t) ==
    [k \in 0 .. MaxMem - 1 |->
        LET here == {s \in DOMAIN t : Slot(s) = k}
        IN  IF here = {} THEN EmptySlot
            ELSE LET s == Max(here)
                 IN  [sequence |-> s + 1, comment |-> t[s].comment,
                      erased |-> t[s].erased]]

Refuses == failures < MaxFailures /\ failures' = failures + 1
Accepts == UNCHANGED failures

\* A new process: every static starts anew.  A SELECT that is refused before
\* or after some row is not noticed: what was read by then counts as the table.
Initialize ==
    /\ phase = "down"
    /\ starts < MaxStarts
    /\ starts' = starts + 1
    /\ phase' = "up"
    /\ m_stop_requested' = FALSE
    /\ \E n \in 0 .. MaxMem :
         /\ \/ n = MaxMem /\ Accepts
            \/ n < MaxMem /\ Refuses
         /\ g_comment_sequence' = FirstFree(Selected(db, n))
         /\ ring' = Restored(Selected(db, n))
         /\ blind' = (n = 0 /\ DOMAIN db # {})
    /\ wpc' = "lock"
    /\ truth' = db
    /\ UNCHANGED <<pushing, m_db_queue, local_queue, all_ok, tx, batch, db, seen,
                   posted, erases>>

\* InitSqlite is refused and main() returns.
InitializeFails ==
    /\ phase = "down"
    /\ starts < MaxStarts
    /\ starts' = starts + 1
    /\ Refuses
    /\ m_stop_requested' = FALSE
    /\ UNCHANGED <<phase, memoryVars, workerVars, db, seen, posted, erases>>

\* The process is gone, with everything that was in its memory.
Lost ==
    /\ phase' = "down"
    /\ g_comment_sequence' = 0
    /\ ring' = EmptyRing
    /\ pushing' = [w \in Pushers |-> None]
    /\ m_db_queue' = <<>> /\ local_queue' = <<>>
    /\ wpc' = "none"
    /\ tx' = {} /\ batch' = <<>>
    /\ UNCHANGED <<all_ok, db, seen, counters, truth, blind>>

Crash ==
    /\ phase # "down"
    /\ m_stop_requested' = FALSE
    /\ Lost

\* The server has been destroyed and its threads joined; Shutdown stores the
\* flag ...
ShutdownStores ==
    /\ phase = "up"
    /\ \A w \in Pushers : pushing[w] = None
    /\ phase' = "draining"
    /\ m_stop_requested' = TRUE
    /\ UNCHANGED <<memoryVars, workerVars, db, seen, counters>>

\* notify_one: whoever waits on the condition variable wakes up.
Notify == wpc' = IF wpc = "asleep" THEN "lock" ELSE wpc

\* ... notifies without holding the mutex ...
ShutdownNotifies ==
    /\ phase = "draining"
    /\ phase' = "closing"
    /\ Notify
    /\ UNCHANGED <<memoryVars, local_queue, m_stop_requested, all_ok, tx, batch,
                   db, seen, counters>>

\* ... joins the worker and closes the database.
ShutdownJoins ==
    /\ phase = "closing"
    /\ wpc = "exited"
    /\ Lost
    /\ UNCHANGED m_stop_requested

-----------------------------------------------------------------------------
(* Pushing and erasing, on the sub loops' threads.                         *)

\* Variant: the queue is filled and nobody is told.
EnqueueSilently(task) ==
    /\ wpc # "blocking"
    /\ m_db_queue' = Append(m_db_queue, task)
    /\ wpc' = wpc

\* Variant: the newest task is executed first.
EnqueueInFront(task) ==
    /\ wpc # "blocking"
    /\ m_db_queue' = <<task>> \o m_db_queue
    /\ Notify

\* The mutex is free unless the worker is on its way to sleep with it.
EnqueueDBTask(task) ==
    /\ wpc # "blocking"
    /\ m_db_queue' = Append(m_db_queue, task)
    /\ Notify

\* PushComment takes a number ...
TakeSequence(w, c) ==
    /\ phase = "up"
    /\ pushing[w] = None
    /\ c \notin posted
    /\ posted' = posted \cup {c}
    /\ pushing' = [pushing EXCEPT ![w] =
                     [seq |-> g_comment_sequence, comment |-> c]]
    /\ g_comment_sequence' = g_comment_sequence + 1
    /\ UNCHANGED <<phase, ring, m_db_queue, truth, blind, workerVars,
                   m_stop_requested, db, seen, erases, failures, starts>>

\* ... and fills the slot, whatever it holds by now.
StoreComment(w) ==
    /\ phase = "up"
    /\ pushing[w] # None
    /\ LET s == pushing[w].seq
           c == pushing[w].comment
       IN  /\ ring' = [ring EXCEPT ![Slot(s)] =
                         [sequence |-> s + 1, comment |-> c, erased |-> FALSE]]
           /\ EnqueueDBTask([action |-> "INSERT", seq |-> s, comment |-> c])
           /\ truth' = Put(truth, s, [comment |-> c, erased |-> FALSE])
    /\ pushing' = [pushing EXCEPT ![w] = None]
    /\ UNCHANGED <<phase, g_comment_sequence, blind, local_queue,
                   m_stop_requested, all_ok, tx, batch, db, seen, counters>>

\* The agent reads GetTelemetrySnapshot: any comment whose slot still holds
\* it and that lies in the window of the counter.
InWindow(k) ==
    /\ ring[k].sequence > 0
    /\ ring[k].sequence <= g_comment_sequence
    /\ g_comment_sequence < ring[k].sequence + MaxMem

AgentLooks(k) ==
    /\ phase = "up"
    /\ InWindow(k)
    /\ Slot(ring[k].sequence - 1) = k
    /\ seen' = [seq |-> ring[k].sequence - 1, comment |-> ring[k].comment,
                life |-> starts]
    /\ UNCHANGED <<phase, memoryVars, workerVars, m_stop_requested, db,
                   counters>>

\* Variant: the slot is blotted out without a look at its number.
StillHoldsAny(s) == ring[Slot(s)].sequence > 0

\* The slot of s has not been used again.
StillHolds(s) == ring[Slot(s)].sequence = s + 1

\* Much later the agent answers; a slot used again is left alone.
EraseComment ==
    /\ phase = "up"
    /\ seen # None
    /\ erases < MaxErases
    /\ erases' = erases + 1
    /\ seen' = None
    /\ LET s == seen.seq
           k == Slot(s)
       IN  IF StillHolds(s)
           THEN /\ ring' = [ring EXCEPT ![k].erased = TRUE]
                /\ EnqueueDBTask([action |-> "UPDATE", seq |-> s])
                /\ truth' = IF s \in DOMAIN truth
                            THEN Put(truth, s, [truth[s] EXCEPT !.erased = TRUE])
                            ELSE truth
           ELSE UNCHANGED <<ring, m_db_queue, wpc, truth>>
    /\ UNCHANGED <<phase, g_comment_sequence, blind, pushing, local_queue,
                   m_stop_requested, all_ok, tx, batch, db, posted, failures,
                   starts>>

-----------------------------------------------------------------------------
(* DBWorkerLoop.                                                           *)

\* Variant: the worker leaves as soon as it is told to.
MayExitAtOnce == m_stop_requested

MayExit == m_db_queue = <<>> /\ m_stop_requested

\* The worker holds the mutex and looks at the predicate.
WorkerLooks ==
    /\ wpc = "lock"
    /\ \/ /\ m_db_queue = <<>> /\ ~m_stop_requested
          /\ wpc' = "blocking"
          /\ UNCHANGED <<m_db_queue, local_queue, batch>>
       \/ /\ MayExit
          /\ wpc' = "exited"
          /\ UNCHANGED <<m_db_queue, local_queue, batch>>
       \/ /\ m_db_queue # <<>> /\ ~MayExit
          /\ local_queue' = m_db_queue
          /\ batch' = m_db_queue
          /\ m_db_queue' = <<>>
          /\ wpc' = "begin"
    /\ UNCHANGED <<phase, g_comment_sequence, ring, pushing, truth, blind,
                   m_stop_requested, all_ok, tx, db, seen, counters>>

\* It releases the mutex and sleeps.
WorkerSleeps ==
    /\ wpc = "blocking"
    /\ wpc' = "asleep"
    /\ UNCHANGED <<phase, memoryVars, local_queue, m_stop_requested, all_ok, tx,
                   batch, db, seen, counters>>

SpuriousWakeup ==
    /\ wpc = "asleep"
    /\ wpc' = "lock"
    /\ UNCHANGED <<phase, memoryVars, local_queue, m_stop_requested, all_ok, tx,
                   batch, db, seen, counters>>

unmoved == <<phase, memoryVars, m_stop_requested, seen, posted, erases, starts>>

\* BEGIN fails inside an open transaction; then the batch is skipped.
BeginTransaction ==
    /\ wpc = "begin"
    /\ \/ /\ Accepts /\ tx = {}
          /\ tx' = {db}
          /\ all_ok' = TRUE
          /\ wpc' = "exec"
          /\ UNCHANGED <<local_queue, batch>>
       \/ /\ Refuses \/ (tx # {} /\ UNCHANGED failures)
          /\ local_queue' = <<>> /\ batch' = <<>>
          /\ wpc' = "lock"
          /\ UNCHANGED <<tx, all_ok>>
    /\ UNCHANGED <<unmoved, db>>

\* The table as the worker sees it.
Table == IF tx = {} THEN db ELSE CHOOSE t \in tx : TRUE

\* A statement changes the table of the transaction; outside of one it is
\* committed at once.
Write(t) == IF tx = {} THEN db' = t /\ UNCHANGED tx
            ELSE tx' = {t} /\ UNCHANGED db

\* A statement that is refused may end the transaction, with all that was
\* written in it.
ExecuteTaskToSqlite ==
    /\ wpc = "exec"
    /\ local_queue # <<>>
    /\ local_queue' = Tail(local_queue)
    /\ \/ /\ Accepts
          /\ Write(ExecuteTask(Table, Head(local_queue)))
          /\ UNCHANGED all_ok
       \/ /\ Refuses
          /\ all_ok' = FALSE
          /\ tx' \in {tx, {}}
          /\ UNCHANGED db
    /\ UNCHANGED <<unmoved, wpc, batch>>

\* Variant: what could be written is committed.
EndSqlCommits == "COMMIT"

EndSql == IF all_ok THEN "COMMIT" ELSE "ROLLBACK"

\* A COMMIT or ROLLBACK that fails has ended the transaction or left it open;
\* without a transaction both fail and change nothing.
EndTransaction ==
    /\ wpc = "exec"
    /\ local_queue = <<>>
    /\ wpc' = "lock"
    /\ batch' = <<>>
    /\ \/ EndSql = "COMMIT" /\ Accepts /\ db' \in tx /\ tx' = {}
       \/ EndSql = "ROLLBACK" /\ Accepts /\ tx' = {} /\ UNCHANGED db
       \/ tx = {} /\ Accepts /\ UNCHANGED <<db, tx>>
       \/ Refuses /\ tx' \in {{}, tx} /\ UNCHANGED db
    /\ UNCHANGED <<unmoved, local_queue, all_ok>>

WorkerStep ==
    \/ WorkerLooks \/ WorkerSleeps
    \/ BeginTransaction \/ ExecuteTaskToSqlite \/ EndTransaction

ShutdownStep == ShutdownNotifies \/ ShutdownJoins

Next ==
    \/ Initialize \/ InitializeFails \/ Crash \/ ShutdownStores \/ ShutdownStep
    \/ \E w \in Pushers, c \in Comments : TakeSequence(w, c)
    \/ \E w \in Pushers : StoreComment(w)
    \/ \E k \in 0 .. MaxMem - 1 : AgentLooks(k)
    \/ EraseComment
    \/ WorkerStep \/ SpuriousWakeup

Spec == Init /\ [][Next]_vars

\* The worker and the thread inside Shutdown are scheduled; nobody owes a
\* spurious wakeup.
Fairness == WF_vars(WorkerStep) /\ WF_vars(ShutdownStep)

FairSpec == Spec /\ Fairness

-----------------------------------------------------------------------------
(* Properties.                                                             *)

\* A table after the tasks of a queue.
Executed(t, tasks) == FoldLeft(ExecuteTask, t, tasks)

\* Memory and disk agree (PushComment, EraseComment, DBWorkerLoop): unless the
\* database refused something, executing what is queued makes the table what
\* the callers were told it is; in particular no UPDATE overtakes its INSERT.
DiskCatchesUp ==
    phase # "down" /\ failures = 0 =>
        Executed(Table, local_queue \o m_db_queue) = truth

\* Shutdown waits until the queue is empty: at the end of an orderly shutdown
\* nothing the callers were told is missing from the table.
ShutdownDrains == wpc = "exited" /\ failures = 0 => db = truth

\* Every row stays, with its comment, and blotted out if it was.
RowsKept ==
    \A s \in DOMAIN db :
        /\ s \in DOMAIN db'
        /\ db'[s].comment = db[s].comment
        /\ db[s].erased => db'[s].erased

\* A comment in the table is never replaced, and one that has been blotted out
\* stays so, across crashes, restarts and refused statements (Initialize
\* resumes the numbers), except in a life whose Initialize could not read the
\* table: there the counter starts at 0.
RowsAreFinal == [][~blind => RowsKept]_vars

\* A batch is written completely or not at all (DBWorkerLoop): if the table
\* changes, then by all tasks of the batch in their order, whatever else was
\* refused, unless SQLite has ended the transaction in the middle of it.
BatchIsAtomic ==
    [][db' # db => \/ db' = Executed(db, batch)
                   \/ wpc = "exec" /\ tx = {}]_vars

\* The agent's late answer blots out the comment it looked at and no other,
\* unless the process was restarted in between.
ErasesWhatWasSeen ==
    [][\A k \in 0 .. MaxMem - 1 :
          (~ring[k].erased /\ ring'[k].erased /\ phase = "up" /\ seen # None
             /\ seen.life = starts)
          => ring[k].comment = seen.comment]_vars

\* The worker is woken for what it waits for: a queued task is taken to the
\* database (EnqueueDBTask, DBWorkerLoop), and Shutdown returns, unless its
\* store and its notification, which are made without the mutex, both fall
\* between the worker's look at the predicate and its sleep.
WorkerIsWoken ==
    /\ m_db_queue # <<>> ~> m_db_queue = <<>>
    /\ (phase = "draining" /\ wpc # "blocking") ~> phase = "down"
=============================================================================
