-------------------------- MODULE ApplicationProofs --------------------------
(***************************************************************************)
(* Proofs about the program built on the network library: its start and    *)
(* end (MainProgram), its load breaker (SysMetricsDaemon), its HTTP input  *)
(* (HttpContext, Buffer) and its blacklist (HttpDispatcher,                *)
(* BlacklistManager).  These share no variable; each has its own           *)
(* specification and its own inductive invariant.                          *)
(***************************************************************************)
EXTENDS MainProgram, SysMetricsDaemon, HttpContext, HttpDispatcher, SequenceTheorems,
        FiniteSetTheorems, WellFoundedInduction, TLAPS

-----------------------------------------------------------------------------
(*                              MainProgram                                *)

(* The inductive invariant.                                                *)

\* The places of main in EventLoopThreadPool::Start.
Starting == {"create", "lock", "check", "asleep", "take"}

\* The types of the variables, and where main's loops keep their index.
TypesOK ==
    /\ main \in Starting \cup {"init", "loop", "push", "wakeup", "join", "destroy",
                               "shutdown", "stoplog", "hung", "exited"}
    /\ cur \in 1 .. (N + 1)
    /\ main \in {"lock", "check", "asleep", "take", "push", "wakeup", "join"} => cur \in Subs
    /\ mainAlive \in BOOLEAN /\ g_main_loop \in BOOLEAN /\ quit_ \in BOOLEAN
    /\ data \in [Subs -> {"none", "live", "ready", "gone"}]
    /\ mutex \in 0 .. (N + 1)
    /\ loops_ \in SUBSET Subs
    /\ next_ \in Subs
    /\ accepted \in Nat
    /\ sub \in [Subs -> {"none", "created", "locked", "published", "entering",
                         "looping", "stuck", "done"}]
    /\ connected \in SUBSET Subs
    /\ queue \in [Subs -> Seq({"conn", "quit"})]
    /\ subQuit \in [Subs -> BOOLEAN]

\* Nobody has asked sub loop i to quit.
NotAsked(i) == ~subQuit[i] /\ \A k \in DOMAIN queue[i] : queue[i][k] # "quit"

\* Thread i does not exist; it is being started, with its ThreadData in place;
\* its loop is known to the pool and serves; it may also have quit.
Absent(i) == sub[i] = "none" /\ NotAsked(i)

HandingOver(i) ==
    /\ \/ data[i] = "live" /\ sub[i] \in {"created", "locked"}
       \/ data[i] = "ready" /\ sub[i] \in {"published", "entering", "looping", "stuck"}
    /\ NotAsked(i)

Serving(i) == sub[i] \in {"entering", "looping", "stuck"} /\ i \in loops_ /\ NotAsked(i)

Released(i) == sub[i] \in {"entering", "looping", "stuck", "done"}

\* Where thread i is, given where main is.
Placed(i) ==
    /\ main = "init" => Absent(i) /\ cur = 1
    /\ main \in Starting /\ i < cur => Serving(i)
    /\ main \in Starting \ {"create"} /\ i = cur => HandingOver(i)
    /\ main \in Starting /\ i > cur => Absent(i)
    /\ main = "create" /\ i = cur => Absent(i)
    /\ main = "loop" => Serving(i)
    /\ main = "push" => IF i < cur THEN Released(i) ELSE Serving(i)
    /\ main = "wakeup" => IF i <= cur THEN Released(i) ELSE Serving(i)
    /\ main = "join" => Released(i) /\ (i < cur => sub[i] = "done")
    /\ main \in {"destroy", "shutdown"} => sub[i] = "done"
    /\ main \in {"stoplog", "hung", "exited"} => sub[i] \in {"none", "done"}

\* Who holds the mutex of the ThreadData; main takes the loop only with ready
\* set, and holds the mutex while it does.
MutexHeld ==
    /\ mutex = 0 <=> main \in {"check", "take"}
    /\ \A i \in Subs : sub[i] \in {"locked", "published"} <=> mutex = i
    /\ main = "take" => data[cur] = "ready" /\ cur \in loops_

\* A sub loop that has been told to quit has nothing left to execute.
DrainedBeforeQuit ==
    \A i \in Subs : subQuit[i] \/ sub[i] = "done" => queue[i] = <<>>

\* The main loop exists from Boot until every thread has been joined.
MainLoopThere ==
    main \in Starting \cup {"loop", "push", "wakeup", "join", "destroy"} => mainAlive

\* All of it.
MainInv ==
    /\ TypesOK
    /\ \A i \in Subs : Placed(i)
    /\ MutexHeld
    /\ DrainedBeforeQuit
    /\ MainLoopThere
-----------------------------------------------------------------------------
(* The steps.                                                              *)

\* Before main() nothing exists.
LEMMA InitMainInv == Init => MainInv
  <1> SUFFICES ASSUME Init
               PROVE  MainInv
    OBVIOUS
  <1> USE NAssumption DEF Init, Subs, Free
  <1>1. mainAlive \in BOOLEAN /\ g_main_loop \in BOOLEAN /\ quit_ \in BOOLEAN
    OBVIOUS
  <1>2. queue \in [Subs -> Seq({"conn", "quit"})] /\ subQuit \in [Subs -> BOOLEAN]
    BY EmptySeq
  <1>3. TypesOK
    BY <1>1, <1>2 DEF TypesOK, Starting
  <1>4. ASSUME NEW i \in Subs
        PROVE  Placed(i)
    <2>1. NotAsked(i)
      BY DEF NotAsked
    <2> QED
      BY <2>1 DEF Placed, Starting, Absent
  <1>5. MutexHeld /\ DrainedBeforeQuit /\ MainLoopThere
    BY DEF MutexHeld, DrainedBeforeQuit, MainLoopThere, Starting
  <1> QED
    BY <1>3, <1>4, <1>5 DEF MainInv

\* A step that changes no queue and no quit flag asks no sub loop to quit.
LEMMA StillNotAsked ==
  ASSUME UNCHANGED <<queue, subQuit>>
  PROVE  \A i \in Subs : NotAsked(i)' <=> NotAsked(i)
  BY DEF NotAsked

\* The main thread starts the threads, one at a time.
LEMMA StartingKeeps ==
  ASSUME MainInv,
         \/ Boot \/ CreateThread \/ MainLocks \/ CheckReady \/ SpuriousWakeup
         \/ DropData \/ EnterLoop
  PROVE  MainInv'
  <1> USE NAssumption DEF Subs, Free, Starting, poolVars
  <1>0. /\ TypesOK /\ MutexHeld /\ DrainedBeforeQuit /\ MainLoopThere
        /\ \A i \in Subs : Placed(i)
    BY DEF MainInv
  <1>1. UNCHANGED <<connected, queue, subQuit, next_, accepted>>
    BY DEF Boot, CreateThread, MainLocks, CheckReady, SpuriousWakeup, DropData, EnterLoop
  <1>2. \A i \in Subs : NotAsked(i)' <=> NotAsked(i)
    BY <1>1, StillNotAsked
  <1>3. mainAlive' \in BOOLEAN /\ g_main_loop' \in BOOLEAN /\ quit_' \in BOOLEAN
    BY <1>0 DEF TypesOK, Boot, CreateThread, MainLocks, CheckReady, SpuriousWakeup, DropData, EnterLoop
  <1>4. CASE Boot
    <2>1. TypesOK'
      BY <1>0, <1>1, <1>3, <1>4 DEF TypesOK, Boot, AfterRepository
    <2>2. ASSUME NEW i \in Subs
          PROVE  Placed(i)'
      BY <1>0, <1>2, <1>4 DEF TypesOK, MutexHeld, Placed, Absent, HandingOver, Serving, Boot,
                                              AfterRepository
    <2>3. MutexHeld'
      BY <1>0, <1>4 DEF TypesOK, MutexHeld, Placed, Absent, HandingOver, Serving, Boot,
                                              AfterRepository
    <2>4. DrainedBeforeQuit' /\ MainLoopThere'
      BY <1>0, <1>1, <1>4 DEF TypesOK, DrainedBeforeQuit, MainLoopThere, Boot,
                                   AfterRepository
    <2> QED
      BY <2>1, <2>2, <2>3, <2>4 DEF MainInv
  <1>5. CASE CreateThread
    <2>1. TypesOK'
      BY <1>0, <1>1, <1>3, <1>5 DEF TypesOK, CreateThread
    <2>2. ASSUME NEW i \in Subs
          PROVE  Placed(i)'
      BY <1>0, <1>2, <1>5 DEF TypesOK, MutexHeld, Placed, Absent, HandingOver, Serving, CreateThread
    <2>3. MutexHeld'
      BY <1>0, <1>5 DEF TypesOK, MutexHeld, Placed, Absent, HandingOver, Serving, CreateThread
    <2>4. DrainedBeforeQuit' /\ MainLoopThere'
      BY <1>0, <1>1, <1>5 DEF TypesOK, DrainedBeforeQuit, MainLoopThere, CreateThread
    <2> QED
      BY <2>1, <2>2, <2>3, <2>4 DEF MainInv
  <1>6. CASE MainLocks
    <2>1. TypesOK'
      BY <1>0, <1>1, <1>3, <1>6 DEF TypesOK, MainLocks
    <2>2. ASSUME NEW i \in Subs
          PROVE  Placed(i)'
      BY <1>0, <1>2, <1>6 DEF TypesOK, MutexHeld, Placed, Absent, HandingOver, Serving, MainLocks
    <2>3. MutexHeld'
      BY <1>0, <1>6 DEF TypesOK, MutexHeld, Placed, Absent, HandingOver, Serving, MainLocks
    <2>4. DrainedBeforeQuit' /\ MainLoopThere'
      BY <1>0, <1>1, <1>6 DEF TypesOK, DrainedBeforeQuit, MainLoopThere, MainLocks
    <2> QED
      BY <2>1, <2>2, <2>3, <2>4 DEF MainInv
  <1>7. CASE CheckReady
    <2>1. TypesOK'
      <3>1. CASE data[cur] = "ready"
        <4>1. loops_' \in SUBSET Subs /\ cur \in Subs
          BY <1>0, <1>7, <3>1 DEF TypesOK, CheckReady
        <4>2. main' = "take" /\ UNCHANGED <<cur, data, mutex, sub>>
          BY <1>7, <3>1 DEF CheckReady
        <4> QED
          BY <1>0, <1>1, <1>3, <4>1, <4>2 DEF TypesOK
      <3>2. CASE data[cur] # "ready"
        <4>1. /\ main' = "asleep" /\ mutex' = N + 1 /\ cur \in Subs
              /\ UNCHANGED <<cur, data, loops_, sub>>
          BY <1>0, <1>7, <3>2 DEF TypesOK, CheckReady
        <4>2. N + 1 \in 0 .. (N + 1)
          OBVIOUS
        <4> QED
          BY <1>0, <1>1, <1>3, <4>1, <4>2 DEF TypesOK
      <3> QED
        BY <3>1, <3>2
    <2>2. ASSUME NEW i \in Subs
          PROVE  Placed(i)'
      BY <1>0, <1>2, <1>7 DEF TypesOK, MutexHeld, Placed, Absent, HandingOver, Serving, CheckReady
    <2>3. MutexHeld'
      BY <1>0, <1>7 DEF TypesOK, MutexHeld, Placed, Absent, HandingOver, Serving, CheckReady
    <2>4. DrainedBeforeQuit' /\ MainLoopThere'
      BY <1>0, <1>1, <1>7 DEF TypesOK, DrainedBeforeQuit, MainLoopThere, CheckReady
    <2> QED
      BY <2>1, <2>2, <2>3, <2>4 DEF MainInv
  <1>8. CASE SpuriousWakeup
    <2>1. TypesOK'
      BY <1>0, <1>1, <1>3, <1>8 DEF TypesOK, SpuriousWakeup
    <2>2. ASSUME NEW i \in Subs
          PROVE  Placed(i)'
      BY <1>0, <1>2, <1>8 DEF TypesOK, MutexHeld, Placed, Absent, HandingOver, Serving, SpuriousWakeup
    <2>3. MutexHeld'
      BY <1>0, <1>8 DEF TypesOK, MutexHeld, Placed, Absent, HandingOver, Serving, SpuriousWakeup
    <2>4. DrainedBeforeQuit' /\ MainLoopThere'
      BY <1>0, <1>1, <1>8 DEF TypesOK, DrainedBeforeQuit, MainLoopThere, SpuriousWakeup
    <2> QED
      BY <2>1, <2>2, <2>3, <2>4 DEF MainInv
  <1>9. CASE DropData
    <2>1. TypesOK'
      BY <1>0, <1>1, <1>3, <1>9 DEF TypesOK, DropData
    <2>2. ASSUME NEW i \in Subs
          PROVE  Placed(i)'
      BY <1>0, <1>2, <1>9 DEF TypesOK, MutexHeld, Placed, Absent, HandingOver, Serving, DropData
    <2>3. MutexHeld'
      BY <1>0, <1>9 DEF TypesOK, MutexHeld, Placed, Absent, HandingOver, Serving, DropData
    <2>4. DrainedBeforeQuit' /\ MainLoopThere'
      BY <1>0, <1>1, <1>9 DEF TypesOK, DrainedBeforeQuit, MainLoopThere, DropData
    <2> QED
      BY <2>1, <2>2, <2>3, <2>4 DEF MainInv
  <1>10. CASE EnterLoop
    <2>1. TypesOK'
      BY <1>0, <1>1, <1>3, <1>10 DEF TypesOK, EnterLoop
    <2>2. ASSUME NEW i \in Subs
          PROVE  Placed(i)'
      BY <1>0, <1>2, <1>10 DEF TypesOK, MutexHeld, Placed, Absent, HandingOver, Serving, EnterLoop
    <2>3. MutexHeld'
      BY <1>0, <1>10 DEF TypesOK, MutexHeld, Placed, Absent, HandingOver, Serving, EnterLoop
    <2>4. DrainedBeforeQuit' /\ MainLoopThere'
      BY <1>0, <1>1, <1>10 DEF TypesOK, DrainedBeforeQuit, MainLoopThere, EnterLoop
    <2> QED
      BY <2>1, <2>2, <2>3, <2>4 DEF MainInv
  <1> QED
    BY <1>4, <1>5, <1>6, <1>7, <1>8, <1>9, <1>10

\* The main loop runs, takes connections and signals.
LEMMA LoopingKeeps ==
  ASSUME MainInv, NewConnection \/ GracefulShutdownHandler \/ LeaveLoop
  PROVE  MainInv'
  <1> USE NAssumption DEF Subs, Free, Starting, poolVars
  <1>0. /\ TypesOK /\ MutexHeld /\ DrainedBeforeQuit /\ MainLoopThere
        /\ \A i \in Subs : Placed(i)
    BY DEF MainInv
  <1>1. mainAlive' \in BOOLEAN /\ g_main_loop' \in BOOLEAN /\ quit_' \in BOOLEAN
    BY <1>0 DEF TypesOK, NewConnection, GracefulShutdownHandler, LeaveLoop
  <1>2. CASE GracefulShutdownHandler \/ LeaveLoop
    <2>1. UNCHANGED <<connected, queue, subQuit, next_, accepted, mainAlive, data, mutex, loops_,
                    sub>>
      BY <1>2 DEF GracefulShutdownHandler, LeaveLoop
    <2>2. \A i \in Subs : NotAsked(i)' <=> NotAsked(i)
      BY <2>1, StillNotAsked
    <2>3. TypesOK'
      BY <1>0, <1>1, <1>2, <2>1 DEF TypesOK, GracefulShutdownHandler, LeaveLoop
    <2>4. ASSUME NEW i \in Subs
          PROVE  Placed(i)'
      BY <1>0, <1>2, <2>1, <2>2 DEF Placed, Absent, HandingOver, Serving, Released,
                                    GracefulShutdownHandler, LeaveLoop
    <2>5. MutexHeld' /\ DrainedBeforeQuit' /\ MainLoopThere'
      BY <1>0, <1>2, <2>1 DEF MutexHeld, DrainedBeforeQuit, MainLoopThere,
                              GracefulShutdownHandler, LeaveLoop
    <2> QED
      BY <2>3, <2>4, <2>5 DEF MainInv
  <1>3. CASE NewConnection
    <2>1. /\ main = "loop" /\ next_ \in Subs
          /\ queue' = [queue EXCEPT ![next_] = Append(queue[next_], "conn")]
          /\ UNCHANGED <<main, cur, mainAlive, data, mutex, loops_, sub, connected, subQuit>>
      BY <1>0, <1>3 DEF NewConnection, TypesOK
    <2>2. /\ Append(queue[next_], "conn") \in Seq({"conn", "quit"})
          /\ \A k \in DOMAIN Append(queue[next_], "conn") :
                \/ k \in DOMAIN queue[next_] /\ Append(queue[next_], "conn")[k] = queue[next_][k]
                \/ Append(queue[next_], "conn")[k] = "conn"
      <3>1. queue[next_] \in Seq({"conn", "quit"})
        BY <1>0, <2>1 DEF TypesOK
      <3> QED
        BY <3>1, AppendProperties
    <2>3. \A i \in Subs : NotAsked(i)'
      <3>1. \A i \in Subs : NotAsked(i)
        BY <1>0, <2>1 DEF Placed, Serving
      <3> QED
        BY <1>0, <2>1, <2>2, <3>1 DEF NotAsked, TypesOK
    <2>4. TypesOK'
      <3>1. next_' \in Subs /\ accepted' \in Nat
        BY <1>0, <1>3, <2>1 DEF NewConnection, TypesOK
      <3>2. queue' \in [Subs -> Seq({"conn", "quit"})]
        BY <1>0, <2>1, <2>2 DEF TypesOK
      <3> QED
        BY <1>0, <1>1, <2>1, <3>1, <3>2 DEF TypesOK
    <2>5. ASSUME NEW i \in Subs
          PROVE  Placed(i)'
      BY <1>0, <2>1, <2>3 DEF Placed, Serving
    <2>6. DrainedBeforeQuit'
      BY <1>0, <2>1 DEF DrainedBeforeQuit, Placed, Serving, NotAsked, TypesOK
    <2>7. MutexHeld' /\ MainLoopThere'
      BY <1>0, <2>1 DEF MutexHeld, MainLoopThere
    <2> QED
      BY <2>4, <2>5, <2>6, <2>7 DEF MainInv
  <1> QED
    BY <1>2, <1>3

\* The main thread stops the sub loops and joins their threads.
LEMMA StoppingKeeps ==
  ASSUME MainInv, QueueQuit \/ Wakeup \/ Join \/ DestroyLoop \/ Shutdown
  PROVE  MainInv'
  <1> USE NAssumption DEF Subs, Free, Starting, poolVars
  <1>0. /\ TypesOK /\ MutexHeld /\ DrainedBeforeQuit /\ MainLoopThere
        /\ \A i \in Subs : Placed(i)
    BY DEF MainInv
  <1>1. mainAlive' \in BOOLEAN /\ g_main_loop' \in BOOLEAN /\ quit_' \in BOOLEAN
    BY <1>0 DEF TypesOK, QueueQuit, Wakeup, Join, DestroyLoop, Shutdown
  <1>2. CASE Wakeup \/ Join \/ DestroyLoop \/ Shutdown
    <2>1. UNCHANGED <<connected, queue, subQuit, next_, accepted, data, mutex, loops_, sub>>
      BY <1>2 DEF Wakeup, Join, DestroyLoop, Shutdown
    <2>2. \A i \in Subs : NotAsked(i)' <=> NotAsked(i)
      BY <2>1, StillNotAsked
    <2>3. TypesOK'
      BY SMTT(30), <1>0, <1>1, <1>2, <2>1 DEF TypesOK, Wakeup, Join, DestroyLoop, Shutdown,
                                                    AfterRepository
    <2>4. ASSUME NEW i \in Subs
          PROVE  Placed(i)'
      BY <1>0, <1>2, <2>1, <2>2 DEF TypesOK, Placed, Serving, Released, Joined,
                                    Wakeup, Join, DestroyLoop, Shutdown, AfterRepository
    <2>5. MutexHeld' /\ DrainedBeforeQuit' /\ MainLoopThere'
      BY <1>0, <1>2, <2>1 DEF MutexHeld, DrainedBeforeQuit, MainLoopThere,
                              Wakeup, Join, DestroyLoop, Shutdown, AfterRepository
    <2> QED
      BY <2>3, <2>4, <2>5 DEF MainInv
  <1>3. CASE QueueQuit
    <2>1. /\ main = "push" /\ main' = "wakeup" /\ cur \in Subs
          /\ queue' = [queue EXCEPT ![cur] = Append(queue[cur], "quit")]
          /\ UNCHANGED <<cur, mainAlive, data, mutex, loops_, next_, accepted, sub, connected,
                      subQuit>>
      BY <1>0, <1>3 DEF QueueQuit, StopSub, TypesOK
    <2>2. \A i \in Subs : i # cur => (NotAsked(i)' <=> NotAsked(i))
      BY <1>0, <2>1 DEF NotAsked, TypesOK
    <2>3. TypesOK'
      <3>1. Append(queue[cur], "quit") \in Seq({"conn", "quit"})
        BY <1>0, <2>1, AppendProperties DEF TypesOK
      <3>2. queue' \in [Subs -> Seq({"conn", "quit"})]
        BY <1>0, <2>1, <3>1 DEF TypesOK
      <3> QED
        BY <1>0, <1>1, <2>1, <3>2 DEF TypesOK
    <2>4. ASSUME NEW i \in Subs
          PROVE  Placed(i)'
      BY <1>0, <2>1, <2>2 DEF TypesOK, Placed, Serving, Released
    <2>5. DrainedBeforeQuit'
      <3>1. ~subQuit[cur] /\ sub[cur] # "done"
        BY <1>0, <2>1 DEF Placed, Serving, NotAsked
      <3> QED
        BY <1>0, <2>1, <3>1 DEF DrainedBeforeQuit, TypesOK
    <2>6. MutexHeld' /\ MainLoopThere'
      BY <1>0, <2>1 DEF MutexHeld, MainLoopThere
    <2> QED
      BY <2>3, <2>4, <2>5, <2>6 DEF MainInv
  <1> QED
    BY <1>2, <1>3

\* A sub loop's thread hands its loop over, serves and ends.
LEMMA SubKeeps ==
  ASSUME MainInv, NEW s \in Subs, Sub(s) \/ SubStuck(s)
  PROVE  MainInv'
  <1> USE NAssumption DEF Subs, Free, Starting
  <1>0. /\ TypesOK /\ MutexHeld /\ DrainedBeforeQuit /\ MainLoopThere
        /\ \A i \in Subs : Placed(i)
    BY DEF MainInv
  <1>1. /\ UNCHANGED <<cur, mainAlive, g_main_loop, quit_, loops_, next_, accepted>>
        /\ main' = main \/ (main = "asleep" /\ main' = "lock")
    BY DEF Sub, SubLocks, SubPublishes, SubUnlocks, SubEntersLoop, SubPass, SubStuck, SubEnds,
           SubMoves
  <1>2. MainLoopThere'
    BY <1>0, <1>1 DEF MainLoopThere
  <1>3. CASE SubLocks(s) \/ SubPublishes(s) \/ SubUnlocks(s)
    <2>1. UNCHANGED <<connected, queue, subQuit>>
      BY <1>3 DEF SubLocks, SubPublishes, SubUnlocks, SubMoves
    <2>2. \A i \in Subs : NotAsked(i)' <=> NotAsked(i)
      BY <2>1, StillNotAsked
    <2>3. TypesOK'
      <3>1. /\ sub' \in [Subs -> {"none", "created", "locked", "published", "entering",
                                  "looping", "stuck", "done"}]
            /\ data' \in [Subs -> {"none", "live", "ready", "gone"}]
            /\ mutex' \in 0 .. (N + 1)
        <4>1. CASE SubLocks(s)
          BY <1>0, <4>1 DEF TypesOK, SubLocks, SubMoves
        <4>2. CASE SubPublishes(s)
          BY <1>0, <4>2 DEF TypesOK, SubPublishes, SubMoves
        <4>3. CASE SubUnlocks(s)
          BY <1>0, <4>3 DEF TypesOK, SubUnlocks, SubMoves
        <4> QED
          BY <1>3, <4>1, <4>2, <4>3
      <3> QED
        BY <1>0, <1>1, <2>1, <3>1 DEF TypesOK
    <2>4. ASSUME NEW i \in Subs
          PROVE  Placed(i)'
      BY ZenonT(30), <1>0, <1>1, <1>3, <2>2 DEF TypesOK, Placed, Absent, HandingOver, Serving, Released,
                                    SubLocks, SubPublishes, SubUnlocks, SubMoves
    <2>5. MutexHeld'
      <3>1. CASE SubLocks(s)
        BY <1>0, <1>1, <3>1 DEF TypesOK, MutexHeld, SubLocks, SubMoves
      <3>2. CASE SubPublishes(s)
        BY <1>0, <1>1, <3>2 DEF TypesOK, MutexHeld, SubPublishes, SubMoves
      <3>3. CASE SubUnlocks(s)
        BY <1>0, <1>1, <3>3 DEF TypesOK, MutexHeld, SubUnlocks, SubMoves
      <3> QED
        BY <1>3, <3>1, <3>2, <3>3
    <2>6. DrainedBeforeQuit'
      BY <1>0, <1>3, <2>1 DEF TypesOK, DrainedBeforeQuit, SubLocks, SubPublishes, SubUnlocks,
                              SubMoves
    <2> QED
      BY <1>2, <2>3, <2>4, <2>5, <2>6 DEF MainInv
  <1>4. CASE SubEntersLoop(s)
    <2>1. /\ sub[s] = "entering" /\ sub' = [sub EXCEPT ![s] = "looping"]
          /\ subQuit' = [subQuit EXCEPT ![s] = FALSE]
          /\ UNCHANGED <<main, data, mutex, connected, queue>>
      BY <1>4 DEF SubEntersLoop, SubMoves
    <2>2. \A i \in Subs : NotAsked(i) => NotAsked(i)'
      BY <1>0, <2>1 DEF TypesOK, NotAsked
    <2>3. TypesOK'
      BY <1>0, <1>1, <2>1 DEF TypesOK
    <2>4. ASSUME NEW i \in Subs
          PROVE  Placed(i)'
      BY <1>0, <1>1, <2>1, <2>2 DEF TypesOK, Placed, Absent, HandingOver, Serving, Released
    <2>5. MutexHeld' /\ DrainedBeforeQuit'
      BY <1>0, <1>1, <2>1 DEF TypesOK, MutexHeld, DrainedBeforeQuit
    <2> QED
      BY <1>2, <2>3, <2>4, <2>5 DEF MainInv
  <1>5. CASE SubPass(s)
    <2>1. /\ sub[s] = "looping" /\ queue' = [queue EXCEPT ![s] = <<>>]
          /\ subQuit' = [subQuit EXCEPT ![s] = \E k \in DOMAIN queue[s] : queue[s][k] = "quit"]
          /\ UNCHANGED <<main, data, mutex, sub>>
          /\ connected' \in {connected, connected \cup {s}}
      BY <1>5 DEF SubPass
    <2>2. \A i \in Subs : NotAsked(i) => NotAsked(i)'
      BY <1>0, <2>1 DEF TypesOK, NotAsked
    <2>3. TypesOK'
      <3>1. <<>> \in Seq({"conn", "quit"})
        BY EmptySeq
      <3>2. queue' \in [Subs -> Seq({"conn", "quit"})]
        BY <1>0, <2>1, <3>1 DEF TypesOK
      <3>3. subQuit' \in [Subs -> BOOLEAN]
        BY <1>0, <2>1 DEF TypesOK
      <3>4. connected' \in SUBSET Subs
        BY <1>0, <2>1 DEF TypesOK
      <3> QED
        BY <1>0, <1>1, <2>1, <3>2, <3>3, <3>4 DEF TypesOK
    <2>4. ASSUME NEW i \in Subs
          PROVE  Placed(i)'
      BY <1>0, <1>1, <2>1, <2>2 DEF TypesOK, Placed, Absent, HandingOver, Serving, Released
    <2>5. MutexHeld' /\ DrainedBeforeQuit'
      BY <1>0, <1>1, <2>1 DEF TypesOK, MutexHeld, DrainedBeforeQuit
    <2> QED
      BY <1>2, <2>3, <2>4, <2>5 DEF MainInv
  <1>6. CASE SubEnds(s)
    <2>1. /\ sub[s] = "looping" /\ sub' = [sub EXCEPT ![s] = "done"] /\ subQuit[s]
          /\ UNCHANGED <<main, data, mutex, connected, queue, subQuit>>
      BY <1>6 DEF SubEnds, SubMoves
    <2>2. \A i \in Subs : NotAsked(i)' <=> NotAsked(i)
      BY <2>1, StillNotAsked
    <2>3. TypesOK'
      BY <1>0, <1>1, <2>1 DEF TypesOK
    <2>4. ~NotAsked(s)
      BY <2>1 DEF NotAsked
    <2>5. ASSUME NEW i \in Subs
          PROVE  Placed(i)'
      BY <1>0, <1>1, <2>1, <2>2, <2>4 DEF TypesOK, Placed, Absent, HandingOver, Serving, Released
    <2>6. MutexHeld' /\ DrainedBeforeQuit'
      BY <1>0, <1>1, <2>1 DEF TypesOK, MutexHeld, DrainedBeforeQuit
    <2> QED
      BY <1>2, <2>3, <2>5, <2>6 DEF MainInv
  <1>7. CASE SubStuck(s)
    <2>1. /\ sub[s] = "looping" /\ sub' = [sub EXCEPT ![s] = "stuck"]
          /\ UNCHANGED <<main, data, mutex, connected, queue, subQuit>>
      BY <1>7 DEF SubStuck, SubMoves
    <2>2. \A i \in Subs : NotAsked(i)' <=> NotAsked(i)
      BY <2>1, StillNotAsked
    <2>3. TypesOK'
      BY <1>0, <1>1, <2>1 DEF TypesOK
    <2>4. ASSUME NEW i \in Subs
          PROVE  Placed(i)'
      BY <1>0, <1>1, <2>1, <2>2 DEF TypesOK, Placed, Absent, HandingOver, Serving, Released
    <2>5. MutexHeld' /\ DrainedBeforeQuit'
      BY <1>0, <1>1, <2>1 DEF TypesOK, MutexHeld, DrainedBeforeQuit
    <2> QED
      BY <1>2, <2>3, <2>4, <2>5 DEF MainInv
  <1> QED
    BY <1>3, <1>4, <1>5, <1>6, <1>7 DEF Sub

-----------------------------------------------------------------------------
(* The theorems.                                                           *)

\* MainInv holds in every state of the program.
THEOREM MainInvariant == Spec => []MainInv
  <1>1. Init => MainInv
    BY InitMainInv
  <1>2. ASSUME MainInv, UNCHANGED vars
        PROVE  MainInv'
    BY <1>2 DEF vars, MainInv, TypesOK, Placed, Absent, HandingOver, Serving, Released,
                NotAsked, MutexHeld, DrainedBeforeQuit, MainLoopThere
  <1>3. MainInv /\ [Next]_vars => MainInv'
    BY <1>2, StartingKeeps, LoopingKeeps, StoppingKeeps, SubKeeps DEF Next, Main
  <1> QED
    BY <1>1, <1>3, PTL DEF Spec

\* A thread that has yet to publish its loop or to let the mutex go finds its
\* ThreadData, for any number of threads.
THEOREM DataIsThere == Spec => []DataOutlivesUse
  <1>1. ASSUME MainInv
        PROVE  DataOutlivesUse
    <2> SUFFICES ASSUME NEW i \in Subs, sub[i] \in {"created", "locked", "published"}
                 PROVE  data[i] \in {"live", "ready"}
      BY DEF DataOutlivesUse
    <2>1. TypesOK /\ Placed(i) /\ i \in Int /\ cur \in Int
      BY <1>1, NAssumption DEF MainInv, TypesOK, Subs
    <2>2. HandingOver(i)
      BY <2>1 DEF TypesOK, Starting, Placed, Absent, Serving, Released
    <2> QED
      BY <2>2 DEF HandingOver
  <1> QED
    BY <1>1, MainInvariant, PTL

\* For any number of sub loops: NewConnection finds the whole pool, Stop pushes
\* the quit on a running sub loop, a running sub loop finds the main loop, and a
\* sub loop that is gone has executed everything it was given.  (It says nothing
\* of Stop's wakeup after the push nor of a late signal.)
THEOREM LoopsStayInPlace == Spec => []LoopsInPlace
  <1>1. ASSUME MainInv
        PROVE  LoopsInPlace
    <2>1. main = "loop" => loops_ = Subs
      BY <1>1 DEF MainInv, TypesOK, Placed, Serving
    <2>2. main = "push" => sub[cur] \in {"published", "entering", "looping", "stuck"}
      BY <1>1, NAssumption DEF MainInv, TypesOK, Placed, Serving, Subs
    <2>3. \A i \in Subs : sub[i] \in {"looping", "stuck"} => mainAlive
      BY <1>1 DEF MainInv, TypesOK, MainLoopThere, Starting, Placed, Absent
    <2>4. \A i \in Subs : sub[i] = "done" => queue[i] = <<>>
      BY <1>1 DEF MainInv, DrainedBeforeQuit
    <2> QED
      BY <2>1, <2>2, <2>3, <2>4 DEF LoopsInPlace
  <1> QED
    BY <1>1, MainInvariant, PTL

-----------------------------------------------------------------------------
(*                            SysMetricsDaemon                             *)

\* The average after n hot samples in a row, and after n calm ones; from the
\* fourth on the breaker decides by them.
HotFloor == (hot >= 1 => metrics.low >= 671) /\ (hot >= 2 => metrics.low >= 873)
            /\ (hot >= 3 => metrics.low >= 933) /\ (hot >= 4 => metrics.low >= 951)

CalmCeiling == (calm >= 1 => metrics.high <= 859) /\ (calm >= 2 => metrics.high <= 816)
               /\ (calm >= 3 => metrics.high <= 803) /\ (calm >= 4 => metrics.high <= 799)

\* What the daemon has decided and not stored yet agrees with a long run of
\* samples, and so does the flag otherwise.
FlagFollows ==
    /\ hot >= 4 => daemon # "recover" /\ (cooldownMode \/ daemon = "trip")
    /\ calm >= 4 => daemon # "trip" /\ (~cooldownMode \/ daemon = "recover")

\* The inductive invariant.
DaemonInv ==
    /\ cooldownMode \in BOOLEAN /\ firstRun \in BOOLEAN
    /\ metrics \in [low : Int, high : Int, qps : Nat]
    /\ metrics.low >= -1 /\ metrics.high <= 1002 /\ metrics.low <= metrics.high
    /\ hot \in Nat /\ calm \in Nat
    /\ HotFloor /\ CalmCeiling /\ FlagFollows

\* One sample moves the average by seven tenths towards the usage.
LEMMA AverageMoves ==
  ASSUME metrics.low \in Int, metrics.high \in Int,
         metrics.low >= -1, metrics.high <= 1002, metrics.low <= metrics.high,
         NEW c \in 0..1000
  PROVE  /\ AverageLow(c) \in Int /\ AverageHigh(c) \in Int
         /\ 10 * AverageLow(c) >= 3 * metrics.low + 7 * c - 10
         /\ 10 * AverageHigh(c) <= 3 * metrics.high + 7 * c + 17
         /\ AverageLow(c) >= -1 /\ AverageHigh(c) <= 1002
         /\ AverageLow(c) <= AverageHigh(c)
  <1>1. \A x \in Int : /\ x \div 10 \in Int
                        /\ 10 * (x \div 10) <= x /\ x <= 10 * (x \div 10) + 9
    OBVIOUS
  <1>2. /\ 3 * metrics.low + 7 * c - 1 \in Int /\ 3 * metrics.high + 7 * (c + 1) \in Int
        /\ c >= 0 /\ c <= 1000
    OBVIOUS
  <1>3. PICK x \in Int : x = 3 * metrics.low + 7 * c - 1 /\ AverageLow(c) = x \div 10
    BY <1>2 DEF AverageLow
  <1>4. PICK y \in Int : y = 3 * metrics.high + 7 * (c + 1) /\ AverageHigh(c) = y \div 10 + 1
    BY <1>2 DEF AverageHigh
  <1>5. AverageLow(c) \in Int /\ 10 * AverageLow(c) <= x /\ x <= 10 * AverageLow(c) + 9
    BY <1>1, <1>3
  <1>6. /\ AverageHigh(c) \in Int
        /\ 10 * (AverageHigh(c) - 1) <= y /\ y <= 10 * (AverageHigh(c) - 1) + 9
    BY <1>1, <1>4
  <1> QED
    BY <1>2, <1>3, <1>4, <1>5, <1>6

\* A sample keeps the averages in their bounds and the breaker in step.
LEMMA SampleKeeps ==
  ASSUME DaemonInv, NEW linux \in BOOLEAN, NEW cpu \in CpuSamples, NEW qps \in QpsSamples,
         Sample(linux, cpu, qps)
  PROVE  DaemonInv'
  <1> DEFINE usage == CpuUsage(linux, cpu, qps)
             next  == Smoothed(linux, usage, qps)
  <1>1. usage \in 0..1000 /\ qps \in Nat
    BY DaemonAssumption DEF CpuUsage
  <1>2. /\ metrics.low \in Int /\ metrics.high \in Int
        /\ metrics.low >= -1 /\ metrics.high <= 1002 /\ metrics.low <= metrics.high
        /\ hot \in Nat /\ calm \in Nat /\ Settle \in Nat
        /\ HotFloor /\ CalmCeiling /\ cooldownMode \in BOOLEAN
    BY DaemonAssumption DEF DaemonInv
  <1>3. /\ metrics' = [low |-> metrics'.low, high |-> metrics'.high, qps |-> qps]
        /\ \/ metrics'.low = 20 /\ metrics'.high = 21 /\ usage = 20
           \/ metrics'.low = AverageLow(usage) /\ metrics'.high = AverageHigh(usage)
    BY DEF Sample, Smoothed, CpuUsage
  <1>4. /\ hot' = Count(hot, usage >= 960)
        /\ calm' = Count(calm, usage <= 796 /\ qps < 7000)
        /\ \E overloaded \in Overloaded(metrics'), recovered \in Recovered(metrics') :
              daemon' = Decision(overloaded, recovered)
        /\ cooldownMode' = cooldownMode /\ firstRun' \in BOOLEAN
    BY DEF Sample, DaemonInv, HotFrom, CalmUpTo, QPS_RECOVER_THRESHOLD
  <1> HIDE DEF usage, next
  <1>5. /\ metrics' \in [low : Int, high : Int, qps : Nat]
        /\ metrics'.low >= -1 /\ metrics'.high <= 1002 /\ metrics'.low <= metrics'.high
        /\ hot' \in Nat /\ calm' \in Nat
        /\ \/ metrics'.low = 20 /\ metrics'.high = 21 /\ usage = 20
           \/ /\ 10 * metrics'.low >= 3 * metrics.low + 7 * usage - 10
              /\ 10 * metrics'.high <= 3 * metrics.high + 7 * usage + 17
    <2>1. CASE metrics'.low = 20 /\ metrics'.high = 21 /\ usage = 20
      BY <1>1, <1>2, <1>3, <1>4, <2>1 DEF Count
    <2>2. CASE metrics'.low = AverageLow(usage) /\ metrics'.high = AverageHigh(usage)
      <3>1. /\ metrics'.low \in Int /\ metrics'.high \in Int
            /\ 10 * metrics'.low >= 3 * metrics.low + 7 * usage - 10
            /\ 10 * metrics'.high <= 3 * metrics.high + 7 * usage + 17
            /\ metrics'.low >= -1 /\ metrics'.high <= 1002
            /\ metrics'.low <= metrics'.high
        <4>1. /\ AverageLow(usage) \in Int /\ AverageHigh(usage) \in Int
              /\ 10 * AverageLow(usage) >= 3 * metrics.low + 7 * usage - 10
              /\ 10 * AverageHigh(usage) <= 3 * metrics.high + 7 * usage + 17
              /\ AverageLow(usage) >= -1 /\ AverageHigh(usage) <= 1002
              /\ AverageLow(usage) <= AverageHigh(usage)
          BY Zenon, <1>1, <1>2, AverageMoves
        <4> QED
          BY <2>2, <4>1
      <3>2. hot' \in Nat /\ calm' \in Nat
        BY <1>2, <1>4 DEF Count
      <3> QED
        BY <1>1, <1>3, <3>1, <3>2
    <2> QED
      BY <1>3, <2>1, <2>2
  <1>6. HotFloor'
    BY <1>1, <1>2, <1>4, <1>5 DEF HotFloor, Count
  <1>7. CalmCeiling' /\ (calm' >= 1 => metrics'.qps < 7000)
    BY <1>1, <1>2, <1>3, <1>4, <1>5 DEF CalmCeiling, Count
  <1>8. hot' >= 4 => FALSE \notin Overloaded(metrics')
    BY <1>5, <1>6 DEF HotFloor, Overloaded, CPU_TRIGGER_THRESHOLD
  <1>9. calm' >= 4 => FALSE \notin Recovered(metrics') /\ TRUE \notin Overloaded(metrics')
    BY <1>5, <1>7 DEF CalmCeiling, Recovered, Overloaded, CPU_TRIGGER_THRESHOLD,
       CPU_RECOVER_THRESHOLD, QPS_RECOVER_THRESHOLD, QPS_TRIGGER_THRESHOLD
  <1>10. FlagFollows'
    <2>1. PICK overloaded \in Overloaded(metrics'), recovered \in Recovered(metrics') :
             daemon' = Decision(overloaded, recovered)
      BY <1>4
    <2>2. overloaded \in BOOLEAN /\ recovered \in BOOLEAN
      BY <2>1 DEF Overloaded, Recovered
    <2>3. hot' >= 4 => overloaded
      BY <1>8, <2>1, <2>2
    <2>4. calm' >= 4 => recovered /\ ~overloaded
      BY <1>9, <2>1, <2>2
    <2> QED
      BY <1>2, <1>4, <2>1, <2>2, <2>3, <2>4 DEF FlagFollows, Decision
  <1> QED
    BY <1>2, <1>4, <1>5, <1>6, <1>7, <1>10 DEF DaemonInv

\* Whatever the samples are and whenever the agent commands, a fourth hot sample
\* in a row leaves every figure the code's average can be above the trigger, and
\* a fourth calm one leaves it below the threshold of recovery.
THEOREM DaemonInvariant == DaemonSpec => []DaemonInv
  <1>1. DaemonInit => DaemonInv
    <2> SUFFICES ASSUME DaemonInit PROVE DaemonInv
      OBVIOUS
    <2>1. hot = 0 /\ calm = 0 /\ metrics = [low |-> 20, high |-> 20, qps |-> 0]
      BY DEF DaemonInit
    <2>2. /\ metrics \in [low : Int, high : Int, qps : Nat]
          /\ metrics.low >= -1 /\ metrics.high <= 1002 /\ metrics.low <= metrics.high
      BY <2>1
    <2>3. cooldownMode \in BOOLEAN /\ firstRun \in BOOLEAN
      BY DEF DaemonInit
    <2> QED
      BY <2>1, <2>2, <2>3 DEF DaemonInv, HotFloor, CalmCeiling, FlagFollows
  <1>2. DaemonInv /\ [DaemonNext]_daemonVars => DaemonInv'
    <2> SUFFICES ASSUME DaemonInv, [DaemonNext]_daemonVars
                 PROVE  DaemonInv'
      OBVIOUS
    <2>1. ASSUME NEW linux \in BOOLEAN, NEW cpu \in CpuSamples, NEW qps \in QpsSamples,
                 Sample(linux, cpu, qps)
          PROVE  DaemonInv'
      BY <2>1, SampleKeeps
    <2>2. CASE Store
      <3>1. UNCHANGED <<metrics, firstRun, hot, calm>> /\ daemon' = "test"
        BY <2>2 DEF Store
      <3>2. \/ daemon = "trip" /\ cooldownMode' = TRUE
            \/ daemon = "recover" /\ cooldownMode' = FALSE
        BY <2>2 DEF Store
      <3>3. HotFloor' /\ CalmCeiling'
        BY <3>1 DEF DaemonInv, HotFloor, CalmCeiling
      <3>4. FlagFollows'
        BY <3>1, <3>2 DEF DaemonInv, FlagFollows
      <3>5. cooldownMode' \in BOOLEAN
        BY <3>2
      <3> QED
        BY <3>1, <3>3, <3>4, <3>5 DEF DaemonInv
    <2>3. CASE TestPredicate \/ WaitEnds \/ DaemonEnds
      <3>1. /\ UNCHANGED <<cooldownMode, metrics, firstRun, hot, calm>>
            /\ daemon \in {"test", "wait", "loop"} /\ daemon' \in {"test", "wait", "loop", "done"}
        BY <2>3 DEF TestPredicate, WaitEnds, DaemonEnds, Goes
      <3> QED
        BY <3>1 DEF DaemonInv, HotFloor, CalmCeiling, FlagFollows
    <2>4. CASE StopStores \/ StopNotifies \/ StopJoins \/ UNCHANGED daemonVars
      BY <2>4 DEF StopStores, StopNotifies, StopJoins, daemonVars, DaemonInv, HotFloor,
                  CalmCeiling, FlagFollows
    <2>5. ASSUME NEW on \in BOOLEAN, AgentCooldown(on)
          PROVE  DaemonInv'
      BY <2>5 DEF AgentCooldown, DaemonInv, HotFloor, CalmCeiling, FlagFollows
    <2> QED
      BY <2>1, <2>2, <2>3, <2>4, <2>5 DEF DaemonNext
  <1> QED
    BY <1>1, <1>2, PTL DEF DaemonSpec

\* The breaker follows the load, for any loads from 0 to 100 per cent, known to
\* a thousandth, and any Settle of four samples or more.
THEOREM BreakerAlwaysFollows == DaemonSpec => []BreakerFollowsLoad
  <1>1. DaemonInv => BreakerFollowsLoad
    BY DaemonAssumption DEF DaemonInv, FlagFollows, BreakerFollowsLoad
  <1> QED
    BY <1>1, DaemonInvariant, PTL

-----------------------------------------------------------------------------
(*                         Buffer and HttpContext                          *)
(* Natural numbers.                                                        *)

\* A set of naturals that is not empty has a least element.
LEMMA LeastNatural ==
  ASSUME NEW T \in SUBSET Nat, T # {}
  PROVE  \E x \in T : \A y \in T : x <= y
  <1>1. PICK x \in T : \A y \in T : <<y, x>> \notin OpToRel(<, Nat)
    BY NatLessThanWellFounded, WFMin
  <1>2. \A y \in T : ~(y < x)
    BY <1>1 DEF OpToRel
  <1> QED
    BY <1>2

\* Induction, for a set of naturals in place of a predicate.
LEMMA NatSetInduction ==
  ASSUME NEW S, 0 \in S, \A n \in Nat : n \in S => n + 1 \in S
  PROVE  Nat \subseteq S
  <1> SUFFICES ASSUME Nat \ S # {}
               PROVE  FALSE
    OBVIOUS
  <1>1. PICK x \in Nat \ S : \A y \in Nat \ S : x <= y
    BY LeastNatural
  <1>2. x - 1 \in Nat /\ x - 1 \in S
    BY <1>1
  <1> QED
    BY <1>1, <1>2

-----------------------------------------------------------------------------
(* Buffer: what each operation leaves readable.                            *)

\* What the messages are made of, and what a vector is filled with.
Bytes ==
    {Zero, CR, LF} \cup
    UNION {Range(m.body) \cup UNION {Range(m.lines[i]) : i \in DOMAIN m.lines} : m \in Messages}

\* What holds of every buffer: the indices are in order and within the vector.
ProperBuffer(b) ==
    /\ b \in [bytes : Seq(Bytes), read : Nat, write : Nat]
    /\ b.read <= b.write /\ b.write <= Len(b.bytes)

\* The readable bytes of a proper buffer, one by one.
LEMMA ReadableBytesOf ==
  ASSUME NEW b, ProperBuffer(b)
  PROVE  /\ ReadableBytes(b) \in Nat
         /\ Readable(b) \in Seq(Bytes)
         /\ Len(Readable(b)) = ReadableBytes(b)
         /\ \A i \in 1..ReadableBytes(b) : Readable(b)[i] = b.bytes[b.read + i]
  <1>1. /\ b.bytes \in Seq(Bytes) /\ b.read \in Nat /\ b.write \in Nat
        /\ b.read <= b.write /\ b.write <= Len(b.bytes) /\ Len(b.bytes) \in Nat
    BY DEF ProperBuffer
  <1>2. \A i \in (b.read + 1)..b.write : b.bytes[i] \in Bytes
    BY <1>1
  <1> DEFINE from == b.read + 1
  <1>3. from \in Int /\ b.write \in Int
    BY <1>1
  <1>4. \A i \in from..b.write : b.bytes[i] \in Bytes
    BY <1>2
  <1> HIDE DEF from
  <1>5. /\ SubSeq(b.bytes, from, b.write) \in Seq(Bytes)
        /\ Len(SubSeq(b.bytes, from, b.write)) = IF from <= b.write THEN b.write - from + 1 ELSE 0
        /\ \A i \in 1..(b.write - from + 1) :
              SubSeq(b.bytes, from, b.write)[i] = b.bytes[from + i - 1]
    BY <1>3, <1>4, SubSeqProperties
  <1>6. Readable(b) = SubSeq(b.bytes, from, b.write)
    BY DEF Readable, from
  <1>7. /\ ReadableBytes(b) \in Nat /\ ReadableBytes(b) = b.write - from + 1
        /\ from <= b.write => ReadableBytes(b) # 0
        /\ ~(from <= b.write) => ReadableBytes(b) = 0
        /\ \A i \in 1..ReadableBytes(b) : from + i - 1 = b.read + i
    BY <1>1 DEF ReadableBytes, from
  <1>8. Len(Readable(b)) = ReadableBytes(b)
    BY <1>5, <1>6, <1>7
  <1>9. \A i \in 1..ReadableBytes(b) : Readable(b)[i] = b.bytes[b.read + i]
    BY <1>5, <1>6, <1>7
  <1> QED
    BY <1>5, <1>6, <1>7, <1>8, <1>9

\* An array of bytes built by its index is a sequence.
LEMMA ArrayIsSeq ==
  ASSUME NEW n \in Nat, NEW f \in [1..n -> Bytes]
  PROVE  f \in Seq(Bytes) /\ Len(f) = n
  <1>1. f \in Seq(Bytes)
    BY SeqDef
  <1> QED
    BY <1>1

\* Retrieve takes bytes off the front.
LEMMA RetrieveTakes ==
  ASSUME NEW b, ProperBuffer(b), NEW len \in 0..ReadableBytes(b)
  PROVE  /\ ProperBuffer(Retrieve(b, len))
         /\ ReadableBytes(Retrieve(b, len)) = ReadableBytes(b) - len
         /\ \A i \in 1..(ReadableBytes(b) - len) :
               Readable(Retrieve(b, len))[i] = Readable(b)[len + i]
  <1>1. /\ b.bytes \in Seq(Bytes) /\ b.read \in Nat /\ b.write \in Nat
        /\ b.read <= b.write /\ b.write <= Len(b.bytes) /\ Len(b.bytes) \in Nat
        /\ ReadableBytes(b) = b.write - b.read /\ len \in Nat
        /\ b = [bytes |-> b.bytes, read |-> b.read, write |-> b.write]
    BY DEF ProperBuffer, ReadableBytes
  <1>2. CASE len < ReadableBytes(b)
    <2>1. Retrieve(b, len) = [bytes |-> b.bytes, read |-> b.read + len, write |-> b.write]
      BY <1>1, <1>2 DEF Retrieve
    <2>2. /\ ProperBuffer(Retrieve(b, len))
          /\ Retrieve(b, len).read = b.read + len
          /\ Retrieve(b, len).bytes = b.bytes /\ Retrieve(b, len).write = b.write
      BY <1>1, <1>2, <2>1 DEF ProperBuffer
    <2>3. ReadableBytes(Retrieve(b, len)) = ReadableBytes(b) - len
      BY <1>1, <2>2 DEF ReadableBytes
    <2>4. ASSUME NEW i \in 1..(ReadableBytes(b) - len)
          PROVE  Readable(Retrieve(b, len))[i] = Readable(b)[len + i]
      <3>1. Readable(Retrieve(b, len))[i] = b.bytes[b.read + len + i]
        BY <1>1, <2>2, <2>3, ReadableBytesOf
      <3>2. len + i \in 1..ReadableBytes(b) /\ b.read + (len + i) = b.read + len + i
        BY <1>1
      <3>3. Readable(b)[len + i] = b.bytes[b.read + (len + i)]
        BY <3>2, ReadableBytesOf
      <3> QED
        BY <3>1, <3>2, <3>3
    <2> QED
      BY <2>2, <2>3, <2>4
  <1>3. CASE len = ReadableBytes(b)
    <2>1. /\ Retrieve(b, len) \in [bytes : Seq(Bytes), read : Nat, write : Nat]
          /\ Retrieve(b, len).read = 0 /\ Retrieve(b, len).write = 0
          /\ Retrieve(b, len).bytes = b.bytes
      <3>1. b \in [bytes : Seq(Bytes), read : Nat, write : Nat]
        BY DEF ProperBuffer
      <3>2. Retrieve(b, len) = RetrieveAll(b)
        BY <1>1, <1>3 DEF Retrieve
      <3>3. RetrieveAll(b) \in [bytes : Seq(Bytes), read : Nat, write : Nat]
        BY <3>1 DEF RetrieveAll
      <3>4. RetrieveAll(b).read = 0 /\ RetrieveAll(b).write = 0
        BY <3>1 DEF RetrieveAll
      <3>5. RetrieveAll(b).bytes = b.bytes
        BY <3>1 DEF RetrieveAll
      <3> QED
        BY <3>2, <3>3, <3>4, <3>5
    <2>2. /\ ProperBuffer(Retrieve(b, len))
          /\ ReadableBytes(Retrieve(b, len)) = 0
      BY <1>1, <2>1 DEF ProperBuffer, ReadableBytes
    <2> QED
      BY <1>1, <1>3, <2>2
  <1> QED
    BY <1>1, <1>2, <1>3

\* MakeSpace makes room and leaves the readable bytes as they are.
LEMMA RoomIsMade ==
  ASSUME NEW b, ProperBuffer(b), NEW len \in Nat
  PROVE  LET roomy == EnsureWritableBytes(b, len)
         IN  /\ ProperBuffer(roomy)
             /\ WritableBytes(roomy) >= len
             /\ ReadableBytes(roomy) = ReadableBytes(b)
             /\ \A i \in 1..ReadableBytes(b) :
                   roomy.bytes[roomy.read + i] = b.bytes[b.read + i]
  <1> DEFINE roomy == EnsureWritableBytes(b, len)
  <1>1. /\ b.bytes \in Seq(Bytes) /\ b.read \in Nat /\ b.write \in Nat
        /\ b.read <= b.write /\ b.write <= Len(b.bytes) /\ Len(b.bytes) \in Nat
        /\ ReadableBytes(b) = b.write - b.read
        /\ b = [bytes |-> b.bytes, read |-> b.read, write |-> b.write]
    BY DEF ProperBuffer, ReadableBytes
  <1>2. CASE WritableBytes(b) >= len
    <2>1. roomy = b
      BY <1>1, <1>2 DEF EnsureWritableBytes, WritableBytes
    <2> QED
      BY <1>2, <2>1
  <1>3. CASE WritableBytes(b) < len /\ WritableBytes(b) + PrependableBytes(b) < len
    <2> DEFINE grown == Resize(b.bytes, b.write + len)
    <2>1. roomy = [bytes |-> grown, read |-> b.read, write |-> b.write]
      BY <1>1, <1>3 DEF EnsureWritableBytes, MakeSpace
    <2>2. grown \in [1..(b.write + len) -> Bytes]
      <3>1. \A i \in 1..(b.write + len) :
              (IF i <= Len(b.bytes) THEN b.bytes[i] ELSE Zero) \in Bytes
        <4>1. Zero \in Bytes
          BY DEF Bytes
        <4>2. \A i \in 1..Len(b.bytes) : b.bytes[i] \in Bytes
          BY <1>1
        <4> QED
          BY <1>1, <4>1, <4>2
      <3> QED
        BY <3>1 DEF Resize
    <2>3. grown \in Seq(Bytes) /\ Len(grown) = b.write + len
      BY <1>1, <2>2, ArrayIsSeq
    <2>4. \A i \in 1..ReadableBytes(b) : grown[b.read + i] = b.bytes[b.read + i]
      BY <1>1 DEF Resize
    <2> HIDE DEF grown
    <2> QED
      BY <1>1, <2>1, <2>3, <2>4 DEF ProperBuffer, WritableBytes, ReadableBytes
  <1>4. CASE WritableBytes(b) < len /\ ~(WritableBytes(b) + PrependableBytes(b) < len)
    <2> DEFINE moved == CopyTo(b.bytes, 0, Readable(b))
    <2>1. roomy = [bytes |-> moved, read |-> 0, write |-> ReadableBytes(b)]
      BY <1>4 DEF EnsureWritableBytes, MakeSpace
    <2>2. /\ Len(Readable(b)) = ReadableBytes(b)
          /\ \A i \in 1..ReadableBytes(b) :
                Readable(b)[i] = b.bytes[b.read + i] /\ Readable(b)[i] \in Bytes
      BY <1>1, ReadableBytesOf
    <2>3. moved \in [1..Len(b.bytes) -> Bytes]
      BY <1>1, <2>2 DEF CopyTo
    <2>4. moved \in Seq(Bytes) /\ Len(moved) = Len(b.bytes)
      BY <1>1, <2>3, ArrayIsSeq
    <2>5. \A i \in 1..ReadableBytes(b) : moved[0 + i] = b.bytes[b.read + i]
      BY <1>1, <2>2 DEF CopyTo
    <2>6. Len(b.bytes) - b.write + b.read >= len
      BY <1>1, <1>4 DEF WritableBytes, PrependableBytes
    <2> HIDE DEF moved
    <2> QED
      BY <1>1, <2>1, <2>4, <2>5, <2>6 DEF ProperBuffer, WritableBytes, ReadableBytes
  <1> QED
    BY <1>1, <1>2, <1>3, <1>4 DEF WritableBytes

\* Bytes written where there is room for them follow the readable ones.
LEMMA WrittenBytesFollow ==
  ASSUME NEW b, ProperBuffer(b), NEW s \in Seq(Bytes), Len(s) <= WritableBytes(b)
  PROVE  LET filled == [b EXCEPT !.bytes = CopyTo(@, b.write, s), !.write = @ + Len(s)]
         IN  /\ ProperBuffer(filled)
             /\ Readable(filled) = Readable(b) \o s
  <1> DEFINE copied == CopyTo(b.bytes, b.write, s)
             filled == [b EXCEPT !.bytes = CopyTo(@, b.write, s), !.write = @ + Len(s)]
  <1>1. /\ b.bytes \in Seq(Bytes) /\ b.read \in Nat /\ b.write \in Nat
        /\ b.read <= b.write /\ b.write <= Len(b.bytes) /\ Len(b.bytes) \in Nat
        /\ ReadableBytes(b) = b.write - b.read
        /\ Len(s) \in Nat /\ b.write + Len(s) <= Len(b.bytes)
        /\ b \in [bytes : Seq(Bytes), read : Nat, write : Nat]
    BY DEF ProperBuffer, ReadableBytes, WritableBytes
  <1>2. copied \in Seq(Bytes) /\ Len(copied) = Len(b.bytes)
    <2>1. \A i \in 1..Len(b.bytes) : copied[i] \in Bytes
      BY <1>1 DEF CopyTo
    <2>2. copied = [i \in 1..Len(b.bytes) |-> copied[i]]
      BY <1>1 DEF CopyTo
    <2> HIDE DEF copied
    <2>3. copied \in [1..Len(b.bytes) -> Bytes]
      BY <2>1, <2>2
    <2> QED
      BY <1>1, <2>3, ArrayIsSeq
  <1>3. /\ \A i \in 1..b.write : copied[i] = b.bytes[i]
        /\ \A i \in 1..Len(s) : copied[b.write + i] = s[i]
    <2>1. \A i \in 1..b.write : copied[i] = b.bytes[i]
      BY <1>1 DEF CopyTo
    <2>2. ASSUME NEW i \in 1..Len(s)  PROVE copied[b.write + i] = s[i]
      <3>1. /\ b.write + i \in 1..Len(b.bytes)
            /\ b.write + i \in (b.write + 1)..(b.write + Len(s))
            /\ (b.write + i) - b.write = i
        BY <1>1
      <3> QED
        BY <1>1, <3>1 DEF CopyTo
    <2> QED
      BY <2>1, <2>2
  <1>4. filled = [b EXCEPT !.bytes = copied, !.write = b.write + Len(s)]
    OBVIOUS
  <1> HIDE DEF copied
  <1>5. /\ filled \in [bytes : Seq(Bytes), read : Nat, write : Nat]
        /\ filled.write = b.write + Len(s)
        /\ filled.bytes = copied /\ filled.read = b.read
    <2>1. filled \in [bytes : Seq(Bytes), read : Nat, write : Nat]
      <3>1. b.write + Len(s) \in Nat /\ b \in [bytes : Seq(Bytes), read : Nat, write : Nat]
        BY <1>1
      <3> HIDE DEF filled
      <3> QED
        BY <1>2, <1>4, <3>1
    <2>2. filled.write = b.write + Len(s)
      BY <1>1, <1>2, <1>4
    <2>3. filled.bytes = copied
      BY <1>1, <1>2, <1>4
    <2>4. filled.read = b.read
      BY <1>1, <1>2, <1>4
    <2> QED
      BY <2>1, <2>2, <2>3, <2>4
  <1> HIDE DEF filled
  <1>6. ProperBuffer(filled)
    BY <1>1, <1>2, <1>5 DEF ProperBuffer
  <1>7. ReadableBytes(filled) = ReadableBytes(b) + Len(s)
    BY <1>1, <1>5 DEF ReadableBytes
  <1>8. /\ Readable(filled) \in Seq(Bytes) /\ Len(Readable(filled)) = ReadableBytes(b) + Len(s)
        /\ Readable(b) \in Seq(Bytes) /\ Len(Readable(b)) = ReadableBytes(b)
        /\ ReadableBytes(b) \in Nat
    BY <1>6, <1>7, ReadableBytesOf
  <1>9. ASSUME NEW i \in 1..(ReadableBytes(b) + Len(s))
        PROVE  Readable(filled)[i] = (Readable(b) \o s)[i]
    <2>1. Readable(filled)[i] = copied[b.read + i]
      BY <1>5, <1>6, <1>7, ReadableBytesOf
    <2>2. CASE i <= ReadableBytes(b)
      <3>1. Readable(b)[i] = b.bytes[b.read + i]
        BY <1>1, <1>8, <2>2, ReadableBytesOf
      <3>2. copied[b.read + i] = b.bytes[b.read + i]
        BY <1>1, <1>3, <2>2
      <3> QED
        BY <1>8, <2>1, <2>2, <3>1, <3>2, ConcatProperties
    <2>3. CASE ~(i <= ReadableBytes(b))
      <3>1. /\ i - ReadableBytes(b) \in 1..Len(s)
            /\ b.read + i = b.write + (i - ReadableBytes(b))
        BY <1>1, <2>3
      <3>2. copied[b.read + i] = s[i - ReadableBytes(b)]
        BY <1>3, <3>1
      <3> QED
        BY <1>8, <2>1, <2>3, <3>2, ConcatProperties
    <2> QED
      BY <2>2, <2>3
  <1>10. Readable(filled) = Readable(b) \o s
    <2>1. /\ Readable(b) \o s \in Seq(Bytes)
          /\ Len(Readable(b) \o s) = ReadableBytes(b) + Len(s)
      BY <1>8, ConcatProperties
    <2> QED
      BY <1>8, <1>9, <2>1, SeqEqual
  <1> QED
    BY <1>6, <1>10 DEF filled

\* Append grows the readable part by what is appended.
LEMMA AppendAdds ==
  ASSUME NEW b, ProperBuffer(b), NEW s \in Seq(Bytes)
  PROVE  /\ ProperBuffer(Append_(b, s))
         /\ Readable(Append_(b, s)) = Readable(b) \o s
  <1> DEFINE roomy == EnsureWritableBytes(b, Len(s))
  <1>1. /\ ProperBuffer(roomy) /\ Len(s) <= WritableBytes(roomy)
        /\ ReadableBytes(roomy) = ReadableBytes(b)
        /\ \A i \in 1..ReadableBytes(b) : roomy.bytes[roomy.read + i] = b.bytes[b.read + i]
    <2>1. Len(s) \in Nat
      OBVIOUS
    <2>2. WritableBytes(roomy) >= Len(s) /\ ProperBuffer(roomy)
          /\ ReadableBytes(roomy) = ReadableBytes(b)
          /\ \A i \in 1..ReadableBytes(b) : roomy.bytes[roomy.read + i] = b.bytes[b.read + i]
      BY <2>1, RoomIsMade
    <2> HIDE DEF roomy
    <2>3. WritableBytes(roomy) \in Int
      BY <2>2 DEF ProperBuffer, WritableBytes
    <2> QED
      BY <2>1, <2>2, <2>3
  <1>2. Append_(b, s) = [roomy EXCEPT !.bytes = CopyTo(@, roomy.write, s), !.write = @ + Len(s)]
    BY DEF Append_
  <1> HIDE DEF roomy
  <1>3. Readable(roomy) = Readable(b)
    <2>1. /\ Readable(b) \in Seq(Bytes) /\ Len(Readable(b)) = ReadableBytes(b)
          /\ \A i \in 1..ReadableBytes(b) : Readable(b)[i] = b.bytes[b.read + i]
      BY ReadableBytesOf
    <2>2. /\ Readable(roomy) \in Seq(Bytes) /\ Len(Readable(roomy)) = ReadableBytes(b)
          /\ \A i \in 1..ReadableBytes(b) : Readable(roomy)[i] = roomy.bytes[roomy.read + i]
      BY <1>1, ReadableBytesOf
    <2> QED
      BY <1>1, <2>1, <2>2, SeqEqual
  <1> QED
    BY <1>1, <1>2, <1>3, WrittenBytesFollow

\* ReadFd adds what was read, the part in the stack buffer included.
LEMMA ReadFdAdds ==
  ASSUME NEW b, ProperBuffer(b), NEW s \in Seq(Bytes)
  PROVE  /\ ProperBuffer(ReadFd(b, s))
         /\ Readable(ReadFd(b, s)) = Readable(b) \o s
  <1> DEFINE writable == WritableBytes(b)
             direct   == SubSeq(s, 1, IF Len(s) <= writable THEN Len(s) ELSE writable)
             filled   == [b EXCEPT !.bytes = CopyTo(@, b.write, direct),
                                   !.write = @ + Len(direct)]
  <1>1. writable \in Nat /\ Len(s) \in Nat
    BY DEF ProperBuffer, WritableBytes
  <1>2. direct \in Seq(Bytes) /\ Len(direct) <= writable
    <2> DEFINE n == IF Len(s) <= writable THEN Len(s) ELSE writable
    <2>1. n \in Int /\ n >= 0 /\ n <= writable /\ \A i \in 1..n : s[i] \in Bytes
      BY <1>1
    <2> HIDE DEF n
    <2>2. /\ SubSeq(s, 1, n) \in Seq(Bytes)
          /\ Len(SubSeq(s, 1, n)) = IF 1 <= n THEN n - 1 + 1 ELSE 0
      BY <2>1, SubSeqProperties
    <2> QED
      BY <1>1, <2>1, <2>2 DEF n
  <1>3. ProperBuffer(filled) /\ Readable(filled) = Readable(b) \o direct
    BY <1>2, WrittenBytesFollow
  <1>4. ReadFd(b, s) = IF Len(s) <= writable THEN filled
                       ELSE Append_(filled, SubSeq(s, writable + 1, Len(s)))
    BY DEF ReadFd
  <1> HIDE DEF filled
  <1>5. CASE Len(s) <= writable
    <2>1. direct = s
      BY <1>5, SubSeqFull
    <2> QED
      BY <1>3, <1>4, <1>5, <2>1
  <1>6. CASE ~(Len(s) <= writable)
    <2> DEFINE rest == SubSeq(s, writable + 1, Len(s))
    <2>1. rest \in Seq(Bytes)
      <3>1. writable + 1 \in Int /\ \A i \in (writable + 1)..Len(s) : s[i] \in Bytes
        BY <1>1
      <3> QED
        BY <1>1, <3>1, SubSeqProperties
    <2>2. direct \o rest = s
      <3>1. direct = SubSeq(s, 1, writable)
        BY <1>6
      <3>2. SubSeq(s, 1, writable) \o SubSeq(s, writable + 1, Len(s)) = SubSeq(s, 1, Len(s))
        <4>1. 1 \in 1..(Len(s) + 1) /\ writable \in (1 - 1)..Len(s) /\ Len(s) \in writable..Len(s)
          BY <1>1, <1>6
        <4> QED
          BY <4>1, ConcatAdjacentSubSeq
      <3> QED
        BY <3>1, <3>2, SubSeqFull
    <2> HIDE DEF rest, direct
    <2>3. ProperBuffer(Append_(filled, rest)) /\ Readable(Append_(filled, rest)) = Readable(filled) \o rest
      BY <1>3, <2>1, AppendAdds
    <2>4. (Readable(b) \o direct) \o rest = Readable(b) \o s
      <3>1. Readable(b) \in Seq(Bytes) /\ direct \in Seq(Bytes)
        BY <1>2, ReadableBytesOf
      <3>2. (Readable(b) \o direct) \o rest = Readable(b) \o (direct \o rest)
        <4> DEFINE old == Readable(b)
        <4>1. old \in Seq(Bytes) /\ direct \in Seq(Bytes) /\ rest \in Seq(Bytes)
          BY <2>1, <3>1
        <4> HIDE DEF old
        <4>2. (old \o direct) \o rest = old \o (direct \o rest)
          BY <4>1, ConcatAssociative, SMTT(20)
        <4> QED
          BY <4>2 DEF old
      <3> QED
        BY <2>2, <3>2
    <2> QED
      BY <1>3, <1>4, <1>6, <2>3, <2>4 DEF rest
  <1> QED
    BY <1>5, <1>6

-----------------------------------------------------------------------------
(* FlattenSeq.                                                             *)

\* f[k] is the concatenation of the first k of n members of ss.
Concatenates(f, ss, n) ==
    /\ f[0] = <<>>
    /\ \A k \in 1..n : f[k] = f[k - 1] \o ss[k]

\* T has the empty sequence and, with two sequences, their concatenation.
Closed(T) == <<>> \in T /\ \A x, y \in T : x \o y \in T

\* There is such a function.
LEMMA ConcatenationsExist ==
  ASSUME NEW T, Closed(T),
         NEW len \in Nat, NEW ss \in [1..len -> T]
  PROVE  \E f \in [0..len -> T] : Concatenates(f, ss, len)
  <1> DEFINE S == {n \in Nat : n <= len => \E f \in [0..n -> T] : Concatenates(f, ss, n)}
  <1>1. 0 \in S
    <2> DEFINE g == [k \in 0..0 |-> <<>>]
    <2>1. g[0] = <<>> /\ g \in [0..0 -> T]
      BY DEF Closed
    <2> HIDE DEF g
    <2>2. Concatenates(g, ss, 0)
      BY <2>1 DEF Concatenates
    <2> QED
      BY <2>1, <2>2
  <1>2. ASSUME NEW n \in Nat, n \in S
        PROVE  n + 1 \in S
    <2> SUFFICES ASSUME n + 1 <= len
                 PROVE  \E f \in [0..(n + 1) -> T] : Concatenates(f, ss, n + 1)
      OBVIOUS
    <2>1. PICK f \in [0..n -> T] : Concatenates(f, ss, n)
      BY <1>2
    <2> HIDE DEF S
    <2> DEFINE g == [k \in 0..(n + 1) |-> IF k = n + 1 THEN f[n] \o ss[n + 1] ELSE f[k]]
    <2>2. /\ g \in [0..(n + 1) -> T]
          /\ g[n + 1] = f[n] \o ss[n + 1]
          /\ \A k \in 0..n : g[k] = f[k]
      <3>1. f[n] \o ss[n + 1] \in T
        BY DEF Closed
      <3> QED
        BY <3>1
    <2> HIDE DEF g
    <2>3. Concatenates(g, ss, n + 1)
      <3>1. g[0] = <<>>
        BY <2>1, <2>2 DEF Concatenates
      <3>2. ASSUME NEW k \in 1..(n + 1)
            PROVE  g[k] = g[k - 1] \o ss[k]
        <4>0. (k = n + 1 \/ k \in 1..n) /\ n \in 0..n /\ (n + 1) - 1 = n
          OBVIOUS
        <4>1. CASE k = n + 1
          <5>1. g[k - 1] = f[n]
            BY <2>2, <4>0, <4>1
          <5> QED
            BY <2>2, <4>1, <5>1
        <4>2. CASE k \in 1..n
          <5>1. k \in 0..n /\ k - 1 \in 0..n
            BY <4>2
          <5>2. f[k] = f[k - 1] \o ss[k]
            BY <2>1, <4>2 DEF Concatenates
          <5> QED
            BY <2>2, <5>1, <5>2
        <4> QED
          BY <4>0, <4>1, <4>2
      <3> QED
        BY <3>1, <3>2 DEF Concatenates
    <2> QED
      BY <2>2, <2>3
  <1> HIDE DEF S
  <1>3. len \in S
    BY <1>1, <1>2, NatSetInduction
  <1> QED
    BY <1>3 DEF S

\* FlattenSeq is what such a function ends with.
LEMMA FlattenIsConcatenation ==
  ASSUME NEW B, NEW ss \in Seq(Seq(B)), NEW f, f[0] = <<>>, Concatenates(f, ss, Len(ss))
  PROVE  FlattenSeq(ss) = f[Len(ss)]
  <1> DEFINE len == Len(ss)
  <1>0. len \in Nat /\ \A i \in 1..len : ss[i] \in Seq(B)
    OBVIOUS
  <1>1. CASE len = 0
    <2>1. ss = <<>>
      BY <1>1
    <2> QED
      BY <1>1, <2>1 DEF FlattenSeq
  <1>2. CASE len # 0
    <2> DEFINE Eq(g) == g = [i \in 1..len |-> IF i = 1 THEN ss[i] ELSE g[i - 1] \o ss[i]]
               flatten == CHOOSE g : Eq(g)
               h == [i \in 1..len |-> f[i]]
    <2>1. FlattenSeq(ss) = flatten[len]
      BY <1>2 DEF FlattenSeq
    <2>2. \A i \in 1..len : f[i] = IF i = 1 THEN ss[i] ELSE f[i - 1] \o ss[i]
      <3> SUFFICES ASSUME NEW i \in 1..len
                   PROVE  f[i] = IF i = 1 THEN ss[i] ELSE f[i - 1] \o ss[i]
        OBVIOUS
      <3>1. f[i] = f[i - 1] \o ss[i] /\ ss[i] \in Seq(B)
        BY <1>0 DEF Concatenates
      <3>2. <<>> \o ss[i] = ss[i]
        BY <3>1, ConcatEmptySeq
      <3>3. CASE i = 1
        <4>1. f[i - 1] = <<>>
          BY <3>3
        <4> QED
          BY <3>1, <3>2, <3>3, <4>1
      <3>4. CASE i # 1
        BY <3>1, <3>4
      <3> QED
        BY <3>3, <3>4
    <2>3. \A i \in 1..len : h[i] = f[i]
      OBVIOUS
    <2>4. \A i \in 1..len : i # 1 => h[i - 1] = f[i - 1]
      BY <1>0
    <2>5. h = [i \in 1..len |-> IF i = 1 THEN ss[i] ELSE h[i - 1] \o ss[i]]
      BY <2>2, <2>3, <2>4
    <2>6. Eq(flatten)
      BY <2>5
    <2> HIDE DEF flatten, len
    <2>7. \A i \in 1..len : flatten[i] = IF i = 1 THEN ss[i] ELSE flatten[i - 1] \o ss[i]
      BY <2>6
    <2> DEFINE S == {n \in Nat : n + 1 <= len => flatten[n + 1] = f[n + 1]}
    <2>8. 0 \in S
      BY <1>0, <2>2, <2>7
    <2>9. ASSUME NEW n \in Nat, n \in S
          PROVE  n + 1 \in S
      <3> SUFFICES ASSUME n + 2 <= len
                   PROVE  flatten[n + 2] = f[n + 2]
        OBVIOUS
      <3>1. n + 2 \in 1..len /\ n + 2 # 1 /\ (n + 2) - 1 = n + 1
        BY <1>0
      <3>2. flatten[n + 2] = flatten[n + 1] \o ss[n + 2]
        BY <2>7, <3>1
      <3>3. f[n + 2] = f[n + 1] \o ss[n + 2]
        BY <2>2, <3>1
      <3>4. flatten[n + 1] = f[n + 1]
        BY <1>0, <2>9
      <3> QED
        BY <3>2, <3>3, <3>4
    <2> HIDE DEF S
    <2>10. len - 1 \in S
      <3>1. Nat \subseteq S
        BY <2>8, <2>9, NatSetInduction
      <3> QED
        BY <1>0, <1>2, <3>1
    <2> QED
      BY <1>0, <1>2, <2>1, <2>10 DEF S, len
  <1> QED
    BY <1>1, <1>2

\* The concatenations of the first members are the flattened beginnings of ss.
LEMMA FlattenPrefixes ==
  ASSUME NEW B, NEW ss \in Seq(Seq(B))
  PROVE  \E f \in [0..Len(ss) -> Seq(B)] :
            /\ Concatenates(f, ss, Len(ss))
            /\ \A k \in 0..Len(ss) : FlattenSeq([i \in 1..k |-> ss[i]]) = f[k]
  <1> DEFINE T == Seq(B)
  <1>1. Closed(T)
    BY ConcatProperties, EmptySeq DEF Closed
  <1>2. Len(ss) \in Nat /\ ss \in [1..Len(ss) -> T]
    OBVIOUS
  <1> HIDE DEF T
  <1>3. PICK f \in [0..Len(ss) -> T] : Concatenates(f, ss, Len(ss))
    BY <1>1, <1>2, ConcatenationsExist
  <1>4. ASSUME NEW k \in 0..Len(ss)
        PROVE  FlattenSeq([i \in 1..k |-> ss[i]]) = f[k]
    <2> DEFINE start == [i \in 1..k |-> ss[i]]
    <2>1. start \in Seq(T) /\ Len(start) = k
      <3>1. k \in Nat /\ start \in [1..k -> T]
        <4>1. k \in Nat /\ \A i \in 1..k : i \in 1..Len(ss)
          BY <1>2
        <4>2. \A i \in 1..k : ss[i] \in T
          BY <1>2, <4>1
        <4> QED
          BY <4>1, <4>2
      <3> HIDE DEF start
      <3>2. start \in Seq(T)
        BY <3>1, SeqDef
      <3>3. DOMAIN start = 1..k
        BY <3>1
      <3>4. Len(start) = k
        BY <3>1, <3>2, <3>3
      <3> QED
        BY <3>2, <3>4
    <2>2. \A i \in 1..k : start[i] = ss[i] /\ i \in 1..Len(ss)
      BY <1>2
    <2> HIDE DEF start
    <2>3. Concatenates(f, start, Len(start)) /\ f[0] = <<>>
      BY <1>3, <2>1, <2>2 DEF Concatenates
    <2> QED
      BY <2>1, <2>3, FlattenIsConcatenation DEF T, start
  <1> QED
    BY <1>3, <1>4 DEF T

\* y starts with x.
StartsWith(y, x) == Len(x) <= Len(y) /\ \A i \in 1..Len(x) : y[i] = x[i]

\* y ends with t, after n others.
EndsWith(y, n, t) == Len(y) = n + Len(t) /\ \A i \in 1..Len(t) : y[n + i] = t[i]

\* A concatenation starts with the first part and ends with the second.
LEMMA ConcatenationStep ==
  ASSUME NEW B, NEW s \in Seq(B), NEW t \in Seq(B)
  PROVE  StartsWith(s \o t, s) /\ EndsWith(s \o t, Len(s), t)
  <2>2. Len(s) \in Nat /\ Len(t) \in Nat
    OBVIOUS
  <2>3. /\ Len(s \o t) = Len(s) + Len(t)
        /\ \A i \in 1..(Len(s) + Len(t)) :
              (s \o t)[i] = IF i <= Len(s) THEN s[i] ELSE t[i - Len(s)]
    BY ConcatProperties
  <2>4. \A i \in 1..Len(s) : (s \o t)[i] = s[i]
    BY <2>2, <2>3
  <2>5. \A i \in 1..Len(t) : (s \o t)[Len(s) + i] = t[i]
    <3> TAKE i \in 1..Len(t)
    <3>1. Len(s) + i \in 1..(Len(s) + Len(t)) /\ ~(Len(s) + i <= Len(s)) /\ (Len(s) + i) - Len(s) = i
      BY <2>2
    <3> QED
      BY <2>3, <3>1
  <2> QED
    BY <2>2, <2>3, <2>4, <2>5 DEF StartsWith, EndsWith

\* All the later concatenations start with the earlier ones.
LEMMA LaterStartsWithEarlier ==
  ASSUME NEW T, \A x \in T : Len(x) \in Nat,
         NEW len \in Nat, NEW f \in [0..len -> T],
         \A k \in 1..len : StartsWith(f[k], f[k - 1])
  PROVE  \A n \in 0..len : \A k \in 0..n : StartsWith(f[n], f[k])
  <1> DEFINE S == {n \in Nat : n <= len => \A k \in 0..n : StartsWith(f[n], f[k])}
  <1>0. \A x \in T : StartsWith(x, x)
    BY DEF StartsWith
  <1>1. 0 \in S
    BY <1>0
  <1>2. ASSUME NEW n \in Nat, n \in S
        PROVE  n + 1 \in S
    <2> SUFFICES ASSUME n + 1 <= len, NEW k \in 0..(n + 1)
                 PROVE  StartsWith(f[n + 1], f[k])
      OBVIOUS
    <2>1. n + 1 \in 1..len /\ (n + 1) - 1 = n /\ n \in 0..len /\ k \in 0..len /\ n + 1 \in 0..len
      OBVIOUS
    <2>2. StartsWith(f[n + 1], f[n])
      BY <2>1
    <2>3. k \in 0..n => StartsWith(f[n], f[k])
      BY <1>2, <2>1
    <2> DEFINE x == f[k]
               y == f[n]
               z == f[n + 1]
    <2>4. x \in T /\ y \in T /\ z \in T
      BY <2>1
    <2>5. k = n + 1 => StartsWith(z, x)
      BY <1>0, <2>4
    <2> HIDE DEF S, x, y, z
    <2>6. Len(x) \in Nat /\ Len(y) \in Nat /\ Len(z) \in Nat
      BY <2>4
    <2>7. StartsWith(y, x) /\ StartsWith(z, y) => StartsWith(z, x)
      BY <2>6 DEF StartsWith
    <2>8. k = n + 1 \/ k \in 0..n
      OBVIOUS
    <2> QED
      BY <2>2, <2>3, <2>5, <2>7, <2>8 DEF x, y, z
  <1> HIDE DEF S
  <1>3. Nat \subseteq S
    BY <1>1, <1>2, NatSetInduction
  <1>4. \A n \in 0..len : n \in S
    BY <1>3
  <1> QED
    BY <1>4 DEF S

\* Where the k-th part of FlattenSeq(ss) ends.
Offset(ss, k) == Len(FlattenSeq([i \in 1..k |-> ss[i]]))

\* Where the members of ss lie in the flattened sequence.
LEMMA FlattenLayout ==
  ASSUME NEW B, NEW ss \in Seq(Seq(B))
  PROVE  /\ FlattenSeq(ss) \in Seq(B)
         /\ Offset(ss, 0) = 0
         /\ Offset(ss, Len(ss)) = Len(FlattenSeq(ss))
         /\ \A k \in 0..Len(ss) : Offset(ss, k) \in Nat
         /\ \A k \in 0..Len(ss) : \A j \in 0..k : Offset(ss, j) <= Offset(ss, k)
         /\ \A k \in 1..Len(ss) : Offset(ss, k) = Offset(ss, k - 1) + Len(ss[k])
         /\ \A k \in 1..Len(ss) : \A i \in 1..Len(ss[k]) :
               FlattenSeq(ss)[Offset(ss, k - 1) + i] = ss[k][i]
  <1> DEFINE len == Len(ss)
             T == Seq(B)
  <1>1. len \in Nat /\ \A k \in 1..len : ss[k] \in T /\ Len(ss[k]) \in Nat
    OBVIOUS
  <1>2. PICK f \in [0..len -> T] :
            /\ Concatenates(f, ss, len)
            /\ \A k \in 0..len : FlattenSeq([i \in 1..k |-> ss[i]]) = f[k]
    BY FlattenPrefixes
  <1>3. FlattenSeq(ss) = f[len] /\ f[0] = <<>>
    BY <1>2, FlattenIsConcatenation DEF Concatenates
  <1>4. \A k \in 0..len : Offset(ss, k) = Len(f[k])
    BY <1>2 DEF Offset
  <1>5. \A x \in T : Len(x) \in Nat
    OBVIOUS
  <1>6. \A x, y \in T : StartsWith(x \o y, x) /\ EndsWith(x \o y, Len(x), y)
    BY ConcatenationStep
  <1>7. \A k \in 1..len : f[k] = f[k - 1] \o ss[k] /\ k - 1 \in 0..len /\ k \in 0..len
    <2>1. \A k \in 1..len : f[k] = f[k - 1] \o ss[k]
      BY <1>2 DEF Concatenates
    <2>2. \A k \in 1..len : k - 1 \in 0..len /\ k \in 0..len
      BY <1>1
    <2> QED
      BY <2>1, <2>2
  <1> SUFFICES
        /\ f[len] \in T
        /\ Len(f[0]) = 0
        /\ \A k \in 0..len : Len(f[k]) \in Nat
        /\ \A k \in 0..len : \A j \in 0..k : Len(f[j]) <= Len(f[k])
        /\ \A k \in 1..len : Len(f[k]) = Len(f[k - 1]) + Len(ss[k])
        /\ \A k \in 1..len : \A i \in 1..Len(ss[k]) : f[len][Len(f[k - 1]) + i] = ss[k][i]
    <2>1. /\ FlattenSeq(ss) \in T
          /\ Offset(ss, 0) = 0
          /\ Offset(ss, len) = Len(FlattenSeq(ss))
      BY <1>1, <1>3, <1>4
    <2>2. \A k \in 0..len : Offset(ss, k) \in Nat
      BY <1>4
    <2>3. \A k \in 0..len : \A j \in 0..k : Offset(ss, j) <= Offset(ss, k)
      <3>1. \A k \in 0..len : \A j \in 0..k : j \in 0..len
        BY <1>1
      <3> QED
        BY <1>4, <3>1
    <2>4. \A k \in 1..len : Offset(ss, k) = Offset(ss, k - 1) + Len(ss[k])
      BY <1>4, <1>7
    <2>5. \A k \in 1..len : \A i \in 1..Len(ss[k]) :
             FlattenSeq(ss)[Offset(ss, k - 1) + i] = ss[k][i]
      BY <1>3, <1>4, <1>7
    <2> QED
      BY <2>1, <2>2, <2>3, <2>4, <2>5
  <1> HIDE DEF T, len
  <1>8. \A k \in 0..len : f[k] \in T /\ Len(f[k]) \in Nat
    BY <1>2, <1>5
  <1>9. \A k \in 1..len : StartsWith(f[k], f[k - 1]) /\ EndsWith(f[k], Len(f[k - 1]), ss[k])
    BY <1>1, <1>6, <1>7, <1>8
  <1>10. \A n \in 0..len : \A k \in 0..n : StartsWith(f[n], f[k])
    BY <1>1, <1>2, <1>5, <1>9, LaterStartsWithEarlier
  <1>11. ASSUME NEW k \in 1..len, NEW i \in 1..Len(ss[k])
         PROVE  f[len][Len(f[k - 1]) + i] = ss[k][i]
    <2>1. k \in 0..len /\ k - 1 \in 0..len /\ len \in 0..len
      BY <1>1
    <2>2. Len(f[k - 1]) \in Nat /\ Len(f[k]) \in Nat /\ Len(ss[k]) \in Nat
      BY <1>1, <1>8, <2>1
    <2>3. Len(f[k - 1]) + i \in 1..Len(f[k])
      <3> DEFINE a == Len(f[k - 1])
                 l == Len(ss[k])
                 z == Len(f[k])
      <3>1. z = a + l
        BY <1>9 DEF EndsWith
      <3>2. a \in Nat /\ l \in Nat /\ i \in 1..l
        BY <2>2
      <3> HIDE DEF a, l, z
      <3>3. a + i \in 1..z
        BY <3>1, <3>2
      <3> QED
        BY <3>3 DEF a, z
    <2>4. StartsWith(f[len], f[k])
      BY <1>10, <2>1
    <2>5. f[len][Len(f[k - 1]) + i] = f[k][Len(f[k - 1]) + i]
      BY <2>3, <2>4 DEF StartsWith
    <2> QED
      BY <1>9, <2>5 DEF EndsWith
  <1>12. \A k \in 0..len : \A j \in 0..k : Len(f[j]) <= Len(f[k])
    BY <1>10 DEF StartsWith
  <1>13. \A k \in 1..len : Len(f[k]) = Len(f[k - 1]) + Len(ss[k])
    BY <1>9 DEF EndsWith
  <1>14. f[len] \in T /\ Len(f[0]) = 0
    BY <1>1, <1>3, <1>8
  <1> QED
    BY <1>8, <1>11, <1>12, <1>13, <1>14

-----------------------------------------------------------------------------
(* A message: its lines and its body in its bytes.                         *)

\* The j-th line of a message, the empty one that ends its head included.
LineOf(m, j) == Append(m.lines, <<>>)[j]

\* The lines of m, the empty one included, each with its end.
Pieces(m) == [i \in 1..(Len(m.lines) + 1) |-> LineOf(m, i) \o <<CR, LF>>]

\* What MessagesAssumption says of a message, in terms of Bytes.
LEMMA MessageShape ==
  ASSUME NEW m \in Messages
  PROVE  /\ m.lines \in Seq(Seq(Bytes)) /\ m.lines # <<>> /\ m.body \in Seq(Bytes)
         /\ \A i \in 1..Len(m.lines) : IsText(m.lines[i])
         /\ \A i \in 2..Len(m.lines) : m.lines[i] # <<>>
         /\ m.bytes = FlattenSeq(Pieces(m)) \o m.body
  <1>1. /\ IsSeq(m.lines) /\ m.lines # <<>> /\ IsSeq(m.body)
        /\ \A i \in DOMAIN m.lines : IsText(m.lines[i])
        /\ \A i \in 2..Len(m.lines) : m.lines[i] # <<>>
        /\ m.bytes = Encoded(m.lines, m.body)
    BY MessagesAssumption DEF IsMessage
  <1>2. m.body \in Seq(Bytes)
    <2>1. m.body \in Seq(Range(m.body)) /\ Range(m.body) \subseteq Bytes
      BY <1>1 DEF IsSeq, Bytes
    <2> QED
      BY <2>1, SeqMonotonic
  <1>3. \A i \in DOMAIN m.lines : m.lines[i] \in Seq(Bytes)
    <2> TAKE i \in DOMAIN m.lines
    <2>1. m.lines[i] \in Seq(Range(m.lines[i])) /\ Range(m.lines[i]) \subseteq Bytes
      BY <1>1 DEF IsText, IsSeq, Bytes
    <2> QED
      BY <2>1, SeqMonotonic
  <1>4. m.lines \in Seq(Seq(Bytes))
    <2> DEFINE T == Seq(Bytes)
    <2>1. m.lines \in Seq(Range(m.lines)) /\ Range(m.lines) \subseteq T
      BY <1>1, <1>3 DEF IsSeq, Range
    <2> HIDE DEF T
    <2>2. m.lines \in Seq(T)
      BY <2>1, SeqMonotonic
    <2> QED
      BY <2>2 DEF T
  <1>5. \A i \in 1..Len(m.lines) : IsText(m.lines[i])
    <2> DEFINE T == Range(m.lines)
    <2>1. m.lines \in Seq(T)
      BY <1>1 DEF IsSeq
    <2> HIDE DEF T
    <2> QED
      BY <1>1, <2>1
  <1>6. m.bytes = FlattenSeq(Pieces(m)) \o m.body
    BY <1>1 DEF Encoded, Pieces, LineOf
  <1> QED
    BY <1>1, <1>2, <1>4, <1>5, <1>6

\* The two symbols that end a line are bytes, and different.
LEMMA LineEndBytes ==
  /\ CR \in Bytes /\ LF \in Bytes /\ Zero \in Bytes /\ CR # LF
  /\ <<CR, LF>> \in Seq(Bytes) /\ Len(<<CR, LF>>) = 2
  <1>1. CR \in Bytes /\ LF \in Bytes /\ Zero \in Bytes
    BY DEF Bytes
  <1>2. CR # LF
    BY DEF CR, LF
  <1> QED
    BY <1>1, <1>2

\* The pieces of a message's head: each is a line and its end.
LEMMA PiecesOfMessage ==
  ASSUME NEW m \in Messages
  PROVE  /\ Len(m.lines) \in Nat \ {0}
         /\ Pieces(m) \in Seq(Seq(Bytes)) /\ Len(Pieces(m)) = Len(m.lines) + 1
         /\ \A j \in 1..Len(m.lines) : LineOf(m, j) = m.lines[j]
         /\ LineOf(m, Len(m.lines) + 1) = <<>>
         /\ \A j \in 1..(Len(m.lines) + 1) :
               /\ LineOf(m, j) \in Seq(Bytes) /\ Len(LineOf(m, j)) \in Nat
               /\ Len(Pieces(m)[j]) = Len(LineOf(m, j)) + 2
               /\ EndsWith(Pieces(m)[j], Len(LineOf(m, j)), <<CR, LF>>)
               /\ StartsWith(Pieces(m)[j], LineOf(m, j))
  <1> DEFINE T == Seq(Bytes)
             lines == m.lines
             end == <<CR, LF>>
  <1>1. lines \in Seq(T) /\ lines # <<>>
    BY MessageShape
  <1>2. <<>> \in T /\ end \in T /\ Len(end) = 2
    BY EmptySeq, LineEndBytes
  <1>3. \A x \in T : /\ Len(x) \in Nat /\ x \o end \in T /\ Len(x \o end) = Len(x) + 2
                     /\ StartsWith(x \o end, x) /\ EndsWith(x \o end, Len(x), end)
    <2> TAKE x \in T
    <2>1. x \o end \in T
      BY <1>2, ConcatProperties
    <2>2. StartsWith(x \o end, x) /\ EndsWith(x \o end, Len(x), end)
      BY <1>2, ConcatenationStep
    <2>3. Len(x) \in Nat
      OBVIOUS
    <2> HIDE DEF T, end
    <2> QED
      BY <1>2, <2>1, <2>2, <2>3 DEF EndsWith
  <1> HIDE DEF T, end, lines
  <1>4. /\ Len(lines) \in Nat \ {0}
        /\ \A j \in 1..Len(lines) : lines[j] \in T
    <2>1. Len(lines) \in Nat \ {0}
      BY <1>1, EmptySeq
    <2>2. \A j \in 1..Len(lines) : lines[j] \in T
      BY <1>1, ElementOfSeq
    <2> QED
      BY <2>1, <2>2
  <1>5. /\ \A j \in 1..Len(lines) : LineOf(m, j) = lines[j]
        /\ LineOf(m, Len(lines) + 1) = <<>>
    <2>1. /\ \A j \in 1..Len(lines) : Append(lines, <<>>)[j] = lines[j]
          /\ Append(lines, <<>>)[Len(lines) + 1] = <<>>
      BY <1>1, <1>2, AppendProperties
    <2> QED
      BY <2>1 DEF LineOf, lines
  <1>6. \A j \in 1..(Len(lines) + 1) : LineOf(m, j) \in T
    BY <1>2, <1>4, <1>5
  <1>7. Pieces(m) = [j \in 1..(Len(lines) + 1) |-> LineOf(m, j) \o end]
    BY DEF Pieces, lines, end
  <1>8. Pieces(m) \in [1..(Len(lines) + 1) -> T]
    BY <1>3, <1>6, <1>7
  <1>9. Pieces(m) \in Seq(T) /\ Len(Pieces(m)) = Len(lines) + 1
    <2>1. Len(lines) + 1 \in Nat
      BY <1>4
    <2>2. Pieces(m) \in Seq(T)
      BY <1>8, <2>1, SeqDef
    <2> QED
      BY <1>8, <2>1, <2>2
  <1>10. \A j \in 1..(Len(lines) + 1) : Pieces(m)[j] = LineOf(m, j) \o end
    BY <1>7
  <1>11. \A j \in 1..(Len(lines) + 1) :
            /\ LineOf(m, j) \in T /\ Len(LineOf(m, j)) \in Nat
            /\ Len(Pieces(m)[j]) = Len(LineOf(m, j)) + 2
            /\ EndsWith(Pieces(m)[j], Len(LineOf(m, j)), end)
            /\ StartsWith(Pieces(m)[j], LineOf(m, j))
    BY <1>3, <1>6, <1>10
  <1> QED
    BY <1>4, <1>5, <1>9, <1>11 DEF T, lines, end

\* Where the lines of a message and its body lie in its bytes.
LEMMA MessageLayout ==
  ASSUME NEW m \in Messages
  PROVE  LET n == Len(m.lines) + 1
             At(j) == Offset(Pieces(m), j)
         IN  /\ m.bytes \in Seq(Bytes)
             /\ At(0) = 0
             /\ \A j \in 0..n : At(j) \in Nat /\ At(j) <= At(n)
             /\ \A j \in 1..n : At(j) = At(j - 1) + Len(LineOf(m, j)) + 2
             /\ Len(m.bytes) = At(n) + Len(m.body)
             /\ \A j \in 1..n :
                   /\ \A i \in 1..Len(LineOf(m, j)) : m.bytes[At(j - 1) + i] = LineOf(m, j)[i]
                   /\ m.bytes[At(j - 1) + Len(LineOf(m, j)) + 1] = CR
                   /\ m.bytes[At(j - 1) + Len(LineOf(m, j)) + 2] = LF
             /\ \A i \in 1..Len(m.body) : m.bytes[At(n) + i] = m.body[i]
  <1> DEFINE n == Len(m.lines) + 1
             At(j) == Offset(Pieces(m), j)
             ss == Pieces(m)
             flat == FlattenSeq(ss)
             T == Seq(Bytes)
             line(j) == LineOf(m, j)
             body == m.body
  <1>1. /\ n \in Nat \ {0} /\ ss \in Seq(Seq(Bytes)) /\ Len(ss) = n
        /\ \A j \in 1..n : /\ line(j) \in T /\ Len(line(j)) \in Nat
                           /\ Len(ss[j]) = Len(line(j)) + 2
                           /\ EndsWith(ss[j], Len(line(j)), <<CR, LF>>)
                           /\ StartsWith(ss[j], line(j))
    <2>1. Len(m.lines) \in Nat \ {0} /\ ss \in Seq(Seq(Bytes)) /\ Len(ss) = Len(m.lines) + 1
      BY PiecesOfMessage
    <2>2. n \in Nat \ {0} /\ Len(ss) = n
      BY <2>1
    <2>3. \A j \in 1..n : /\ line(j) \in T /\ Len(line(j)) \in Nat
                           /\ Len(ss[j]) = Len(line(j)) + 2
                           /\ EndsWith(ss[j], Len(line(j)), <<CR, LF>>)
                           /\ StartsWith(ss[j], line(j))
      BY PiecesOfMessage
    <2> QED
      BY <2>1, <2>2, <2>3
  <1>2. /\ flat \in T /\ At(0) = 0 /\ At(n) = Len(flat)
        /\ \A j \in 0..n : At(j) \in Nat
        /\ \A j \in 0..n : \A i \in 0..j : At(i) <= At(j)
        /\ \A j \in 1..n : At(j) = At(j - 1) + Len(ss[j])
        /\ \A j \in 1..n : \A i \in 1..Len(ss[j]) : flat[At(j - 1) + i] = ss[j][i]
    <2>1. ss \in Seq(Seq(Bytes)) /\ Len(ss) = n
      BY <1>1
    <2>2. /\ flat \in T /\ At(0) = 0 /\ At(Len(ss)) = Len(flat)
          /\ \A j \in 0..Len(ss) : At(j) \in Nat
          /\ \A j \in 0..Len(ss) : \A i \in 0..j : At(i) <= At(j)
          /\ \A j \in 1..Len(ss) : At(j) = At(j - 1) + Len(ss[j])
          /\ \A j \in 1..Len(ss) : \A i \in 1..Len(ss[j]) : flat[At(j - 1) + i] = ss[j][i]
      <3>1. ss \in Seq(Seq(Bytes))
        BY <2>1
      <3> QED
        BY <3>1, FlattenLayout
    <2> HIDE DEF ss, n, flat, At, T
    <2> QED
      BY <2>1, <2>2
  <1>3. m.bytes = flat \o body /\ body \in T
    BY MessageShape
  <1>4. flat \o body \in T /\ StartsWith(flat \o body, flat) /\ EndsWith(flat \o body, Len(flat), body)
    BY <1>2, <1>3, ConcatProperties, ConcatenationStep
  <1>5. \A x \in T : Len(x) \in Nat
    OBVIOUS
  <1> HIDE DEF n, At, ss, flat, T, line, body
  <1>6. m.bytes \in T /\ Len(m.bytes) = At(n) + Len(body)
    BY <1>2, <1>3, <1>4 DEF EndsWith
  <1>7. \A i \in 1..Len(body) : m.bytes[At(n) + i] = body[i]
    BY <1>2, <1>3, <1>4 DEF EndsWith
  <1>8. \A j \in 0..n : At(j) \in Nat /\ At(j) <= At(n)
    <2>1. n \in 0..n /\ n \in Nat
      BY <1>1
    <2> QED
      BY <1>2, <2>1
  <1>9. \A j \in 1..n : At(j) = At(j - 1) + Len(line(j)) + 2
    <2> TAKE j \in 1..n
    <2>1. j - 1 \in 0..n /\ Len(line(j)) \in Nat
      BY <1>1
    <2>2. At(j) = At(j - 1) + Len(ss[j]) /\ At(j - 1) \in Nat
      BY <1>2, <2>1
    <2>3. Len(ss[j]) = Len(line(j)) + 2
      BY <1>1
    <2> QED
      BY <2>1, <2>2, <2>3
  <1>10. ASSUME NEW j \in 1..n
         PROVE  /\ \A i \in 1..Len(line(j)) : m.bytes[At(j - 1) + i] = line(j)[i]
                /\ m.bytes[At(j - 1) + Len(line(j)) + 1] = CR
                /\ m.bytes[At(j - 1) + Len(line(j)) + 2] = LF
    <2> DEFINE l == Len(line(j))
               a == At(j - 1)
               z == At(j)
               piece == ss[j]
    <2>1. j - 1 \in 0..n /\ j \in 0..n
      BY <1>1
    <2>2. l \in Nat /\ a \in Nat /\ z = a + l + 2 /\ z <= Len(flat) /\ Len(flat) \in Nat /\ Len(piece) = l + 2
      BY <1>1, <1>2, <1>8, <1>9, <2>1
    <2>3. \A i \in 1..(l + 2) : flat[a + i] = piece[i]
      <3>1. \A i \in 1..Len(ss[j]) : flat[At(j - 1) + i] = ss[j][i]
        BY <1>2
      <3> HIDE DEF ss, flat, At
      <3> QED
        BY <2>2, <3>1
    <2>4. StartsWith(m.bytes, flat)
      BY <1>3, <1>4
    <2>5. StartsWith(piece, line(j)) /\ EndsWith(piece, l, <<CR, LF>>)
      BY <1>1
    <2> HIDE DEF l, a, z, piece
    <2>6. \A i \in 1..(l + 2) : m.bytes[a + i] = piece[i]
      <3> TAKE i \in 1..(l + 2)
      <3>1. a + i \in 1..Len(flat)
        BY <2>2
      <3> QED
        BY <2>3, <2>4, <3>1 DEF StartsWith
    <2>7. /\ \A i \in 1..l : piece[i] = line(j)[i]
          /\ piece[l + 1] = CR /\ piece[l + 2] = LF
      BY <2>2, <2>5 DEF StartsWith, EndsWith, l
    <2>8. \A i \in 1..l : m.bytes[a + i] = line(j)[i]
      BY <2>2, <2>6, <2>7
    <2>9. m.bytes[a + l + 1] = CR /\ m.bytes[a + l + 2] = LF
      <3>1. a + l + 1 = a + (l + 1) /\ a + l + 2 = a + (l + 2) /\ l + 1 \in 1..(l + 2) /\ l + 2 \in 1..(l + 2)
        BY <2>2
      <3> QED
        BY <2>6, <2>7, <3>1
    <2> QED
      BY <2>8, <2>9 DEF l, a
  <1> QED
    BY <1>2, <1>6, <1>7, <1>8, <1>9, <1>10 DEF n, At, T, line, body

\* Where line j of message k starts; after the last, where its body does.
LineStart(k, j) == End(k - 1) + Offset(Pieces(sent[k]), j - 1)

-----------------------------------------------------------------------------
(* The input: the messages and their lines in the stream.                  *)

\* How many lines the k-th message has, the empty one included.
LineCount(k) == Len(sent[k].lines) + 1

\* End of the model is Offset in the messages' bytes, Stream their concatenation.
LEMMA EndIsOffset ==
  ASSUME sent \in Seq(Messages)
  PROVE  LET ss == [i \in DOMAIN sent |-> sent[i].bytes]
         IN  /\ ss \in Seq(Seq(Bytes)) /\ Len(ss) = Len(sent)
             /\ \A k \in 1..Len(sent) : ss[k] = sent[k].bytes
             /\ \A k \in 0..Len(sent) : End(k) = Offset(ss, k)
             /\ Stream = FlattenSeq(ss)
  <1> DEFINE ss == [i \in DOMAIN sent |-> sent[i].bytes]
             len == Len(sent)
             T == Seq(Bytes)
  <1>1. len \in Nat /\ DOMAIN sent = 1..len /\ \A k \in 1..len : sent[k] \in Messages
    OBVIOUS
  <1>2. \A k \in 1..len : sent[k].bytes \in T
    BY <1>1, MessageLayout
  <1>3. ss \in [1..len -> T]
    BY <1>1, <1>2
  <1>4. \A k \in 1..len : ss[k] = sent[k].bytes
    BY <1>1
  <1> HIDE DEF T
  <1>5. ss \in Seq(T) /\ Len(ss) = len
    <2> HIDE DEF ss
    <2>1. ss \in Seq(T)
      BY <1>1, <1>3, SeqDef
    <2> QED
      BY <1>1, <1>3, <2>1
  <1>6. \A k \in 0..len : End(k) = Offset(ss, k)
    <2> TAKE k \in 0..len
    <2>1. \A i \in 1..k : i \in 1..len
      BY <1>1
    <2>2. [i \in 1..k |-> sent[i].bytes] = [i \in 1..k |-> ss[i]]
      BY <1>4, <2>1
    <2> QED
      BY <2>2 DEF End, Offset
  <1> QED
    BY <1>4, <1>5, <1>6 DEF Stream, T

\* Where each message is in the stream.
LEMMA StreamLayout ==
  ASSUME sent \in Seq(Messages)
  PROVE  /\ Stream \in Seq(Bytes)
         /\ End(0) = 0 /\ End(Len(sent)) = Len(Stream)
         /\ \A k \in 0..Len(sent) : End(k) \in Nat
         /\ \A k \in 0..Len(sent) : \A j \in 0..k : End(j) <= End(k)
         /\ \A k \in 1..Len(sent) :
               /\ End(k) = End(k - 1) + Len(sent[k].bytes)
               /\ \A i \in 1..Len(sent[k].bytes) : Stream[End(k - 1) + i] = sent[k].bytes[i]
  <1> DEFINE ss == [i \in DOMAIN sent |-> sent[i].bytes]
             len == Len(sent)
  <1>1. /\ ss \in Seq(Seq(Bytes)) /\ Len(ss) = len
        /\ \A k \in 1..len : ss[k] = sent[k].bytes
        /\ \A k \in 0..len : End(k) = Offset(ss, k)
        /\ Stream = FlattenSeq(ss)
    BY EndIsOffset DEF ss, len
  <1>2. len \in Nat
    OBVIOUS
  <1> HIDE DEF ss, len
  <1>3. /\ Stream \in Seq(Bytes)
        /\ Offset(ss, 0) = 0
        /\ Offset(ss, len) = Len(Stream)
        /\ \A k \in 0..len : Offset(ss, k) \in Nat
        /\ \A k \in 0..len : \A j \in 0..k : Offset(ss, j) <= Offset(ss, k)
        /\ \A k \in 1..len : Offset(ss, k) = Offset(ss, k - 1) + Len(ss[k])
        /\ \A k \in 1..len : \A i \in 1..Len(ss[k]) :
              Stream[Offset(ss, k - 1) + i] = ss[k][i]
    <2> DEFINE Laid(n) ==
                  /\ FlattenSeq(ss) \in Seq(Bytes)
                  /\ Offset(ss, 0) = 0
                  /\ Offset(ss, n) = Len(FlattenSeq(ss))
                  /\ \A k \in 0..n : Offset(ss, k) \in Nat
                  /\ \A k \in 0..n : \A j \in 0..k : Offset(ss, j) <= Offset(ss, k)
                  /\ \A k \in 1..n : Offset(ss, k) = Offset(ss, k - 1) + Len(ss[k])
                  /\ \A k \in 1..n : \A i \in 1..Len(ss[k]) :
                        FlattenSeq(ss)[Offset(ss, k - 1) + i] = ss[k][i]
    <2>1. Laid(Len(ss))
      BY <1>1, FlattenLayout
    <2>2. Len(ss) = len /\ FlattenSeq(ss) = Stream
      BY <1>1
    <2> HIDE DEF Laid
    <2>3. Laid(len)
      BY <2>1, <2>2
    <2> QED
      BY <2>2, <2>3 DEF Laid
  <1>4. /\ \A k \in 1..len : k \in 0..len /\ k - 1 \in 0..len
        /\ \A k \in 0..len : \A j \in 0..k : j \in 0..len
        /\ 0 \in 0..len /\ len \in 0..len
    BY <1>2
  <1>5. /\ End(0) = 0 /\ End(len) = Len(Stream)
        /\ \A k \in 0..len : End(k) \in Nat
    BY <1>1, <1>3, <1>4
  <1>6. \A k \in 0..len : \A j \in 0..k : End(j) <= End(k)
    BY <1>1, <1>3, <1>4
  <1>7. ASSUME NEW k \in 1..len
        PROVE  /\ End(k) = End(k - 1) + Len(sent[k].bytes)
               /\ \A i \in 1..Len(sent[k].bytes) : Stream[End(k - 1) + i] = sent[k].bytes[i]
    <2> DEFINE at == Offset(ss, k - 1)
               piece == ss[k]
    <2>1. at = End(k - 1) /\ Offset(ss, k) = End(k) /\ piece = sent[k].bytes
      BY <1>1, <1>4
    <2>2. Offset(ss, k) = at + Len(piece) /\ \A i \in 1..Len(piece) : Stream[at + i] = piece[i]
      BY <1>3
    <2> HIDE DEF at, piece
    <2> QED
      BY <2>1, <2>2
  <1>10. Stream \in Seq(Bytes)
    BY <1>3
  <1> QED
    BY <1>5, <1>6, <1>7, <1>10 DEF len

\* The lines and the body of message k in the stream.
LEMMA LinesInStream ==
  ASSUME sent \in Seq(Messages), NEW k \in 1..Len(sent)
  PROVE  LET m == sent[k]
         IN  /\ LineCount(k) \in Nat \ {0}
             /\ LineStart(k, 1) = End(k - 1)
             /\ \A j \in 1..(LineCount(k) + 1) :
                   LineStart(k, j) \in Nat /\ LineStart(k, j) + Len(m.body) <= End(k)
             /\ \A j \in 1..LineCount(k) :
                   LineStart(k, j + 1) = LineStart(k, j) + Len(LineOf(m, j)) + 2
             /\ LineStart(k, LineCount(k) + 1) + Len(m.body) = End(k)
             /\ \A j \in 1..LineCount(k) :
                   /\ \A i \in 1..Len(LineOf(m, j)) : Stream[LineStart(k, j) + i] = LineOf(m, j)[i]
                   /\ Stream[LineStart(k, j) + Len(LineOf(m, j)) + 1] = CR
                   /\ Stream[LineStart(k, j) + Len(LineOf(m, j)) + 2] = LF
             /\ \A i \in 1..Len(m.body) :
                   Stream[LineStart(k, LineCount(k) + 1) + i] = m.body[i]
  <1> DEFINE m == sent[k]
             n == LineCount(k)
             At(j) == Offset(Pieces(m), j)
             base == End(k - 1)
             total == Len(m.bytes)
             len(j) == Len(LineOf(m, j))
             rest == Len(m.body)
  <1>1. m \in Messages
    OBVIOUS
  <1>2. n \in Nat \ {0} /\ n = Len(m.lines) + 1
    BY <1>1, PiecesOfMessage DEF LineCount
  <1>3. /\ At(0) = 0
        /\ \A j \in 0..n : At(j) \in Nat /\ At(j) <= At(n)
        /\ \A j \in 1..n : At(j) = At(j - 1) + len(j) + 2
        /\ total = At(n) + rest
        /\ \A j \in 1..n :
              /\ \A i \in 1..len(j) : m.bytes[At(j - 1) + i] = LineOf(m, j)[i]
              /\ m.bytes[At(j - 1) + len(j) + 1] = CR
              /\ m.bytes[At(j - 1) + len(j) + 2] = LF
        /\ \A i \in 1..rest : m.bytes[At(n) + i] = m.body[i]
    BY <1>1, <1>2, MessageLayout
  <1>4. \A j \in 1..n : len(j) \in Nat
    BY <1>1, <1>2, PiecesOfMessage
  <1>5. rest \in Nat
    BY <1>1, MessageShape
  <1>6. /\ base \in Nat /\ End(k) = base + total
        /\ \A i \in 1..total : Stream[base + i] = m.bytes[i]
    <2>1. k - 1 \in 0..Len(sent)
      OBVIOUS
    <2> QED
      BY <2>1, StreamLayout
  <1>7. \A j \in 1..(n + 1) : LineStart(k, j) = base + At(j - 1)
    BY DEF LineStart
  <1> HIDE DEF m, n, At, base, total, len, rest
  <1>8. LineStart(k, 1) = base
    <2>1. 1 \in 1..(n + 1) /\ 1 - 1 = 0
      BY <1>2
    <2> QED
      BY <1>3, <1>6, <1>7, <2>1
  <1>9. ASSUME NEW j \in 1..(n + 1)
        PROVE  LineStart(k, j) \in Nat /\ LineStart(k, j) + rest <= End(k)
    <2>1. j - 1 \in 0..n
      BY <1>2
    <2>2. At(j - 1) \in Nat /\ At(j - 1) <= At(n) /\ At(n) \in Nat
      BY <1>2, <1>3, <2>1
    <2> QED
      BY <1>3, <1>5, <1>6, <1>7, <2>2
  <1>10. ASSUME NEW j \in 1..n
         PROVE  /\ LineStart(k, j + 1) = LineStart(k, j) + len(j) + 2
                /\ \A i \in 1..len(j) : Stream[LineStart(k, j) + i] = LineOf(m, j)[i]
                /\ Stream[LineStart(k, j) + len(j) + 1] = CR
                /\ Stream[LineStart(k, j) + len(j) + 2] = LF
    <2> DEFINE a == At(j - 1)
               l == len(j)
    <2>1. j \in 1..(n + 1) /\ j + 1 \in 1..(n + 1) /\ (j + 1) - 1 = j /\ j - 1 \in 0..n /\ j \in 0..n
      BY <1>2
    <2>2. LineStart(k, j) = base + a /\ LineStart(k, j + 1) = base + At(j)
      BY <1>7, <2>1
    <2>3. /\ a \in Nat /\ l \in Nat /\ At(j) = a + l + 2 /\ At(j) <= At(n)
          /\ At(n) \in Nat
      BY <1>2, <1>3, <1>4, <2>1
    <2>4. /\ \A i \in 1..l : m.bytes[a + i] = LineOf(m, j)[i]
          /\ m.bytes[a + l + 1] = CR /\ m.bytes[a + l + 2] = LF
      BY <1>3
    <2> HIDE DEF a, l
    <2>5. a + l + 2 <= total /\ total \in Nat
      BY <1>3, <1>5, <2>3
    <2>6. \A i \in 1..(l + 2) : Stream[base + (a + i)] = m.bytes[a + i]
      <3> TAKE i \in 1..(l + 2)
      <3>1. a + i \in 1..total
        BY <2>3, <2>5
      <3> QED
        BY <1>6, <3>1
    <2>7. \A i \in 1..l : Stream[(base + a) + i] = LineOf(m, j)[i]
      <3> TAKE i \in 1..l
      <3>1. i \in 1..(l + 2) /\ base + (a + i) = (base + a) + i
        BY <1>6, <2>3
      <3> QED
        BY <2>4, <2>6, <3>1
    <2>8. Stream[(base + a) + l + 1] = CR /\ Stream[(base + a) + l + 2] = LF
      <3>1. /\ l + 1 \in 1..(l + 2) /\ base + (a + (l + 1)) = (base + a) + l + 1
            /\ l + 2 \in 1..(l + 2) /\ base + (a + (l + 2)) = (base + a) + l + 2
            /\ a + (l + 1) = a + l + 1 /\ a + (l + 2) = a + l + 2
        BY <1>6, <2>3
      <3> QED
        BY <2>4, <2>6, <3>1
    <2>9. LineStart(k, j + 1) = LineStart(k, j) + l + 2
      BY <1>6, <2>2, <2>3
    <2> QED
      BY <2>2, <2>7, <2>8, <2>9 DEF l
  <1>11. LineStart(k, n + 1) = base + At(n)
    <2>1. n + 1 \in 1..(n + 1) /\ (n + 1) - 1 = n
      BY <1>2
    <2> QED
      BY <1>7, <2>1
  <1>12. LineStart(k, n + 1) + rest = End(k)
    <2>1. At(n) \in Nat
      BY <1>2, <1>3
    <2> QED
      BY <1>3, <1>5, <1>6, <1>11, <2>1
  <1>13. \A i \in 1..rest : Stream[LineStart(k, n + 1) + i] = m.body[i]
    <2> TAKE i \in 1..rest
    <2> DEFINE a == At(n)
    <2>1. a \in Nat /\ total = a + rest
      BY <1>2, <1>3
    <2>2. m.bytes[a + i] = m.body[i]
      BY <1>3
    <2> HIDE DEF a
    <2>3. a + i \in 1..total /\ base + (a + i) = (base + a) + i
      BY <1>5, <1>6, <2>1
    <2>4. Stream[base + (a + i)] = m.body[i]
      BY <1>6, <2>2, <2>3
    <2> QED
      BY <1>11, <2>3, <2>4 DEF a
  <1> QED
    BY <1>2, <1>8, <1>9, <1>10, <1>12, <1>13 DEF m, n, base, len, rest

\* b is a proper buffer, and its readable bytes are the last of the first p of s.
HoldsRest(b, p, s) ==
    /\ ProperBuffer(b) /\ p \in 0..Len(s) /\ ReadableBytes(b) <= p
    /\ \A i \in 1..ReadableBytes(b) : Readable(b)[i] = s[(p - ReadableBytes(b)) + i]

-----------------------------------------------------------------------------
(* The buffer holds the rest of the input, and lines are found in it.      *)

\* Retrieve takes the next bytes of what the buffer still holds of the input.
LEMMA RestRetrieved ==
  ASSUME NEW s \in Seq(Bytes), NEW b, NEW p, HoldsRest(b, p, s), NEW len \in 0..ReadableBytes(b)
  PROVE  /\ HoldsRest(Retrieve(b, len), p, s)
         /\ ReadableBytes(Retrieve(b, len)) = ReadableBytes(b) - len
  <1> DEFINE after == Retrieve(b, len)
             r == ReadableBytes(b)
  <1>1. ProperBuffer(b) /\ p \in 0..Len(s) /\ r <= p /\ r \in Nat /\ len \in Nat /\ p \in Nat
    BY ReadableBytesOf DEF HoldsRest
  <1>2. \A i \in 1..r : Readable(b)[i] = s[(p - r) + i]
    BY DEF HoldsRest
  <1>3. /\ ProperBuffer(after) /\ ReadableBytes(after) = r - len
        /\ \A i \in 1..(r - len) : Readable(after)[i] = Readable(b)[len + i]
    BY <1>1, RetrieveTakes
  <1> HIDE DEF after, r
  <1>4. ASSUME NEW i \in 1..(r - len)
        PROVE  Readable(after)[i] = s[(p - (r - len)) + i]
    <2>1. len + i \in 1..r /\ (p - r) + (len + i) = (p - (r - len)) + i
      BY <1>1
    <2> QED
      BY <1>2, <1>3, <2>1
  <1> QED
    BY <1>1, <1>3, <1>4 DEF HoldsRest, after, r

\* ReadFd adds the bytes of the input that come next, whether they fit behind
\* the write index, after compaction, after growth, or by way of the stack buffer.
LEMMA RestRead ==
  ASSUME NEW s \in Seq(Bytes), NEW b, NEW p, HoldsRest(b, p, s),
         NEW n \in Nat, p + n <= Len(s)
  PROVE  /\ HoldsRest(ReadFd(b, SubSeq(s, p + 1, p + n)), p + n, s)
         /\ ReadableBytes(ReadFd(b, SubSeq(s, p + 1, p + n))) = ReadableBytes(b) + n
  <1> DEFINE from == p + 1
             upto == p + n
             came == SubSeq(s, from, upto)
             r == ReadableBytes(b)
             after == ReadFd(b, came)
  <1>1. ProperBuffer(b) /\ p \in 0..Len(s) /\ r <= p /\ r \in Nat /\ p \in Nat /\ Len(s) \in Nat
        /\ Len(Readable(b)) = r /\ Readable(b) \in Seq(Bytes)
    BY ReadableBytesOf DEF HoldsRest
  <1>2. \A i \in 1..r : Readable(b)[i] = s[(p - r) + i]
    BY DEF HoldsRest
  <1>3. came \in Seq(Bytes) /\ Len(came) = n /\ \A i \in 1..n : came[i] = s[p + i]
    <2>1. from \in Int /\ upto \in Int /\ \A i \in from..upto : s[i] \in Bytes
      BY <1>1
    <2> HIDE DEF from, upto
    <2>2. /\ came \in Seq(Bytes)
          /\ Len(came) = IF from <= upto THEN upto - from + 1 ELSE 0
          /\ \A i \in 1..(upto - from + 1) : came[i] = s[from + i - 1]
      BY <2>1, SubSeqProperties
    <2>3. upto - from + 1 = n /\ (from <= upto <=> n > 0) /\ \A i \in 1..n : from + i - 1 = p + i
      BY <1>1 DEF from, upto
    <2> QED
      BY <2>2, <2>3
  <1> HIDE DEF came
  <1>4. ProperBuffer(after) /\ Readable(after) = Readable(b) \o came
    BY <1>1, <1>3, ReadFdAdds
  <1>5. /\ Len(Readable(b) \o came) = r + n
        /\ \A i \in 1..(r + n) :
              (Readable(b) \o came)[i] = IF i <= r THEN Readable(b)[i] ELSE came[i - r]
    <2> DEFINE read == Readable(b)
    <2>1. /\ read \in Seq(Bytes) /\ came \in Seq(Bytes) /\ Len(read) = r /\ Len(came) = n
      BY <1>1, <1>3
    <2> HIDE DEF read, r
    <2>2. /\ Len(read \o came) = Len(read) + Len(came)
          /\ \A i \in 1..(Len(read) + Len(came)) :
                (read \o came)[i] = IF i <= Len(read) THEN read[i] ELSE came[i - Len(read)]
      BY <2>1, ConcatProperties
    <2> QED
      BY <2>1, <2>2 DEF read
  <1>6. ReadableBytes(after) = r + n
    BY <1>4, <1>5, ReadableBytesOf
  <1> HIDE DEF after, r
  <1>7. ASSUME NEW i \in 1..(r + n)
        PROVE  Readable(after)[i] = s[((p + n) - (r + n)) + i]
    <2>1. (p + n) - (r + n) + i = (p - r) + i
      BY <1>1
    <2>2. CASE i <= r
      BY <1>1, <1>2, <1>4, <1>5, <2>1, <2>2
    <2>3. CASE ~(i <= r)
      <3>1. i - r \in 1..n /\ p + (i - r) = (p - r) + i
        BY <1>1, <2>3
      <3> QED
        BY <1>3, <1>4, <1>5, <2>1, <2>3, <3>1
    <2> QED
      BY <2>2, <2>3
  <1>8. p + n \in 0..Len(s) /\ r + n <= p + n
    BY <1>1
  <1> QED
    BY <1>4, <1>6, <1>7, <1>8 DEF HoldsRest, after, came, r, from, upto

\* std::search finds the first CR LF of the readable bytes.
LEMMA FoundCRLF ==
  ASSUME NEW b, ProperBuffer(b)
  PROVE  /\ \A q : q \in CRLFs(b) <=> /\ q \in Nat /\ q + 2 <= ReadableBytes(b)
                                      /\ Readable(b)[q + 1] = CR /\ Readable(b)[q + 2] = LF
         /\ HasCRLF(b) => /\ FindCRLF(b) \in CRLFs(b)
                          /\ \A q \in CRLFs(b) : FindCRLF(b) <= q
  <1> DEFINE r == ReadableBytes(b)
  <1>1. r \in Nat /\ b.read \in Nat /\ \A i \in 1..r : Readable(b)[i] = b.bytes[b.read + i]
    BY ReadableBytesOf DEF ProperBuffer
  <1> HIDE DEF r
  <1>2. \A q \in 0..(r - 2) : /\ Readable(b)[q + 1] = b.bytes[b.read + q + 1]
                              /\ Readable(b)[q + 2] = b.bytes[b.read + q + 2]
    <2> TAKE q \in 0..(r - 2)
    <2>1. /\ q + 1 \in 1..r /\ b.read + (q + 1) = b.read + q + 1
          /\ q + 2 \in 1..r /\ b.read + (q + 2) = b.read + q + 2
      BY <1>1
    <2> QED
      BY <1>1, <2>1
  <1>3. \A q : q \in 0..(r - 2) <=> q \in Nat /\ q + 2 <= r
    BY <1>1
  <1>4. CRLFs(b) = {q \in 0..(r - 2) : b.bytes[b.read + q + 1] = CR /\ b.bytes[b.read + q + 2] = LF}
    BY DEF CRLFs, r
  <1>5. ASSUME HasCRLF(b)
        PROVE  FindCRLF(b) \in CRLFs(b) /\ \A q \in CRLFs(b) : FindCRLF(b) <= q
    <2>1. CRLFs(b) \in SUBSET Nat /\ CRLFs(b) # {}
      BY <1>3, <1>4, <1>5 DEF HasCRLF
    <2>2. \E x \in CRLFs(b) : \A y \in CRLFs(b) : x <= y
      BY <2>1, LeastNatural
    <2> QED
      BY <2>2 DEF FindCRLF
  <1> QED
    BY <1>2, <1>3, <1>4, <1>5 DEF r

\* line and its end are the bytes of s after the first c.
LineAt(s, c, line) ==
    /\ \A i \in 1..Len(line) : s[c + i] = line[i]
    /\ s[c + Len(line) + 1] = CR /\ s[c + Len(line) + 2] = LF

\* A whole line is found when it and its end have arrived, and no sooner.
LEMMA LineArrives ==
  ASSUME NEW s \in Seq(Bytes), NEW b, NEW p, HoldsRest(b, p, s),
         NEW line \in Seq(Bytes), IsText(line), LineAt(s, p - ReadableBytes(b), line)
  PROVE  /\ HasCRLF(b) <=> Len(line) + 2 <= ReadableBytes(b)
         /\ HasCRLF(b) => /\ FindCRLF(b) = Len(line)
                          /\ SubSeq(Readable(b), 1, Len(line)) = line
  <1> DEFINE r == ReadableBytes(b)
             l == Len(line)
             read == Readable(b)
             c == p - r
  <1>1. /\ ProperBuffer(b) /\ r \in Nat /\ l \in Nat /\ p \in Nat /\ r <= p /\ c = p - r
        /\ read \in Seq(Bytes) /\ Len(read) = r
    BY ReadableBytesOf DEF HoldsRest
  <1>2. \A i \in 1..r : read[i] = s[c + i]
    BY DEF HoldsRest
  <1>3. \A i \in 1..l : s[c + i] = line[i]
    BY DEF LineAt
  <1>4. s[c + (l + 1)] = CR /\ s[c + (l + 2)] = LF
    <2>1. c + (l + 1) = c + l + 1 /\ c + (l + 2) = c + l + 2
      BY <1>1
    <2> QED
      BY <2>1 DEF LineAt
  <1>5. \A q : q \in CRLFs(b) <=> q \in Nat /\ q + 2 <= r /\ read[q + 1] = CR /\ read[q + 2] = LF
    BY <1>1, FoundCRLF
  <1>6. HasCRLF(b) => FindCRLF(b) \in CRLFs(b) /\ \A q \in CRLFs(b) : FindCRLF(b) <= q
    BY <1>1, FoundCRLF
  <1>7. \A i \in 1..(l - 1) : ~(line[i] = CR /\ line[i + 1] = LF)
    BY DEF IsText
  <1> HIDE DEF r, l, read, c
  <1>8. ASSUME NEW q \in CRLFs(b)
        PROVE  l <= q
    <2> SUFFICES ASSUME q < l
                 PROVE  FALSE
      BY <1>1, <1>5
    <2>1. q \in Nat /\ q + 2 <= r /\ read[q + 1] = CR /\ read[q + 2] = LF
      BY <1>5
    <2>2. s[c + (q + 1)] = CR /\ s[c + (q + 2)] = LF
      <3>1. q + 1 \in 1..r /\ q + 2 \in 1..r
        BY <1>1, <2>1
      <3> QED
        BY <1>2, <2>1, <3>1
    <2>3. CASE q + 1 < l
      <3>1. q + 1 \in 1..(l - 1) /\ q + 1 \in 1..l /\ q + 2 \in 1..l /\ (q + 1) + 1 = q + 2
        BY <1>1, <2>1, <2>3
      <3>2. line[q + 1] = CR /\ line[q + 2] = LF
        BY <1>3, <2>2, <3>1
      <3> QED
        BY <1>7, <3>1, <3>2
    <2>4. CASE q + 1 = l
      <3>1. q + 2 = l + 1
        BY <1>1, <2>1, <2>4
      <3> QED
        BY <1>4, <2>2, <3>1, LineEndBytes
    <2> QED
      BY <1>1, <2>1, <2>3, <2>4
  <1>9. ASSUME l + 2 <= r
        PROVE  l \in CRLFs(b)
    <2>1. l + 1 \in 1..r /\ l + 2 \in 1..r
      BY <1>1, <1>9
    <2>2. read[l + 1] = CR /\ read[l + 2] = LF
      BY <1>2, <1>4, <2>1
    <2> QED
      BY <1>1, <1>5, <1>9, <2>2
  <1>10. ASSUME HasCRLF(b)
         PROVE  l + 2 <= r /\ FindCRLF(b) = l /\ SubSeq(read, 1, l) = line
    <2>1. /\ FindCRLF(b) \in Nat /\ l <= FindCRLF(b) /\ FindCRLF(b) + 2 <= r
      BY <1>5, <1>6, <1>8, <1>10
    <2>2. l + 2 <= r
      BY <1>1, <2>1
    <2>3. FindCRLF(b) <= l
      BY <1>6, <1>9, <1>10, <2>2
    <2>4. \A i \in 1..l : i \in 1..r /\ read[i] = line[i]
      <3> TAKE i \in 1..l
      <3>1. i \in 1..r
        BY <1>1, <2>2
      <3> QED
        BY <1>2, <1>3, <3>1
    <2>5. SubSeq(read, 1, l) = line
      <3>1. \A i \in 1..l : read[i] \in Bytes
        BY <2>4 DEF l
      <3>2. /\ SubSeq(read, 1, l) \in Seq(Bytes)
            /\ Len(SubSeq(read, 1, l)) = IF 1 <= l THEN l - 1 + 1 ELSE 0
            /\ \A i \in 1..(l - 1 + 1) : SubSeq(read, 1, l)[i] = read[1 + i - 1]
        BY <1>1, <3>1, SubSeqProperties
      <3>3. Len(SubSeq(read, 1, l)) = l /\ \A i \in 1..l : SubSeq(read, 1, l)[i] = line[i]
        <4>1. l - 1 + 1 = l /\ \A i \in 1..l : 1 + i - 1 = i
          BY <1>1
        <4> QED
          BY <1>1, <2>4, <3>2, <4>1
      <3> QED
        BY <3>2, <3>3, SeqEqual DEF l
    <2>6. FindCRLF(b) = l
      BY <1>1, <2>1, <2>3
    <2> QED
      BY <2>2, <2>5, <2>6
  <1>11. l \in CRLFs(b) => HasCRLF(b)
    BY DEF HasCRLF
  <1> QED
    BY <1>9, <1>10, <1>11 DEF r, l, read

-----------------------------------------------------------------------------
(* HttpContext: no byte is lost.                                           *)

\* What a request's content length may be: one of a line's, none, or refused.
LengthValues == {None, Malformed, -1, 0, 1, 2}

\* What a request is when it is handed over.
Requests == [line : Seq(Bytes), body : Seq(Bytes)]

\* The types of the variables.
HttpTypeOK ==
    /\ sent \in Seq(Messages)
    /\ state_ \in ParseStates
    /\ pc \in {"poll", "codec", "parse", "parsed", "invalid"}
    /\ request_ \in [line : Seq(Bytes), length : LengthValues, body : Seq(Bytes)]
    /\ state_ = "kExpectBody" => request_.length \in Nat
    /\ delivered \in Seq(Requests)
    /\ rejected \in BOOLEAN

\* The buffer holds what has been read of the input and not been taken.
HttpBytesInv == HttpTypeOK /\ HoldsRest(buf, pos, Stream)

\* The input and the places in it change only with the messages sent.
LEMMA SameMessages ==
  ASSUME sent' = sent
  PROVE  /\ Stream' = Stream
         /\ \A k : End(k)' = End(k)
         /\ \A k : LineCount(k)' = LineCount(k)
         /\ \A k, j : LineStart(k, j)' = LineStart(k, j)
  BY DEF Stream, End, LineStart, LineCount

\* What the lines of the buffer are.
LEMMA LineOfBuffer ==
  ASSUME HttpBytesInv, HasCRLF(buf)
  PROVE  /\ FindCRLF(buf) \in Nat /\ FindCRLF(buf) + 2 <= ReadableBytes(buf)
         /\ Line \in Seq(Bytes)
         /\ HoldsRest(RetrieveUntil(buf, FindCRLF(buf)), pos, Stream)
         /\ ReadableBytes(RetrieveUntil(buf, FindCRLF(buf))) = ReadableBytes(buf) - (FindCRLF(buf) + 2)
  <1> DEFINE q == FindCRLF(buf)
             r == ReadableBytes(buf)
             read == Readable(buf)
  <1>1. HoldsRest(buf, pos, Stream) /\ ProperBuffer(buf) /\ sent \in Seq(Messages)
    BY DEF HttpBytesInv, HttpTypeOK, HoldsRest
  <1>2. q \in Nat /\ q + 2 <= r
    BY <1>1, FoundCRLF
  <1>3. read \in Seq(Bytes) /\ Len(read) = r /\ r \in Nat
    BY <1>1, ReadableBytesOf
  <1>4. Stream \in Seq(Bytes)
    BY <1>1, StreamLayout
  <1>5. RetrieveUntil(buf, q) = Retrieve(buf, q + 2)
    BY DEF RetrieveUntil
  <1>6. Line = SubSeq(read, 1, q)
    BY DEF Line
  <1> HIDE DEF q, r, read
  <1>7. q + 2 \in 0..r
    BY <1>2, <1>3
  <1>8. /\ HoldsRest(Retrieve(buf, q + 2), pos, Stream)
        /\ ReadableBytes(Retrieve(buf, q + 2)) = r - (q + 2)
    BY <1>1, <1>4, <1>7, RestRetrieved DEF r
  <1>9. SubSeq(read, 1, q) \in Seq(Bytes)
    <2>1. q \in Int /\ \A i \in 1..q : read[i] \in Bytes
      BY <1>2, <1>3
    <2> QED
      BY <2>1, SubSeqProperties
  <1> QED
    BY <1>2, <1>5, <1>6, <1>8, <1>9 DEF q, r

\* A new connection has an empty buffer.
LEMMA HttpTypesStart ==
  HttpInit => HttpBytesInv
  <1> SUFFICES ASSUME HttpInit
               PROVE  HttpBytesInv
    OBVIOUS
  <1>1. sent \in Seq(Messages)
    <2>1. sent \in UNION {[1..m -> Messages] : m \in 0..MaxMessages}
      BY DEF HttpInit, BoundedSeq, SeqOf
    <2>2. \A m \in 0..MaxMessages : m \in Nat
      BY ConstantsAssumption
    <2> QED
      BY <2>1, <2>2, SeqDef
  <1>2. Stream \in Seq(Bytes) /\ Len(Stream) \in Nat
    <2>1. Stream \in Seq(Bytes)
      BY <1>1, StreamLayout
    <2> QED
      BY <2>1
  <1>3. ProperBuffer(buf) /\ ReadableBytes(buf) = 0
    <2> DEFINE zeros == [i \in 1..InitSize |-> Zero]
    <2>1. zeros \in Seq(Bytes) /\ Len(zeros) = InitSize /\ InitSize \in Nat
      <3>1. InitSize \in Nat
        BY ConstantsAssumption
      <3>2. zeros \in [1..InitSize -> Bytes]
        BY LineEndBytes
      <3> HIDE DEF zeros
      <3> QED
        BY <3>1, <3>2, ArrayIsSeq
    <2>2. buf = [bytes |-> zeros, read |-> 0, write |-> 0]
      BY DEF HttpInit, NewBuffer
    <2> HIDE DEF zeros
    <2> QED
      BY <2>1, <2>2 DEF ProperBuffer, ReadableBytes
  <1>4. HoldsRest(buf, pos, Stream)
    BY <1>2, <1>3 DEF HttpInit, HoldsRest
  <1>5. NoRequest \in [line : Seq(Bytes), length : LengthValues, body : Seq(Bytes)]
    BY EmptySeq DEF NoRequest, LengthValues
  <1>6. delivered \in Seq(Requests)
    BY EmptySeq DEF HttpInit
  <1> QED
    BY <1>1, <1>4, <1>5, <1>6 DEF HttpInit, HttpBytesInv, HttpTypeOK, ParseStates

\* HandleRead: what the buffer holds grows by what the input gives, and what
\* has been consumed stays.
LEMMA ReadKeepsBytes ==
  ASSUME HttpBytesInv, NEW n \in 1..Len(Stream), Read(n)
  PROVE  /\ HttpBytesInv'
         /\ pos' - ReadableBytes(buf') = pos - ReadableBytes(buf)
  <1>1. sent \in Seq(Messages) /\ HoldsRest(buf, pos, Stream)
    BY DEF HttpBytesInv, HttpTypeOK
  <1>2. Stream \in Seq(Bytes)
    BY <1>1, StreamLayout
  <1>3. Stream' = Stream
    BY SameMessages DEF Read
  <1>4. n \in Nat /\ pos + n <= Len(Stream) /\ pos' = pos + n
        /\ buf' = ReadFd(buf, SubSeq(Stream, pos + 1, pos + n))
    BY DEF Read
  <1>5. HoldsRest(buf', pos', Stream) /\ ReadableBytes(buf') = ReadableBytes(buf) + n
    BY <1>1, <1>2, <1>4, RestRead
  <1>6. pos \in Nat /\ ReadableBytes(buf) \in Nat
    BY <1>1, <1>2, ReadableBytesOf DEF HoldsRest
  <1>7. pos' - ReadableBytes(buf') = pos - ReadableBytes(buf)
    BY <1>4, <1>5, <1>6
  <1>8. HttpTypeOK'
    BY DEF HttpBytesInv, HttpTypeOK, Read
  <1>9. HoldsRest(buf, pos, Stream)'
    BY <1>3, <1>5
  <1> QED
    BY <1>7, <1>8, <1>9 DEF HttpBytesInv

\* The branch of ParseRequest for the request line takes that line.
LEMMA RequestLineKeepsBytes ==
  ASSUME HttpBytesInv, ExpectRequestLine
  PROVE  HttpBytesInv'
  <1>1. Stream' = Stream /\ pos' = pos
    BY SameMessages DEF ExpectRequestLine
  <1>2. CASE UNCHANGED <<buf, state_, request_>> /\ pc' \in {"parsed", "invalid"}
    BY <1>1, <1>2 DEF HttpBytesInv, HttpTypeOK, ExpectRequestLine
  <1>3. CASE /\ HasCRLF(buf)
             /\ request_' = [request_ EXCEPT !.line = Line]
             /\ buf' = RetrieveUntil(buf, FindCRLF(buf))
             /\ state_' = "kExpectHeaders"
             /\ UNCHANGED pc
    <2>1. Line \in Seq(Bytes) /\ HoldsRest(buf', pos, Stream)
      BY <1>3, LineOfBuffer
    <2>2. request_' \in [line : Seq(Bytes), length : LengthValues, body : Seq(Bytes)]
      BY <1>3, <2>1 DEF HttpBytesInv, HttpTypeOK
    <2>3. HttpTypeOK'
      BY <1>3, <2>2 DEF HttpBytesInv, HttpTypeOK, ExpectRequestLine, ParseStates
    <2>4. HoldsRest(buf, pos, Stream)'
      BY <1>1, <2>1
    <2> QED
      BY <2>3, <2>4 DEF HttpBytesInv
  <1> QED
    BY <1>2, <1>3 DEF ExpectRequestLine

\* The empty line: the three things that can follow.
LEMMA AfterHeadersCases ==
  ASSUME NEW length \in LengthValues
  PROVE  \/ /\ length \in Nat /\ length > 0
            /\ AfterHeaders(length).state = "kExpectBody" /\ AfterHeaders(length).pc = "parse"
         \/ /\ length = Malformed
            /\ AfterHeaders(length).state = "kGotAll" /\ AfterHeaders(length).pc = "invalid"
         \/ /\ length # Malformed /\ (length = None \/ (length \in Int /\ ~(length > 0)))
            /\ AfterHeaders(length).state = "kGotAll" /\ AfterHeaders(length).pc = "parsed"
  <1>0. Malformed # None /\ Malformed \notin Int /\ None \notin Int
    BY ConstantsAssumption
  <1>1. CASE length \in {1, 2}
    BY <1>0, <1>1 DEF AfterHeaders
  <1>2. CASE length = Malformed
    BY <1>0, <1>2 DEF AfterHeaders
  <1>3. CASE length = None \/ length \in {-1, 0}
    BY <1>0, <1>3 DEF AfterHeaders
  <1> QED
    BY <1>1, <1>2, <1>3 DEF LengthValues

\* The branch for the headers takes a line, also one that it rejects.
LEMMA HeadersKeepBytes ==
  ASSUME HttpBytesInv, ExpectHeaders
  PROVE  HttpBytesInv'
  <1>1. Stream' = Stream /\ pos' = pos
    BY SameMessages DEF ExpectHeaders
  <1>2. CASE ~HasCRLF(buf)
    BY <1>1, <1>2 DEF HttpBytesInv, HttpTypeOK, ExpectHeaders
  <1>3. CASE HasCRLF(buf)
    <2>1. Line \in Seq(Bytes) /\ HoldsRest(RetrieveUntil(buf, FindCRLF(buf)), pos, Stream)
      BY <1>3, LineOfBuffer
    <2>2. HoldsRest(buf, pos, Stream)'
      BY <1>1, <1>3, <2>1 DEF ExpectHeaders
    <2>3. CASE Line = <<>>
      <3>1. /\ state_' = AfterHeaders(request_.length).state
            /\ pc' = AfterHeaders(request_.length).pc
            /\ UNCHANGED <<sent, request_, delivered, rejected>>
        BY <1>3, <2>3 DEF ExpectHeaders
      <3>2. request_.length \in LengthValues
        BY DEF HttpBytesInv, HttpTypeOK
      <3>3. /\ state_' \in ParseStates
            /\ pc' \in {"poll", "codec", "parse", "parsed", "invalid"}
            /\ state_' = "kExpectBody" => request_.length \in Nat
        BY <3>1, <3>2, AfterHeadersCases DEF ParseStates
      <3> QED
        BY <2>2, <3>1, <3>3 DEF HttpBytesInv, HttpTypeOK
    <2>4. CASE Line # <<>>
      <3>1. /\ request_' = IF IsContentLength(Line)
                           THEN [request_ EXCEPT !.length = Lengths[Line[1]]]
                           ELSE request_
            /\ pc' = IF HasColon(Line) THEN "parse" ELSE "invalid"
            /\ state_ = "kExpectHeaders"
            /\ UNCHANGED <<sent, state_, delivered, rejected>>
        BY <1>3, <2>4 DEF ExpectHeaders
      <3>2. IsContentLength(Line) => Lengths[Line[1]] \in LengthValues
        BY DEF IsContentLength, Lengths, LengthValues
      <3>3. request_' \in [line : Seq(Bytes), length : LengthValues, body : Seq(Bytes)]
        BY <3>1, <3>2 DEF HttpBytesInv, HttpTypeOK
      <3> QED
        BY <2>2, <3>1, <3>3 DEF HttpBytesInv, HttpTypeOK
    <2> QED
      BY <2>3, <2>4
  <1> QED
    BY <1>2, <1>3

\* The branch for the body takes the declared number of bytes once they are there.
LEMMA BodyKeepsBytes ==
  ASSUME HttpBytesInv, ExpectBody
  PROVE  /\ HttpBytesInv'
         /\ ReadableBytes(buf) >= request_.length =>
               ReadableBytes(buf') = ReadableBytes(buf) - request_.length
  <1>1. Stream' = Stream /\ pos' = pos
    BY SameMessages DEF ExpectBody
  <1>2. request_.length \in Nat /\ sent \in Seq(Messages) /\ HoldsRest(buf, pos, Stream)
    BY DEF HttpBytesInv, HttpTypeOK, ExpectBody
  <1>3. CASE ~(ReadableBytes(buf) >= request_.length)
    BY <1>1, <1>3 DEF HttpBytesInv, HttpTypeOK, ExpectBody
  <1>4. CASE ReadableBytes(buf) >= request_.length
    <2> DEFINE n == request_.length
               read == Readable(buf)
    <2>1. /\ request_' = [request_ EXCEPT !.body = SubSeq(read, 1, n)]
          /\ buf' = Retrieve(buf, n)
          /\ state_' = "kGotAll" /\ pc' = "parsed"
          /\ UNCHANGED <<sent, pos, delivered, rejected>>
      BY <1>4 DEF ExpectBody
    <2>2. read \in Seq(Bytes) /\ Len(read) = ReadableBytes(buf) /\ ReadableBytes(buf) \in Nat
      BY <1>2, ReadableBytesOf DEF HoldsRest
    <2>3. n \in 0..ReadableBytes(buf)
      BY <1>2, <1>4, <2>2
    <2>4. Stream \in Seq(Bytes)
      BY <1>2, StreamLayout
    <2>5. HoldsRest(buf', pos, Stream) /\ ReadableBytes(buf') = ReadableBytes(buf) - n
      BY <1>2, <2>1, <2>3, <2>4, RestRetrieved
    <2> HIDE DEF n, read
    <2>6. SubSeq(read, 1, n) \in Seq(Bytes)
      <3>1. n \in Int /\ \A i \in 1..n : read[i] \in Bytes
        BY <2>2, <2>3
      <3> QED
        BY <3>1, SubSeqProperties
    <2>7. request_' \in [line : Seq(Bytes), length : LengthValues, body : Seq(Bytes)]
      BY <2>1, <2>6 DEF HttpBytesInv, HttpTypeOK
    <2>8. HttpTypeOK'
      BY <2>1, <2>7 DEF HttpBytesInv, HttpTypeOK, ParseStates
    <2>9. HoldsRest(buf, pos, Stream)'
      BY <1>1, <2>5
    <2> QED
      BY <2>5, <2>8, <2>9 DEF HttpBytesInv, n
  <1> QED
    BY <1>3, <1>4

\* The passes of OnMessage take nothing from the buffer.
LEMMA OthersKeepBytes ==
  ASSUME HttpBytesInv,
         CodecLoop \/ NoBranch \/ GotAll \/ HalfMessage \/ BadRequest \/ UNCHANGED httpVars
  PROVE  HttpBytesInv'
  <1>1. sent' = sent /\ pos' = pos /\ buf' = buf
    BY DEF CodecLoop, NoBranch, GotAll, HalfMessage, BadRequest, httpVars
  <1>2. HoldsRest(buf, pos, Stream)'
    BY <1>1, SameMessages DEF HttpBytesInv
  <1>3. CASE GotAll
    <2>1. NoRequest \in [line : Seq(Bytes), length : LengthValues, body : Seq(Bytes)]
      BY EmptySeq DEF NoRequest, LengthValues
    <2>2. [line |-> request_.line, body |-> request_.body] \in Requests
      BY DEF HttpBytesInv, HttpTypeOK, Requests
    <2>3. delivered' \in Seq(Requests)
      BY <1>3, <2>2, AppendProperties DEF GotAll, HttpBytesInv, HttpTypeOK
    <2> QED
      BY <1>2, <1>3, <2>1, <2>3 DEF GotAll, Reset, HttpBytesInv, HttpTypeOK, ParseStates
  <1>4. CASE CodecLoop
    BY <1>2, <1>4 DEF CodecLoop, HttpBytesInv, HttpTypeOK
  <1>5. CASE NoBranch \/ HalfMessage \/ BadRequest \/ UNCHANGED httpVars
    BY <1>2, <1>5 DEF NoBranch, HalfMessage, BadRequest, httpVars, HttpBytesInv, HttpTypeOK
  <1> QED
    BY <1>3, <1>4, <1>5

\* However the input is cut and whatever it says, the buffer's indices are in
\* order and it holds the next bytes of the input, none lost and none twice.
THEOREM HttpBytesInvariant ==
  HttpSpec => []HttpBytesInv
  <1>1. HttpBytesInv /\ [HttpNext]_httpVars => HttpBytesInv'
    BY ReadKeepsBytes, RequestLineKeepsBytes, HeadersKeepBytes, BodyKeepsBytes, OthersKeepBytes
       DEF HttpNext, OnMessage
  <1> QED
    BY <1>1, HttpTypesStart, PTL DEF HttpSpec

\* BufferHoldsRest for any messages, any size of the vector and any size of the
\* stack buffer.
THEOREM BufferAlwaysHoldsRest ==
  HttpSpec => []BufferHoldsRest
  <1>1. ASSUME HttpBytesInv
        PROVE  BufferHoldsRest
    <2> DEFINE r == ReadableBytes(buf)
               from == pos - r + 1
               rest == SubSeq(Stream, from, pos)
               read == Readable(buf)
    <2>1. sent \in Seq(Messages) /\ HoldsRest(buf, pos, Stream) /\ ProperBuffer(buf)
      BY <1>1 DEF HttpBytesInv, HttpTypeOK, HoldsRest
    <2>2. Stream \in Seq(Bytes)
      BY <2>1, StreamLayout
    <2>3. read \in Seq(Bytes) /\ Len(read) = r /\ r \in Nat
      BY <2>1, ReadableBytesOf
    <2>4. pos \in Nat /\ r <= pos /\ pos <= Len(Stream)
          /\ \A i \in 1..r : read[i] = Stream[(pos - r) + i]
      BY <2>1, <2>2 DEF HoldsRest
    <2>5. from \in Int /\ pos \in Int /\ \A i \in from..pos : Stream[i] \in Bytes
      <3>1. \A i \in from..pos : i \in 1..Len(Stream)
        BY <2>2, <2>3, <2>4
      <3>2. \A i \in 1..Len(Stream) : Stream[i] \in Bytes
        BY <2>2
      <3> QED
        BY <2>3, <2>4, <3>1, <3>2
    <2>6. /\ pos - from + 1 = r /\ (from <= pos <=> r > 0)
          /\ \A i \in 1..r : from + i - 1 = (pos - r) + i
      BY <2>3, <2>4
    <2> HIDE DEF r, from, read
    <2>7. /\ rest \in Seq(Bytes)
          /\ Len(rest) = IF from <= pos THEN pos - from + 1 ELSE 0
          /\ \A i \in 1..(pos - from + 1) : rest[i] = Stream[from + i - 1]
      BY <2>5, SubSeqProperties
    <2> HIDE DEF rest
    <2>8. Len(rest) = r /\ \A i \in 1..r : rest[i] = read[i]
      <3>1. Len(rest) = r
        BY <2>3, <2>6, <2>7
      <3>2. \A i \in 1..r : rest[i] = Stream[from + i - 1]
        BY <2>6, <2>7
      <3> QED
        BY <2>4, <2>6, <3>1, <3>2
    <2>9. read = rest
      BY <2>3, <2>7, <2>8, SeqEqual
    <2> QED
      BY <2>1, <2>9 DEF BufferHoldsRest, ProperBuffer, read, rest, from, r
  <1> QED
    BY <1>1, HttpBytesInvariant, PTL

-----------------------------------------------------------------------------
(* HttpContext: the parser stands where its state says.                    *)

\* The message that the parser is at, and the bytes that it has taken.
Current == Len(delivered) + 1
Consumed == pos - ReadableBytes(buf)

\* Nothing of message k has been taken.
BeforeMessage(k, c) == c = End(k - 1) /\ request_ = NoRequest

\* Line j is next: request_ has what the lines before it say.
AmongHeaders(k, c) ==
    /\ k <= Len(sent)
    /\ \E j \in 2..LineCount(k) :
          /\ c = LineStart(k, j)
          /\ request_.line = sent[k].lines[1] /\ request_.body = <<>>
          /\ request_.length = DeclaredLength(sent[k].lines, j - 1)
          /\ GoodLines(sent[k].lines, j - 1)

\* The head of message k has been taken, and it declares a body.
BeforeBody(k, c) ==
    /\ k <= Len(sent) /\ sent[k].request # Malformed
    /\ c + Len(sent[k].body) = End(k)
    /\ request_.line = sent[k].lines[1]
    /\ request_.length = Len(sent[k].body) /\ request_.length > 0

\* Message k has been taken completely, and request_ has it.
AfterMessage(k, c) ==
    /\ k <= Len(sent) /\ sent[k].request # Malformed
    /\ c = End(k)
    /\ request_.line = sent[k].lines[1] /\ request_.body = sent[k].body

\* The parser's state says where in the current message it is.
ParserStands ==
    /\ state_ = "kExpectRequestLine" => BeforeMessage(Current, Consumed)
    /\ state_ = "kExpectHeaders" => AmongHeaders(Current, Consumed)
    /\ state_ = "kExpectBody" => BeforeBody(Current, Consumed)
    /\ state_ = "kGotAll" => pc = "parsed" /\ AfterMessage(Current, Consumed)

\* The requests handed over are the first messages, all well formed.
DeliveredAsSent ==
    /\ Len(delivered) <= Len(sent)
    /\ \A i \in 1..Len(delivered) :
          sent[i].request # Malformed /\ delivered[i] = sent[i].request

\* Once the connection is refused, a malformed message is to blame; before, the
\* parser stands where its state says, except for a content length it could not
\* read, and when it waits for input, some of the current message is missing.
CodecInv ==
    IF rejected THEN \E i \in 1..Len(sent) : sent[i].request = Malformed
    ELSE /\ DeliveredAsSent
         /\ pc = "invalid" => Current <= Len(sent) /\ sent[Current].request = Malformed
         /\ pc # "invalid" => ParserStands
         /\ pc = "poll" \/ (pc = "parsed" /\ state_ # "kGotAll") =>
               (Current <= Len(sent) => pos < End(Current))

\* The inductive invariant.
HttpInv == HttpBytesInv /\ CodecInv

\* The line that the parser finds is the one it is at.
LEMMA LineFound ==
  ASSUME HttpBytesInv, NEW k \in 1..Len(sent), NEW j \in 1..LineCount(k),
         Consumed = LineStart(k, j)
  PROVE  /\ HasCRLF(buf) => /\ Line = LineOf(sent[k], j)
                            /\ FindCRLF(buf) = Len(LineOf(sent[k], j))
                            /\ Consumed + (FindCRLF(buf) + 2) = LineStart(k, j + 1)
         /\ ~HasCRLF(buf) => pos < End(k)
         /\ Consumed < End(k)
  <1> DEFINE m == sent[k]
             line == LineOf(m, j)
             l == Len(line)
             c == Consumed
             r == ReadableBytes(buf)
             start == LineStart(k, j)
             next == LineStart(k, j + 1)
             end == End(k)
             body == Len(m.body)
  <1>1. sent \in Seq(Messages) /\ HoldsRest(buf, pos, Stream)
    BY DEF HttpBytesInv, HttpTypeOK
  <1>2. m \in Messages
    BY <1>1
  <1>3. Stream \in Seq(Bytes)
    BY <1>1, StreamLayout
  <1>4. LineCount(k) \in Nat \ {0} /\ LineCount(k) = Len(m.lines) + 1 /\ Len(m.lines) \in Nat
    BY <1>2, PiecesOfMessage DEF LineCount
  <1>5. line \in Seq(Bytes) /\ l \in Nat
    BY <1>2, <1>4, PiecesOfMessage
  <1>6. IsText(line)
    <2>1. CASE j = LineCount(k)
      <3>1. line = <<>>
        BY <1>2, <1>4, <2>1, PiecesOfMessage
      <3>2. <<>> \in Seq(Range(<<>>)) /\ Len(<<>>) = 0
        BY EmptySeq
      <3> QED
        BY <3>1, <3>2 DEF IsText, IsSeq
    <2>2. CASE j # LineCount(k)
      <3>1. j \in 1..Len(m.lines)
        BY <1>4, <2>2
      <3> QED
        BY <1>2, <3>1, PiecesOfMessage, MessageShape
    <2> QED
      BY <2>1, <2>2
  <1>7. /\ \A i \in 1..l : Stream[start + i] = line[i]
        /\ Stream[start + l + 1] = CR /\ Stream[start + l + 2] = LF
        /\ next = start + l + 2
    BY <1>1, LinesInStream
  <1>8. start \in Nat /\ next \in Nat /\ next + body <= end
    <2>1. j \in 1..(LineCount(k) + 1) /\ j + 1 \in 1..(LineCount(k) + 1)
      BY <1>4
    <2> QED
      BY <1>1, <2>1, LinesInStream
  <1>9. body \in Nat
    BY <1>2, MessageShape
  <1>10. end \in Nat
    <2>1. k \in 0..Len(sent)
      BY <1>1
    <2> QED
      BY <1>1, <2>1, StreamLayout
  <1>11. c = start /\ c = pos - r
    BY DEF Consumed
  <1>12. r \in Nat /\ pos \in Nat
    BY <1>1, <1>3, ReadableBytesOf DEF HoldsRest
  <1>13. Line = SubSeq(Readable(buf), 1, FindCRLF(buf))
    BY DEF Line
  <1> HIDE DEF m, line, l, c, r, start, next, end, body
  <1>14. LineAt(Stream, c, line)
    BY <1>7, <1>11 DEF LineAt, l
  <1>15. LineAt(Stream, pos - ReadableBytes(buf), line)
    BY <1>11, <1>14 DEF r
  <1>16. /\ HasCRLF(buf) <=> Len(line) + 2 <= ReadableBytes(buf)
         /\ HasCRLF(buf) => /\ FindCRLF(buf) = Len(line)
                            /\ SubSeq(Readable(buf), 1, Len(line)) = line
    BY <1>1, <1>3, <1>5, <1>6, <1>15, LineArrives
  <1>17. /\ HasCRLF(buf) <=> l + 2 <= r
         /\ HasCRLF(buf) => FindCRLF(buf) = l /\ Line = line
    BY <1>13, <1>16 DEF l, r
  <1>18. HasCRLF(buf) => c + (FindCRLF(buf) + 2) = next
    <2>1. HasCRLF(buf) => FindCRLF(buf) = l
      BY <1>17
    <2>2. c + (l + 2) = next
      BY <1>5, <1>7, <1>8, <1>11
    <2> QED
      BY <2>1, <2>2
  <1>19. ~HasCRLF(buf) => pos < end
    <2>1. ~HasCRLF(buf) => ~(l + 2 <= r)
      BY <1>17
    <2>2. /\ l \in Nat /\ start \in Nat /\ body \in Nat /\ end \in Nat /\ r \in Nat
          /\ pos \in Nat /\ start = pos - r /\ (start + l + 2) + body <= end
      BY <1>5, <1>7, <1>8, <1>9, <1>10, <1>11, <1>12
    <2> QED
      BY <2>1, <2>2
  <1>20. c < end
    BY <1>5, <1>7, <1>8, <1>9, <1>10, <1>11
  <1> QED
    BY <1>17, <1>18, <1>19, <1>20 DEF m, line, l, c, next, end

\* Beyond the last message there is nothing to find.
LEMMA NothingAfterLast ==
  ASSUME HttpBytesInv, NEW k \in Nat, k > Len(sent), Consumed = End(k - 1), k <= Len(sent) + 1
  PROVE  ~HasCRLF(buf) /\ ReadableBytes(buf) = 0
  <1>1. sent \in Seq(Messages) /\ HoldsRest(buf, pos, Stream) /\ ProperBuffer(buf)
    BY DEF HttpBytesInv, HttpTypeOK, HoldsRest
  <1>2. k - 1 = Len(sent) /\ End(k - 1) = Len(Stream) /\ Stream \in Seq(Bytes)
    <2>1. k - 1 = Len(sent)
      BY <1>1
    <2>2. End(Len(sent)) = Len(Stream) /\ Stream \in Seq(Bytes)
      BY <1>1, StreamLayout
    <2> QED
      BY <2>1, <2>2
  <1>3. ReadableBytes(buf) \in Nat /\ pos \in Nat /\ pos <= Len(Stream)
    BY <1>1, <1>2, ReadableBytesOf DEF HoldsRest
  <1>4. ReadableBytes(buf) = 0
    BY <1>2, <1>3 DEF Consumed
  <1>5. HasCRLF(buf) => FindCRLF(buf) \in Nat /\ FindCRLF(buf) + 2 <= ReadableBytes(buf)
    BY <1>1, FoundCRLF
  <1> QED
    BY <1>4, <1>5

\* What MessagesAssumption says of a message's request.
LEMMA RequestFromLines ==
  ASSUME NEW m \in Messages
  PROVE  LET n == Len(m.lines)
             length == DeclaredLength(m.lines, n)
         IN  /\ m.request # Malformed <=> GoodLines(m.lines, n) /\ length # Malformed
             /\ m.request # Malformed =>
                   /\ m.request = [line |-> m.lines[1], body |-> m.body]
                   /\ Len(m.body) = IF length = None \/ length < 0 THEN 0 ELSE length
  BY MessagesAssumption DEF IsMessage

\* The lines read so far and one more.
LEMMA OneMoreLine ==
  ASSUME NEW lines, NEW j \in Nat \ {0, 1}
  PROVE  /\ GoodLines(lines, j) <=> GoodLines(lines, j - 1) /\ HasColon(lines[j])
         /\ DeclaredLength(lines, j) =
              IF IsContentLength(lines[j]) THEN Lengths[lines[j][1]]
              ELSE DeclaredLength(lines, j - 1)
  <1>1. \A i : i \in 2..j <=> i \in 2..(j - 1) \/ i = j
    OBVIOUS
  <1>2. GoodLines(lines, j) <=> GoodLines(lines, j - 1) /\ HasColon(lines[j])
    BY <1>1 DEF GoodLines
  <1> DEFINE at(n) == {i \in 2..n : IsContentLength(lines[i])}
  <1>3. CASE IsContentLength(lines[j])
    <2>1. j \in at(j) /\ \A i \in at(j) : i \in Int /\ j >= i
      BY <1>1, <1>3
    <2>2. Max(at(j)) = j
      BY <2>1 DEF Max
    <2> QED
      BY <1>2, <1>3, <2>1, <2>2 DEF DeclaredLength
  <1>4. CASE ~IsContentLength(lines[j])
    <2>1. at(j) = at(j - 1)
      BY <1>1, <1>4
    <2> QED
      BY <1>2, <1>4, <2>1 DEF DeclaredLength
  <1> QED
    BY <1>3, <1>4

\* After the request line alone there is no content length.
LEMMA FirstLineOnly ==
  ASSUME NEW lines
  PROVE  /\ GoodLines(lines, 1) <=> ProcessRequestLine(lines[1])
         /\ DeclaredLength(lines, 1) = None
  <1>1. 2..1 = {}
    OBVIOUS
  <1> QED
    BY <1>1 DEF GoodLines, DeclaredLength

-----------------------------------------------------------------------------
(* The steps of parser and codec.                                          *)

\* A refused connection stays so.
LEMMA AfterRejection ==
  ASSUME CodecInv, rejected, sent' = sent, rejected' = TRUE
  PROVE  CodecInv'
  BY DEF CodecInv

\* A step that takes nothing and leaves the parser alone leaves it where it is.
LEMMA StandsStill ==
  ASSUME sent' = sent, delivered' = delivered, request_' = request_, state_' = state_,
         Consumed' = Consumed, ParserStands, state_ = "kGotAll" => pc' = "parsed"
  PROVE  ParserStands'
  <1>1. Current' = Current
    BY DEF Current
  <1>2. BeforeMessage(Current, Consumed) => BeforeMessage(Current, Consumed)'
    BY <1>1, SameMessages DEF BeforeMessage
  <1>3. AmongHeaders(Current, Consumed) => AmongHeaders(Current, Consumed)'
    BY <1>1, SameMessages DEF AmongHeaders
  <1>4. BeforeBody(Current, Consumed) => BeforeBody(Current, Consumed)'
    BY <1>1, SameMessages DEF BeforeBody
  <1>5. AfterMessage(Current, Consumed) => AfterMessage(Current, Consumed)'
    BY <1>1, SameMessages DEF AfterMessage
  <1> QED
    BY <1>2, <1>3, <1>4, <1>5 DEF ParserStands

\* A step that hands nothing over keeps what has been handed over.
LEMMA DeliveredStays ==
  ASSUME sent' = sent, delivered' = delivered, DeliveredAsSent
  PROVE  DeliveredAsSent' /\ Current' = Current /\ End(Current)' = End(Current)
  <1>1. Current' = Current
    BY DEF Current
  <1> QED
    BY <1>1, SameMessages DEF DeliveredAsSent

\* As long as the parser is in a message, there is something left of it.
LEMMA SomethingLeft ==
  ASSUME HttpBytesInv, DeliveredAsSent, ParserStands, state_ # "kGotAll", Current <= Len(sent)
  PROVE  Consumed < End(Current)
  <1>1. Current \in 1..Len(sent) /\ sent \in Seq(Messages)
    BY DEF Current, HttpBytesInv, HttpTypeOK
  <1>2. LineCount(Current) \in Nat \ {0} /\ LineStart(Current, 1) = End(Current - 1)
    BY <1>1, LinesInStream
  <1>3. CASE state_ = "kExpectRequestLine"
    <2>1. 1 \in 1..LineCount(Current) /\ Consumed = LineStart(Current, 1)
      BY <1>2, <1>3 DEF ParserStands, BeforeMessage
    <2> QED
      BY <1>1, <2>1, LineFound
  <1>4. CASE state_ = "kExpectHeaders"
    <2>1. PICK j \in 2..LineCount(Current) : Consumed = LineStart(Current, j)
      BY <1>4 DEF ParserStands, AmongHeaders
    <2>2. j \in 1..LineCount(Current)
      BY <1>2
    <2> QED
      BY <1>1, <2>1, <2>2, LineFound
  <1>5. CASE state_ = "kExpectBody"
    <2> DEFINE body == Len(sent[Current].body)
    <2>1. body > 0 /\ Consumed + body = End(Current)
      BY <1>5 DEF ParserStands, BeforeBody
    <2>2. body \in Nat
      BY <1>1, MessageShape
    <2>3. End(Current) \in Nat
      BY <1>1, StreamLayout
    <2>4. Consumed \in Int
      <3>1. pos \in Nat /\ ReadableBytes(buf) \in Nat
        BY <1>1, ReadableBytesOf, StreamLayout DEF HttpBytesInv, HoldsRest
      <3> QED
        BY <3>1 DEF Consumed
    <2> HIDE DEF body
    <2> QED
      BY <2>1, <2>2, <2>3, <2>4
  <1> QED
    BY <1>3, <1>4, <1>5 DEF HttpBytesInv, HttpTypeOK, ParseStates

\* A new connection is before its first message.
LEMMA CodecStart ==
  HttpInit => CodecInv
  <1> SUFFICES ASSUME HttpInit
               PROVE  CodecInv
    OBVIOUS
  <1>1. sent \in Seq(Messages) /\ HttpBytesInv
    BY HttpTypesStart DEF HttpBytesInv, HttpTypeOK
  <1>2. Len(delivered) = 0 /\ Current = 1 /\ Len(sent) \in Nat
    BY <1>1 DEF HttpInit, Current
  <1>3. Consumed = 0 /\ End(0) = 0
    BY <1>1, StreamLayout DEF HttpInit, Consumed, NewBuffer, ReadableBytes
  <1>4. DeliveredAsSent
    BY <1>2 DEF DeliveredAsSent
  <1>5. ParserStands
    BY <1>2, <1>3 DEF HttpInit, ParserStands, BeforeMessage
  <1>6. Current <= Len(sent) => pos < End(Current)
    <2>1. Current <= Len(sent) => Consumed < End(Current)
      BY <1>1, <1>4, <1>5, SomethingLeft DEF HttpInit
    <2> QED
      BY <1>3, <2>1 DEF HttpInit
  <1> QED
    BY <1>4, <1>5, <1>6 DEF HttpInit, CodecInv

\* Reading changes neither the parser nor what it has consumed.
LEMMA ReadKeepsCodec ==
  ASSUME HttpInv, NEW n \in 1..Len(Stream), Read(n)
  PROVE  CodecInv'
  <1>1. sent' = sent /\ delivered' = delivered /\ request_' = request_ /\ state_' = state_
        /\ rejected' = rejected /\ pc = "poll" /\ pc' = "codec"
    BY DEF Read
  <1>2. CASE rejected
    BY <1>1, <1>2, AfterRejection DEF HttpInv, HttpBytesInv, HttpTypeOK
  <1>3. CASE ~rejected
    <2>1. DeliveredAsSent /\ ParserStands
      BY <1>1, <1>3 DEF HttpInv, CodecInv
    <2>2. Consumed' = Consumed
      BY ReadKeepsBytes DEF HttpInv, Consumed
    <2>3. ParserStands'
      BY <1>1, <2>1, <2>2, StandsStill DEF ParserStands
    <2> QED
      BY <1>1, <1>3, <2>1, <2>3, DeliveredStays DEF CodecInv
  <1> QED
    BY <1>2, <1>3

\* OnMessage enters ParseRequest with bytes to look at, or returns.
LEMMA CodecLoopKeepsCodec ==
  ASSUME HttpInv, CodecLoop
  PROVE  CodecInv'
  <1>1. /\ sent' = sent /\ delivered' = delivered /\ request_' = request_ /\ state_' = state_
        /\ rejected' = rejected /\ pos' = pos /\ buf' = buf /\ pc = "codec"
        /\ pc' = IF ReadableBytes(buf) > 0 THEN "parse" ELSE "poll"
    BY DEF CodecLoop
  <1>2. CASE rejected
    BY <1>1, <1>2, AfterRejection DEF HttpInv, HttpBytesInv, HttpTypeOK
  <1>3. CASE ~rejected
    <2>1. DeliveredAsSent /\ ParserStands /\ state_ # "kGotAll"
      BY <1>1, <1>3 DEF HttpInv, CodecInv, ParserStands
    <2>2. Consumed' = Consumed
      BY <1>1 DEF Consumed
    <2>3. ParserStands'
      BY <1>1, <2>1, <2>2, StandsStill
    <2>4. ASSUME pc' = "poll", Current <= Len(sent)
          PROVE  pos < End(Current)
      <3>1. ReadableBytes(buf) \in Nat /\ pos \in Nat
        BY ReadableBytesOf, StreamLayout DEF HttpInv, HttpBytesInv, HoldsRest, HttpTypeOK
      <3>2. ReadableBytes(buf) = 0 /\ Consumed = pos
        BY <1>1, <2>4, <3>1 DEF Consumed
      <3>3. Consumed < End(Current)
        BY <2>1, <2>4, SomethingLeft DEF HttpInv
      <3> QED
        BY <3>2, <3>3
    <2> QED
      BY <1>1, <1>3, <2>1, <2>3, <2>4, DeliveredStays DEF CodecInv
  <1> QED
    BY <1>2, <1>3

\* OnMessage returns when half of a message is there.
LEMMA HalfMessageKeepsCodec ==
  ASSUME HttpInv, HalfMessage
  PROVE  CodecInv'
  <1>1. /\ sent' = sent /\ delivered' = delivered /\ request_' = request_ /\ state_' = state_
        /\ rejected' = rejected /\ pos' = pos /\ buf' = buf
        /\ pc = "parsed" /\ pc' = "poll" /\ state_ # "kGotAll"
    BY DEF HalfMessage
  <1>2. CASE rejected
    BY <1>1, <1>2, AfterRejection DEF HttpInv, HttpBytesInv, HttpTypeOK
  <1>3. CASE ~rejected
    <2>1. /\ DeliveredAsSent /\ ParserStands
          /\ Current <= Len(sent) => pos < End(Current)
      BY <1>1, <1>3 DEF HttpInv, CodecInv
    <2>2. Consumed' = Consumed
      BY <1>1 DEF Consumed
    <2>3. ParserStands'
      BY <1>1, <2>1, <2>2, StandsStill
    <2> QED
      BY <1>1, <1>3, <2>1, <2>3, DeliveredStays DEF CodecInv
  <1> QED
    BY <1>2, <1>3

\* OnMessage refuses the connection because of a malformed message.
LEMMA BadRequestKeepsCodec ==
  ASSUME HttpInv, BadRequest
  PROVE  CodecInv'
  <1>1. sent' = sent /\ rejected' = TRUE /\ pc = "invalid"
    BY DEF BadRequest
  <1>2. CASE rejected
    BY <1>1, <1>2, AfterRejection DEF HttpInv
  <1>3. CASE ~rejected
    <2>1. Current <= Len(sent) /\ sent[Current].request = Malformed
      BY <1>1, <1>3 DEF HttpInv, CodecInv
    <2>2. Current \in 1..Len(sent)
      BY <2>1 DEF Current, HttpInv, HttpBytesInv, HttpTypeOK
    <2> QED
      BY <1>1, <2>1, <2>2 DEF CodecInv
  <1> QED
    BY <1>2, <1>3

\* OnMessage hands over the request that was sent, and Reset puts the parser
\* before the next message.
LEMMA GotAllKeepsCodec ==
  ASSUME HttpInv, GotAll
  PROVE  CodecInv'
  <1>1. /\ sent' = sent /\ rejected' = rejected /\ pos' = pos /\ buf' = buf
        /\ pc = "parsed" /\ state_ = "kGotAll" /\ pc' = "codec"
        /\ state_' = "kExpectRequestLine" /\ request_' = NoRequest
        /\ delivered' = Append(delivered, [line |-> request_.line, body |-> request_.body])
    BY DEF GotAll, Reset
  <1>2. CASE rejected
    BY <1>1, <1>2, AfterRejection DEF HttpInv, HttpBytesInv, HttpTypeOK
  <1>3. CASE ~rejected
    <2> DEFINE k == Current
               got == [line |-> request_.line, body |-> request_.body]
    <2>1. DeliveredAsSent /\ AfterMessage(k, Consumed)
      BY <1>1, <1>3 DEF HttpInv, CodecInv, ParserStands
    <2>2. /\ delivered \in Seq(Requests) /\ got \in Requests /\ sent \in Seq(Messages)
      BY DEF HttpInv, HttpBytesInv, HttpTypeOK, Requests
    <2>3. /\ Len(delivered) \in Nat /\ k = Len(delivered) + 1 /\ k \in 1..Len(sent)
      BY <2>1, <2>2 DEF AfterMessage, Current
    <2>4. /\ Len(delivered') = k
          /\ \A i \in 1..Len(delivered) : delivered'[i] = delivered[i]
          /\ delivered'[k] = got
      BY <1>1, <2>2, <2>3, AppendProperties
    <2>5. sent[k].request # Malformed /\ sent[k].request = got
      <3>1. sent[k] \in Messages
        BY <2>2, <2>3
      <3> QED
        BY <2>1, <3>1, RequestFromLines DEF AfterMessage
    <2>6. Current' = k + 1 /\ Consumed' = Consumed /\ End(k) = Consumed
      BY <1>1, <2>1, <2>4 DEF Current, Consumed, AfterMessage
    <2> HIDE DEF k, got
    <2>7. \A i \in 1..k : i \in 1..Len(delivered) \/ i = k
      BY <2>3
    <2>8. DeliveredAsSent'
      <3>1. Len(delivered') <= Len(sent)
        BY <2>3, <2>4
      <3>2. ASSUME NEW i \in 1..Len(delivered')
            PROVE  sent[i].request # Malformed /\ delivered'[i] = sent[i].request
        <4>1. i \in 1..Len(delivered) \/ i = k
          BY <2>4, <2>7
        <4>2. CASE i = k
          BY <2>4, <2>5, <4>2
        <4>3. CASE i \in 1..Len(delivered)
          BY <2>1, <2>4, <4>3 DEF DeliveredAsSent
        <4> QED
          BY <4>1, <4>2, <4>3
      <3> QED
        BY <1>1, <3>1, <3>2 DEF DeliveredAsSent
    <2>9. BeforeMessage(Current, Consumed)'
      <3>1. (Current' - 1) = k
        BY <2>3, <2>6
      <3> QED
        BY <1>1, <2>6, <3>1, SameMessages DEF BeforeMessage
    <2>10. ParserStands'
      BY <1>1, <2>9 DEF ParserStands
    <2> QED
      BY <1>1, <1>3, <2>8, <2>10 DEF CodecInv
  <1> QED
    BY <1>2, <1>3

\* Where the parser stands, as a message of those that were sent.
LEMMA CurrentMessage ==
  ASSUME HttpInv, Current <= Len(sent)
  PROVE  /\ Current \in 1..Len(sent) /\ Current \in Nat \ {0}
         /\ sent \in Seq(Messages) /\ sent[Current] \in Messages
         /\ Len(sent[Current].lines) \in Nat \ {0}
         /\ LineCount(Current) = Len(sent[Current].lines) + 1
         /\ LineStart(Current, 1) = End(Current - 1)
         /\ LineStart(Current, LineCount(Current) + 1) + Len(sent[Current].body) = End(Current)
  <1>1. sent \in Seq(Messages) /\ delivered \in Seq(Requests)
    BY DEF HttpInv, HttpBytesInv, HttpTypeOK
  <1>2. Current \in 1..Len(sent) /\ Current \in Nat \ {0}
    BY <1>1 DEF Current
  <1>3. sent[Current] \in Messages
    BY <1>1, <1>2
  <1>4. Len(sent[Current].lines) \in Nat \ {0}
    BY <1>3, PiecesOfMessage
  <1> QED
    BY <1>1, <1>2, <1>3, <1>4, LinesInStream DEF LineCount

\* The request line: half of it, a malformed one, a good one.
LEMMA RequestLineKeepsCodec ==
  ASSUME HttpInv, ExpectRequestLine
  PROVE  CodecInv'
  <1>1. /\ sent' = sent /\ delivered' = delivered /\ rejected' = rejected /\ pos' = pos
        /\ pc = "parse" /\ state_ = "kExpectRequestLine"
    BY DEF ExpectRequestLine
  <1>2. CASE rejected
    BY <1>1, <1>2, AfterRejection DEF HttpInv, HttpBytesInv, HttpTypeOK
  <1>3. CASE ~rejected
    <2> DEFINE k == Current
               m == sent[k]
    <2>1. /\ DeliveredAsSent /\ ParserStands
          /\ Consumed = End(Current - 1) /\ request_ = NoRequest
      BY <1>1, <1>3 DEF HttpInv, CodecInv, ParserStands, BeforeMessage
    <2>2. HttpBytesInv /\ sent \in Seq(Messages) /\ delivered \in Seq(Requests)
      BY DEF HttpInv, HttpBytesInv, HttpTypeOK
    <2>3. k \in Nat /\ k <= Len(sent) + 1 /\ Len(sent) \in Nat
      BY <2>1, <2>2 DEF DeliveredAsSent, Current
    <2>4. CASE ~HasCRLF(buf)
      <3>1. pc' = "parsed" /\ buf' = buf /\ state_' = state_ /\ request_' = request_
        BY <2>4 DEF ExpectRequestLine
      <3>2. Consumed' = Consumed
        BY <1>1, <3>1 DEF Consumed
      <3>3. ParserStands'
        BY <1>1, <2>1, <3>1, <3>2, StandsStill
      <3>4. ASSUME Current <= Len(sent)
            PROVE  pos < End(Current)
        <4>1. Current \in 1..Len(sent) /\ LineCount(Current) \in Nat \ {0}
              /\ Consumed = LineStart(Current, 1)
          BY <2>1, <3>4, CurrentMessage
        <4>2. 1 \in 1..LineCount(Current)
          BY <4>1
        <4> QED
          BY <2>2, <2>4, <4>1, <4>2, LineFound
      <3> QED
        BY <1>1, <1>3, <2>1, <3>1, <3>3, <3>4, DeliveredStays DEF CodecInv
    <2>5. CASE HasCRLF(buf)
      <3>1. Current <= Len(sent)
        BY <2>1, <2>2, <2>3, <2>5, NothingAfterLast
      <3>2. /\ k \in 1..Len(sent) /\ m \in Messages
            /\ Len(m.lines) \in Nat \ {0} /\ LineCount(k) = Len(m.lines) + 1
            /\ Consumed = LineStart(k, 1)
        BY <2>1, <3>1, CurrentMessage
      <3>3. 1 \in 1..LineCount(k) /\ 2 \in 2..LineCount(k) /\ 1 \in 1..Len(m.lines)
        BY <3>2
      <3>4. /\ Line = LineOf(m, 1)
            /\ Consumed + (FindCRLF(buf) + 2) = LineStart(k, 1 + 1)
        BY <2>2, <2>5, <3>2, <3>3, LineFound
      <3>5. Line = m.lines[1]
        BY <3>2, <3>3, <3>4, PiecesOfMessage
      <3>6. CASE ~ProcessRequestLine(Line)
        <4>1. pc' = "invalid"
          BY <2>5, <3>6 DEF ExpectRequestLine
        <4>2. ~GoodLines(m.lines, Len(m.lines))
          BY <3>5, <3>6 DEF GoodLines
        <4>3. m.request = Malformed
          BY <3>2, <4>2, RequestFromLines
        <4> QED
          BY <1>1, <1>3, <2>1, <3>1, <4>1, <4>3, DeliveredStays DEF CodecInv
      <3>7. CASE ProcessRequestLine(Line)
        <4>1. /\ request_' = [request_ EXCEPT !.line = Line]
              /\ buf' = RetrieveUntil(buf, FindCRLF(buf))
              /\ state_' = "kExpectHeaders" /\ pc' = pc
          BY <2>5, <3>7 DEF ExpectRequestLine
        <4>2. /\ request_'.line = m.lines[1] /\ request_'.length = None /\ request_'.body = <<>>
          BY <2>1, <3>5, <4>1 DEF NoRequest
        <4>3. Consumed' = LineStart(k, 2)
          <5>1. /\ FindCRLF(buf) \in Nat
                /\ ReadableBytes(buf') = ReadableBytes(buf) - (FindCRLF(buf) + 2)
            BY <2>2, <2>5, <4>1, LineOfBuffer
          <5>2. pos \in Nat /\ ReadableBytes(buf) \in Nat
            BY <2>2, ReadableBytesOf, StreamLayout DEF HttpBytesInv, HoldsRest
          <5>3. Consumed' = Consumed + (FindCRLF(buf) + 2)
            BY <1>1, <5>1, <5>2 DEF Consumed
          <5> QED
            BY <3>4, <5>3
        <4>4. GoodLines(m.lines, 2 - 1) /\ DeclaredLength(m.lines, 2 - 1) = None
          BY <3>5, <3>7, FirstLineOnly
        <4>5. AmongHeaders(Current, Consumed)'
          <5>1. Current' = Current
            BY <1>1 DEF Current
          <5> QED
            BY <1>1, <3>1, <3>3, <4>2, <4>3, <4>4, <5>1, SameMessages DEF AmongHeaders
        <4>6. ParserStands'
          BY <4>1, <4>5 DEF ParserStands
        <4> QED
          BY <1>1, <1>3, <2>1, <4>1, <4>6, DeliveredStays DEF CodecInv
      <3> QED
        BY <3>6, <3>7
    <2> QED
      BY <2>4, <2>5
  <1> QED
    BY <1>2, <1>3

\* A line that has been found without a colon makes the message malformed.
LEMMA BadHeader ==
  ASSUME NEW m \in Messages, NEW j \in 2..Len(m.lines), ~HasColon(m.lines[j])
  PROVE  m.request = Malformed
  <1>1. ~GoodLines(m.lines, Len(m.lines))
    BY DEF GoodLines
  <1> QED
    BY <1>1, RequestFromLines

\* A header, or the empty line, after which there is a body, none, or a length
\* that could not be read.
LEMMA HeadersKeepCodec ==
  ASSUME HttpInv, ExpectHeaders
  PROVE  CodecInv'
  <1>1. /\ sent' = sent /\ delivered' = delivered /\ rejected' = rejected /\ pos' = pos
        /\ pc = "parse" /\ state_ = "kExpectHeaders"
    BY DEF ExpectHeaders
  <1>2. CASE rejected
    BY <1>1, <1>2, AfterRejection DEF HttpInv, HttpBytesInv, HttpTypeOK
  <1>3. CASE ~rejected
    <2> DEFINE k == Current
               m == sent[k]
               n == Len(m.lines)
    <2>1. DeliveredAsSent /\ ParserStands /\ AmongHeaders(Current, Consumed)
      BY <1>1, <1>3 DEF HttpInv, CodecInv, ParserStands
    <2>2. HttpBytesInv
      BY DEF HttpInv
    <2>3. PICK j \in 2..LineCount(k) :
            /\ Consumed = LineStart(k, j)
            /\ request_.line = m.lines[1] /\ request_.body = <<>>
            /\ request_.length = DeclaredLength(m.lines, j - 1)
            /\ GoodLines(m.lines, j - 1)
      BY <2>1 DEF AmongHeaders
    <2>4. /\ Current <= Len(sent) /\ k \in 1..Len(sent) /\ m \in Messages
          /\ n \in Nat \ {0} /\ LineCount(k) = n + 1
          /\ LineStart(k, LineCount(k) + 1) + Len(m.body) = End(k)
      BY <2>1, CurrentMessage DEF AmongHeaders
    <2>5. j \in 1..LineCount(k) /\ j \in Nat \ {0, 1} /\ (j \in 2..n \/ j = n + 1) /\ j - 1 \in Nat
      BY <2>4
    <2>6. CASE ~HasCRLF(buf)
      <3>1. pc' = "parsed" /\ buf' = buf /\ state_' = state_ /\ request_' = request_
        BY <2>6 DEF ExpectHeaders
      <3>2. Consumed' = Consumed
        BY <1>1, <3>1 DEF Consumed
      <3>3. ParserStands'
        BY <1>1, <2>1, <3>1, <3>2, StandsStill
      <3>4. pos < End(Current)
        BY <2>2, <2>3, <2>4, <2>5, <2>6, LineFound
      <3> QED
        BY <1>1, <1>3, <2>1, <3>1, <3>3, <3>4, DeliveredStays DEF CodecInv
    <2>7. CASE HasCRLF(buf)
      <3>1. /\ Line = LineOf(m, j)
            /\ Consumed + (FindCRLF(buf) + 2) = LineStart(k, j + 1)
        BY <2>2, <2>3, <2>4, <2>5, <2>7, LineFound
      <3>2. Consumed' = LineStart(k, j + 1)
        <4>1. /\ FindCRLF(buf) \in Nat
              /\ ReadableBytes(buf') = ReadableBytes(buf) - (FindCRLF(buf) + 2)
          BY <2>2, <2>7, LineOfBuffer DEF ExpectHeaders
        <4>2. pos \in Nat /\ ReadableBytes(buf) \in Nat
          BY <2>2, ReadableBytesOf, StreamLayout DEF HttpBytesInv, HttpTypeOK, HoldsRest
        <4>3. Consumed' = Consumed + (FindCRLF(buf) + 2)
          BY <1>1, <4>1, <4>2 DEF Consumed
        <4> QED
          BY <3>1, <4>3
      <3>3. Current' = Current /\ DeliveredAsSent'
        BY <1>1, <2>1, DeliveredStays
      <3>4. CASE j = n + 1
        <4>1. Line = <<>>
          BY <2>4, <3>1, <3>4, PiecesOfMessage
        <4>2. /\ state_' = AfterHeaders(request_.length).state
              /\ pc' = AfterHeaders(request_.length).pc
              /\ request_' = request_
          BY <2>7, <4>1 DEF ExpectHeaders
        <4> DEFINE length == DeclaredLength(m.lines, n)
                   size == Len(m.body)
        <4>3. request_.length = length /\ GoodLines(m.lines, n)
          <5>1. j - 1 = n
            BY <2>4, <3>4
          <5> QED
            BY <2>3, <5>1
        <4>4. length \in LengthValues
          BY <2>2, <4>3 DEF HttpBytesInv, HttpTypeOK
        <4>5. /\ m.request # Malformed <=> length # Malformed
              /\ m.request # Malformed => size = IF length = None \/ length < 0 THEN 0 ELSE length
          BY <2>4, <4>3, RequestFromLines
        <4>6. Consumed' + size = End(k) /\ size \in Nat /\ End(k) \in Nat /\ Consumed' \in Int
          <5>1. Consumed' + size = End(k)
            BY <2>4, <3>2, <3>4
          <5>2. size \in Nat
            BY <2>4, MessageShape
          <5>3. k \in 0..Len(sent) /\ sent \in Seq(Messages)
            BY <2>4, CurrentMessage
          <5>4. End(k) \in Nat
            BY <5>3, StreamLayout
          <5>5. LineCount(k) + 1 \in 1..(LineCount(k) + 1)
            BY <2>4
          <5>6. LineStart(k, LineCount(k) + 1) \in Nat
            BY <2>4, <5>3, <5>5, LinesInStream
          <5> QED
            BY <2>4, <3>2, <3>4, <5>1, <5>2, <5>4, <5>6
        <4> HIDE DEF length, size
        <4>7. None \notin Int /\ Malformed \notin Int /\ None # Malformed
          BY ConstantsAssumption
        <4>8. CASE length = Malformed
          <5>1. pc' = "invalid"
            BY <4>2, <4>3, <4>4, <4>7, <4>8, AfterHeadersCases
          <5> QED
            BY <1>1, <1>3, <2>4, <3>3, <4>5, <4>8, <5>1 DEF CodecInv
        <4>9. CASE length \in Nat /\ length > 0
          <5>1. state_' = "kExpectBody" /\ pc' = "parse"
            BY <4>2, <4>3, <4>4, <4>7, <4>9, AfterHeadersCases
          <5>2. size = length /\ m.request # Malformed
            BY <4>5, <4>7, <4>9
          <5>3. BeforeBody(Current, Consumed)'
            BY <1>1, <2>3, <2>4, <3>3, <4>2, <4>3, <4>6, <4>9, <5>2, SameMessages
               DEF BeforeBody, size
          <5>4. ParserStands'
            BY <5>1, <5>3 DEF ParserStands
          <5> QED
            BY <1>1, <1>3, <3>3, <5>1, <5>4 DEF CodecInv
        <4>10. CASE length # Malformed /\ ~(length \in Nat /\ length > 0)
          <5>1. state_' = "kGotAll" /\ pc' = "parsed"
            BY <4>2, <4>3, <4>4, <4>7, <4>10, AfterHeadersCases
          <5>2. size = 0 /\ m.request # Malformed
            <6>1. length = None \/ length \in {-1, 0}
              BY <4>4, <4>10 DEF LengthValues
            <6> QED
              BY <4>5, <4>7, <4>10, <6>1
          <5>3. m.body = <<>>
            BY <2>4, <5>2, MessageShape, EmptySeq DEF size
          <5>4. Consumed' = End(k)
            BY <4>6, <5>2
          <5>5. AfterMessage(Current, Consumed)'
            BY <1>1, <2>3, <2>4, <3>3, <4>2, <5>2, <5>3, <5>4, SameMessages DEF AfterMessage
          <5>6. ParserStands'
            BY <5>1, <5>5 DEF ParserStands
          <5> QED
            BY <1>1, <1>3, <3>3, <5>1, <5>6 DEF CodecInv
        <4> QED
          BY <4>8, <4>9, <4>10
      <3>5. CASE j \in 2..n
        <4>1. j \in 1..n
          BY <3>5
        <4>2. Line = m.lines[j] /\ Line # <<>>
          BY <2>4, <3>1, <3>5, <4>1, PiecesOfMessage, MessageShape
        <4>3. /\ request_' = IF IsContentLength(Line)
                             THEN [request_ EXCEPT !.length = Lengths[Line[1]]]
                             ELSE request_
              /\ pc' = IF HasColon(Line) THEN "parse" ELSE "invalid"
              /\ state_' = state_
          BY <2>7, <4>2 DEF ExpectHeaders
        <4>4. CASE ~HasColon(Line)
          <5>1. m.request = Malformed
            BY <2>4, <3>5, <4>2, <4>4, BadHeader
          <5> QED
            BY <1>1, <1>3, <2>4, <3>3, <4>3, <4>4, <5>1 DEF CodecInv
        <4>5. CASE HasColon(Line)
          <5>1. /\ GoodLines(m.lines, j)
                /\ DeclaredLength(m.lines, j) =
                     IF IsContentLength(Line) THEN Lengths[Line[1]]
                     ELSE DeclaredLength(m.lines, j - 1)
            BY <2>3, <2>5, <4>2, <4>5, OneMoreLine
          <5>2. request_ \in [line : Seq(Bytes), length : LengthValues, body : Seq(Bytes)]
            BY <2>2 DEF HttpBytesInv, HttpTypeOK
          <5>3. /\ request_'.line = request_.line /\ request_'.body = request_.body
                /\ request_'.length = IF IsContentLength(Line) THEN Lengths[Line[1]] ELSE request_.length
            BY <4>3, <5>2
          <5>4. j + 1 \in 2..LineCount(k) /\ (j + 1) - 1 = j
            BY <2>4, <2>5, <3>5
          <5>5. /\ request_'.line = m.lines[1] /\ request_'.body = <<>>
                /\ request_'.length = DeclaredLength(m.lines, (j + 1) - 1)
                /\ GoodLines(m.lines, (j + 1) - 1)
            BY <2>3, <5>1, <5>3, <5>4
          <5>6. AmongHeaders(Current, Consumed)'
            BY <1>1, <2>4, <3>2, <3>3, <5>4, <5>5, SameMessages DEF AmongHeaders
          <5>7. ParserStands'
            BY <1>1, <4>3, <5>6 DEF ParserStands
          <5> QED
            BY <1>1, <1>3, <3>3, <4>3, <4>5, <5>7 DEF CodecInv
        <4> QED
          BY <4>4, <4>5
      <3> QED
        BY <2>5, <3>4, <3>5
    <2> QED
      BY <2>6, <2>7
  <1> QED
    BY <1>2, <1>3

\* The body: half of it, or all.
LEMMA BodyKeepsCodec ==
  ASSUME HttpInv, ExpectBody
  PROVE  CodecInv'
  <1>1. /\ sent' = sent /\ delivered' = delivered /\ rejected' = rejected /\ pos' = pos
        /\ pc = "parse" /\ state_ = "kExpectBody" /\ pc' = "parsed"
    BY DEF ExpectBody
  <1>2. CASE rejected
    BY <1>1, <1>2, AfterRejection DEF HttpInv, HttpBytesInv, HttpTypeOK
  <1>3. CASE ~rejected
    <2> DEFINE k == Current
               m == sent[k]
               size == Len(m.body)
               read == Readable(buf)
    <2>1. DeliveredAsSent /\ ParserStands /\ BeforeBody(Current, Consumed)
      BY <1>1, <1>3 DEF HttpInv, CodecInv, ParserStands
    <2>2. HttpBytesInv /\ HoldsRest(buf, pos, Stream)
      BY DEF HttpInv, HttpBytesInv
    <2>3. /\ Current <= Len(sent) /\ k \in 1..Len(sent) /\ m \in Messages /\ sent \in Seq(Messages)
          /\ LineStart(k, LineCount(k) + 1) + size = End(k)
      BY <2>1, CurrentMessage DEF BeforeBody
    <2>4. /\ m.request # Malformed /\ Consumed + size = End(k)
          /\ request_.line = m.lines[1] /\ request_.length = size /\ size > 0
      BY <2>1 DEF BeforeBody
    <2>5. size \in Nat /\ End(k) \in Nat /\ m.body \in Seq(Bytes)
      <3>1. k \in 0..Len(sent)
        BY <2>3
      <3>2. End(k) \in Nat
        BY <2>3, <3>1, StreamLayout
      <3>3. m.body \in Seq(Bytes)
        BY <2>3, MessageShape
      <3> QED
        BY <3>2, <3>3
    <2>6. Stream \in Seq(Bytes)
      BY <2>3, StreamLayout
    <2>7. /\ pos \in Nat /\ ReadableBytes(buf) \in Nat
          /\ \A i \in 1..ReadableBytes(buf) : read[i] = Stream[Consumed + i]
      BY <2>2, <2>6, ReadableBytesOf DEF HoldsRest, Consumed
    <2>8. CASE ~(ReadableBytes(buf) >= request_.length)
      <3>1. buf' = buf /\ state_' = state_ /\ request_' = request_
        BY <2>8 DEF ExpectBody
      <3>2. Consumed' = Consumed
        BY <1>1, <3>1 DEF Consumed
      <3>3. ParserStands'
        BY <1>1, <2>1, <3>1, <3>2, StandsStill
      <3>4. pos < End(Current)
        <4>1. ReadableBytes(buf) < size
          BY <2>4, <2>5, <2>7, <2>8
        <4>2. pos = Consumed + ReadableBytes(buf)
          BY <2>7 DEF Consumed
        <4>3. Consumed \in Int
          BY <2>7 DEF Consumed
        <4> HIDE DEF k, m, size
        <4>4. pos < End(k)
          BY <2>4, <2>5, <2>7, <4>1, <4>2, <4>3
        <4> QED
          BY <4>4 DEF k
      <3> QED
        BY <1>1, <1>3, <2>1, <3>1, <3>3, <3>4, DeliveredStays DEF CodecInv
    <2>9. CASE ReadableBytes(buf) >= request_.length
      <3>1. /\ request_' = [request_ EXCEPT !.body = SubSeq(read, 1, request_.length)]
            /\ state_' = "kGotAll"
        BY <2>9 DEF ExpectBody
      <3>2. Consumed' = End(k)
        <4>1. ReadableBytes(buf') = ReadableBytes(buf) - size
          BY <2>2, <2>4, <2>9, BodyKeepsBytes
        <4>2. Consumed' = Consumed + size
          BY <1>1, <2>5, <2>7, <4>1 DEF Consumed
        <4> QED
          BY <2>4, <4>2
      <3>3. SubSeq(read, 1, size) = m.body
        <4> DEFINE start == LineStart(k, LineCount(k) + 1)
        <4>1. \A i \in 1..size : Stream[start + i] = m.body[i]
          BY <2>3, LinesInStream
        <4>2. start = Consumed
          <5> DEFINE last == LineCount(k) + 1
          <5>1. LineCount(k) \in Nat \ {0}
            BY <2>3, LinesInStream
          <5>2. last \in 1..(LineCount(k) + 1)
            BY <5>1
          <5>3. start \in Nat
            <6>1. \A j \in 1..(LineCount(k) + 1) : LineStart(k, j) \in Nat
              BY <2>3, LinesInStream
            <6> QED
              BY <5>2, <6>1
          <5>4. Consumed \in Int
            BY <2>7 DEF Consumed
          <5>5. start + size = End(k)
            BY <2>3
          <5> HIDE DEF start, size, k, m
          <5> QED
            BY <2>4, <2>5, <5>3, <5>4, <5>5
        <4>3. size <= ReadableBytes(buf)
          BY <2>4, <2>5, <2>7, <2>9
        <4>4. \A i \in 1..size : read[i] = m.body[i]
          <5> HIDE DEF start, size, k, m, read
          <5> TAKE i \in 1..size
          <5>1. i \in 1..ReadableBytes(buf)
            BY <2>5, <2>7, <4>3
          <5> QED
            BY <2>7, <4>1, <4>2, <5>1
        <4>5. \A i \in 1..size : read[i] \in Bytes
          BY <2>5, <4>4
        <4> DEFINE body == m.body
        <4>6. body \in Seq(Bytes) /\ Len(body) = size /\ size \in Nat
          BY <2>5
        <4> HIDE DEF size, read, body
        <4>7. /\ SubSeq(read, 1, size) \in Seq(Bytes)
              /\ Len(SubSeq(read, 1, size)) = IF 1 <= size THEN size - 1 + 1 ELSE 0
              /\ \A i \in 1..(size - 1 + 1) : SubSeq(read, 1, size)[i] = read[1 + i - 1]
          BY <4>5, <4>6, SubSeqProperties
        <4>8. size - 1 + 1 = size /\ (1 <= size <=> size # 0) /\ \A i \in 1..size : 1 + i - 1 = i
          BY <4>6
        <4>9. Len(SubSeq(read, 1, size)) = size
              /\ \A i \in 1..size : SubSeq(read, 1, size)[i] = body[i]
          BY <4>4, <4>7, <4>8 DEF body
        <4>10. SubSeq(read, 1, size) = body
          BY <4>6, <4>7, <4>9, SeqEqual
        <4> QED
          BY <4>10 DEF body
      <3>4. request_ \in [line : Seq(Bytes), length : LengthValues, body : Seq(Bytes)]
        BY <2>2 DEF HttpBytesInv, HttpTypeOK
      <3>5. request_'.line = m.lines[1] /\ request_'.body = m.body
        <4>1. request_'.line = request_.line /\ request_'.body = SubSeq(read, 1, request_.length)
          BY <3>1, <3>4
        <4> QED
          BY <2>4, <3>3, <4>1
      <3>6. AfterMessage(Current, Consumed)'
        <4>1. Current' = Current
          BY <1>1 DEF Current
        <4> QED
          BY <1>1, <2>3, <2>4, <3>2, <3>5, <4>1, SameMessages DEF AfterMessage
      <3>7. ParserStands'
        BY <1>1, <3>1, <3>6 DEF ParserStands
      <3> QED
        BY <1>1, <1>3, <2>1, <3>1, <3>7, DeliveredStays DEF CodecInv
    <2> QED
      BY <2>8, <2>9
  <1> QED
    BY <1>2, <1>3

\* A step that changes nothing.
LEMMA StutterKeepsCodec ==
  ASSUME HttpInv, UNCHANGED httpVars
  PROVE  CodecInv'
  <1>1. /\ sent' = sent /\ delivered' = delivered /\ request_' = request_ /\ state_' = state_
        /\ rejected' = rejected /\ pos' = pos /\ buf' = buf /\ pc' = pc
    BY DEF httpVars
  <1>2. CASE rejected
    BY <1>1, <1>2, AfterRejection DEF HttpInv, HttpBytesInv, HttpTypeOK
  <1>3. CASE ~rejected
    <2>1. Consumed' = Consumed
      BY <1>1 DEF Consumed
    <2>2. ParserStands => ParserStands'
      BY <1>1, <2>1, StandsStill DEF ParserStands
    <2>3. DeliveredAsSent
      BY <1>3 DEF HttpInv, CodecInv
    <2>4. Current' = Current /\ End(Current)' = End(Current) /\ DeliveredAsSent'
      BY <1>1, <2>3, DeliveredStays
    <2> QED
      BY <1>1, <1>3, <2>2, <2>4 DEF HttpInv, CodecInv
  <1> QED
    BY <1>2, <1>3

\* At every step of parser and codec, however the input is cut, the parser is at
\* the place in the input that its state says, with what the lines before it
\* declared, and what was handed over is what was sent.
THEOREM HttpInvariant ==
  HttpSpec => []HttpInv
  <1>1. HttpInit => HttpInv
    BY HttpTypesStart, CodecStart DEF HttpInv
  <1>2. HttpInv /\ [HttpNext]_httpVars => CodecInv'
    <2> SUFFICES ASSUME HttpInv, [HttpNext]_httpVars
                 PROVE  CodecInv'
      OBVIOUS
    <2>1. ASSUME NEW n \in 1..Len(Stream), Read(n)
          PROVE  CodecInv'
      BY <2>1, ReadKeepsCodec
    <2>2. CASE CodecLoop
      BY <2>2, CodecLoopKeepsCodec
    <2>3. CASE ExpectRequestLine
      BY <2>3, RequestLineKeepsCodec
    <2>4. CASE ExpectHeaders
      BY <2>4, HeadersKeepCodec
    <2>5. CASE ExpectBody
      BY <2>5, BodyKeepsCodec
    <2>6. CASE NoBranch \/ UNCHANGED httpVars
      BY <2>6, StutterKeepsCodec DEF NoBranch
    <2>7. CASE GotAll
      BY <2>7, GotAllKeepsCodec
    <2>8. CASE HalfMessage
      BY <2>8, HalfMessageKeepsCodec
    <2>9. CASE BadRequest
      BY <2>9, BadRequestKeepsCodec
    <2> QED
      BY <2>1, <2>2, <2>3, <2>4, <2>5, <2>6, <2>7, <2>8, <2>9 DEF HttpNext, OnMessage
  <1> QED
    BY <1>1, <1>2, HttpBytesInvariant, PTL DEF HttpSpec, HttpInv

-----------------------------------------------------------------------------
(* Requests are handed over as they were sent.                             *)

\* FirstMalformed is 0 or the index of the first malformed message.
LEMMA FirstMalformedIs ==
  ASSUME sent \in Seq(Messages)
  PROVE  \/ /\ FirstMalformed = 0
            /\ \A i \in 1..Len(sent) : sent[i].request # Malformed
         \/ /\ FirstMalformed \in 1..Len(sent)
            /\ sent[FirstMalformed].request = Malformed
            /\ \A i \in 1..(FirstMalformed - 1) : sent[i].request # Malformed
  <1> DEFINE I == {i \in 1..Len(sent) : sent[i].request = Malformed}
  <1>1. FirstMalformed = IF I # {} THEN Min(I) ELSE 0
    BY DEF FirstMalformed, SelectInSeq
  <1>2. Len(sent) \in Nat
    OBVIOUS
  <1>3. CASE I = {}
    BY <1>1, <1>3
  <1>4. CASE I # {}
    <2>1. \E x \in I : \A y \in I : x <= y
      <3>1. I \in SUBSET Nat
        OBVIOUS
      <3> QED
        BY <1>4, <3>1, LeastNatural
    <2>2. Min(I) \in I /\ \A y \in I : Min(I) <= y
      BY <2>1 DEF Min
    <2>3. FirstMalformed \in I /\ \A y \in I : FirstMalformed <= y
      BY <1>1, <1>4, <2>2
    <2>4. \A i \in 1..(FirstMalformed - 1) : i \in 1..Len(sent) /\ ~(FirstMalformed <= i)
      BY <1>2, <2>3
    <2> QED
      BY <2>3, <2>4
  <1> QED
    BY <1>3, <1>4

\* How many messages come before it.
ValidCount == IF FirstMalformed = 0 THEN Len(sent) ELSE FirstMalformed - 1

\* ValidMessages are the messages before the first malformed one.
LEMMA ValidMessagesAre ==
  ASSUME sent \in Seq(Messages)
  PROVE  /\ ValidCount \in 0..Len(sent)
         /\ ValidMessages \in Seq(Messages) /\ Len(ValidMessages) = ValidCount
         /\ \A i \in 1..ValidCount : ValidMessages[i] = sent[i]
  <1>1. Len(sent) \in Nat
    OBVIOUS
  <1>2. CASE FirstMalformed = 0
    BY <1>1, <1>2 DEF ValidCount, ValidMessages
  <1>3. CASE FirstMalformed # 0
    <2> DEFINE n == FirstMalformed - 1
    <2>1. n \in 0..Len(sent) /\ n \in Nat
      BY <1>1, <1>3, FirstMalformedIs
    <2>2. ValidMessages = SubSeq(sent, 1, n) /\ ValidCount = n
      BY <1>3 DEF ValidMessages, ValidCount
    <2> HIDE DEF n
    <2>3. n \in Int /\ \A i \in 1..n : sent[i] \in Messages
      BY <1>1, <2>1
    <2>4. /\ SubSeq(sent, 1, n) \in Seq(Messages)
          /\ Len(SubSeq(sent, 1, n)) = IF 1 <= n THEN n - 1 + 1 ELSE 0
          /\ \A i \in 1..(n - 1 + 1) : SubSeq(sent, 1, n)[i] = sent[1 + i - 1]
      BY <2>3, SubSeqProperties
    <2>5. n - 1 + 1 = n /\ (1 <= n <=> n # 0) /\ \A i \in 1..n : 1 + i - 1 = i
      BY <2>1
    <2> QED
      BY <2>1, <2>2, <2>4, <2>5
  <1> QED
    BY <1>2, <1>3

\* What has been consumed lies behind all the messages delivered.
LEMMA DeliveredAreConsumed ==
  ASSUME HttpInv, DeliveredAsSent, ParserStands, state_ # "kGotAll"
  PROVE  End(Len(delivered)) <= Consumed
  <1> DEFINE k == Current
  <1>1. /\ sent \in Seq(Messages) /\ delivered \in Seq(Requests) /\ state_ \in ParseStates
        /\ HoldsRest(buf, pos, Stream)
    BY DEF HttpInv, HttpBytesInv, HttpTypeOK
  <1>2. Len(delivered) \in Nat /\ k = Len(delivered) + 1 /\ k - 1 = Len(delivered)
    BY <1>1 DEF Current
  <1>3. End(Len(delivered)) \in Nat
    <2>1. Len(delivered) \in 0..Len(sent)
      BY <1>1, <1>2 DEF DeliveredAsSent
    <2> QED
      BY <1>1, <2>1, StreamLayout
  <1>4. Consumed \in Int
    BY <1>1, ReadableBytesOf, StreamLayout DEF HoldsRest, Consumed
  <1>5. ASSUME k <= Len(sent), NEW j \in 1..(LineCount(k) + 1)
        PROVE  End(Len(delivered)) <= LineStart(k, j)
    <2>1. k \in 1..Len(sent) /\ sent[k] \in Messages /\ LineCount(k) = Len(sent[k].lines) + 1
          /\ LineCount(k) \in Nat
      BY <1>5, CurrentMessage
    <2>2. j - 1 \in 0..LineCount(k)
      BY <2>1
    <2> DEFINE at == Offset(Pieces(sent[k]), j - 1)
    <2>3. at \in Nat
      BY <2>1, <2>2, MessageLayout
    <2>4. LineStart(k, j) = End(Len(delivered)) + at
      BY <1>2 DEF LineStart
    <2> HIDE DEF at
    <2> QED
      BY <1>3, <2>3, <2>4
  <1>6. CASE state_ = "kExpectRequestLine"
    BY <1>2, <1>3, <1>6 DEF ParserStands, BeforeMessage
  <1>7. CASE state_ = "kExpectHeaders"
    <2>1. k <= Len(sent) /\ \E j \in 2..LineCount(k) : Consumed = LineStart(k, j)
      BY <1>7 DEF ParserStands, AmongHeaders
    <2>2. LineCount(k) \in Nat
      BY <2>1, CurrentMessage
    <2>3. \A j \in 2..LineCount(k) : j \in 1..(LineCount(k) + 1)
      BY <2>2
    <2> QED
      BY <1>5, <2>1, <2>3
  <1>8. CASE state_ = "kExpectBody"
    <2> DEFINE size == Len(sent[k].body)
               last == LineCount(k) + 1
    <2>1. k <= Len(sent) /\ Consumed + size = End(k)
      BY <1>8 DEF ParserStands, BeforeBody
    <2>2. LineStart(k, last) + size = End(k) /\ LineCount(k) \in Nat /\ k \in 1..Len(sent)
          /\ sent[k] \in Messages
      BY <2>1, CurrentMessage
    <2>3. last \in 1..(LineCount(k) + 1)
      BY <2>2
    <2>4. End(Len(delivered)) <= LineStart(k, last)
      BY <1>5, <2>1, <2>3
    <2>5. size \in Nat
      BY <2>2, MessageShape
    <2>6. LineStart(k, last) \in Nat
      BY <1>1, <2>2, <2>3, LinesInStream
    <2> HIDE DEF size, last, k
    <2>7. LineStart(k, last) = Consumed
      BY <1>4, <2>1, <2>2, <2>5, <2>6
    <2> QED
      BY <2>4, <2>7
  <1> QED
    BY <1>1, <1>6, <1>7, <1>8 DEF ParseStates

\* The invariant implies that the requests are those sent.
LEMMA ThenRequestsAsSent ==
  ASSUME HttpInv
  PROVE  RequestsAsSent
  <1> DEFINE V == ValidMessages
             d == Len(delivered)
             complete == {k \in DOMAIN V : End(k) <= pos}
             asSent == [i \in DOMAIN V |-> V[i].request]
  <1>1. sent \in Seq(Messages) /\ delivered \in Seq(Requests) /\ HttpBytesInv
    BY DEF HttpInv, HttpBytesInv, HttpTypeOK
  <1>2. CASE rejected
    <2>1. FirstMalformed # 0
      BY <1>1, <1>2, FirstMalformedIs DEF HttpInv, CodecInv
    <2> QED
      BY <1>2, <2>1 DEF RequestsAsSent
  <1>3. CASE ~rejected
    <2>1. DeliveredAsSent
      BY <1>3 DEF HttpInv, CodecInv
    <2>2. d \in Nat /\ d <= Len(sent) /\ Len(sent) \in Nat
      BY <1>1, <2>1 DEF DeliveredAsSent
    <2>3. d <= ValidCount
      <3>1. CASE FirstMalformed = 0
        BY <2>2, <3>1 DEF ValidCount
      <3>2. CASE FirstMalformed # 0
        <4>1. FirstMalformed \in 1..Len(sent) /\ sent[FirstMalformed].request = Malformed
          BY <1>1, <3>2, FirstMalformedIs
        <4>2. FirstMalformed \notin 1..d
          BY <2>1, <4>1 DEF DeliveredAsSent
        <4> QED
          BY <2>2, <3>2, <4>1, <4>2 DEF ValidCount
      <3> QED
        BY <3>1, <3>2
    <2>4. /\ ValidCount \in Nat /\ ValidCount <= Len(sent)
          /\ DOMAIN V = 1..ValidCount /\ \A i \in 1..ValidCount : V[i] = sent[i]
      BY <1>1, ValidMessagesAre
    <2>5. IsPrefix(delivered, asSent)
      <3> DEFINE start == SubSeq(delivered, 1, d)
                 same == SubSeq(asSent, 1, d)
                 T == {asSent[i] : i \in 1..d}
      <3>1. asSent = [i \in 1..ValidCount |-> V[i].request]
        BY <2>4
      <3>2. Len(asSent) = ValidCount
        <4> HIDE DEF asSent
        <4>1. DOMAIN asSent = 1..ValidCount /\ asSent \in [1..ValidCount -> {asSent[i] : i \in 1..ValidCount}]
          BY <3>1
        <4>2. asSent \in Seq({asSent[i] : i \in 1..ValidCount})
          BY <2>4, <4>1, SeqDef
        <4> QED
          BY <2>4, <4>1, <4>2
      <3>3. \A i \in 1..d : delivered[i] = asSent[i]
        <4>1. \A i \in 1..d : i \in 1..ValidCount
          BY <2>2, <2>3, <2>4
        <4> QED
          BY <2>1, <2>4, <3>1, <4>1 DEF DeliveredAsSent
      <3> HIDE DEF asSent, d
      <3>4. d \in Int /\ (\A i \in 1..d : asSent[i] \in T) /\ (\A i \in 1..d : delivered[i] \in T)
        BY <2>2, <3>3
      <3> HIDE DEF T
      <3>5. /\ start \in Seq(T) /\ Len(start) = IF 1 <= d THEN d - 1 + 1 ELSE 0
            /\ \A i \in 1..(d - 1 + 1) : start[i] = delivered[1 + i - 1]
        BY <3>4, SubSeqProperties
      <3>6. /\ same \in Seq(T) /\ Len(same) = IF 1 <= d THEN d - 1 + 1 ELSE 0
            /\ \A i \in 1..(d - 1 + 1) : same[i] = asSent[1 + i - 1]
        BY <3>4, SubSeqProperties
      <3>7. d - 1 + 1 = d /\ \A i \in 1..d : 1 + i - 1 = i
        BY <2>2
      <3>8. (1 <= d => d - 1 + 1 = d) /\ (~(1 <= d) => d = 0)
        BY <2>2
      <3> HIDE DEF start, same
      <3>9. Len(start) = Len(same) /\ Len(start) = d
        BY <3>5, <3>6, <3>8
      <3>10. \A i \in 1..d : start[i] = same[i]
        BY <3>3, <3>5, <3>6, <3>7
      <3>11. start = same
        BY <3>5, <3>6, <3>9, <3>10, SeqEqual
      <3>12. SubSeq(delivered, 1, d) = SubSeq(asSent, 1, d)
        BY <3>11 DEF start, same
      <3> QED
        BY <2>3, <3>2, <3>12 DEF IsPrefix, d
    <2>6. ASSUME pc = "poll"
          PROVE  d = Cardinality(complete)
      <3>1. /\ ParserStands /\ state_ # "kGotAll"
            /\ Current <= Len(sent) => pos < End(Current)
        BY <1>3, <2>6 DEF HttpInv, CodecInv, ParserStands
      <3>2. Current = d + 1
        BY DEF Current
      <3>3. End(d) <= Consumed
        BY <2>1, <3>1, DeliveredAreConsumed
      <3>4. pos \in Nat /\ Consumed \in Int /\ Consumed <= pos
        BY <1>1, ReadableBytesOf, StreamLayout DEF HttpBytesInv, HoldsRest, Consumed
      <3>5. /\ \A k \in 0..Len(sent) : End(k) \in Nat
            /\ \A k \in 0..Len(sent) : \A j \in 0..k : End(j) <= End(k)
        BY <1>1, StreamLayout
      <3> HIDE DEF d, V
      <3>6. ASSUME NEW k \in 1..d
            PROVE  k \in 1..ValidCount /\ End(k) <= pos
        <4>1. d \in 0..Len(sent) /\ k \in 0..d /\ k \in 0..Len(sent) /\ k \in 1..ValidCount
          BY <2>2, <2>3, <2>4
        <4>2. End(k) <= End(d) /\ End(k) \in Nat /\ End(d) \in Nat
          BY <3>5, <4>1
        <4> QED
          BY <3>3, <3>4, <4>1, <4>2
      <3>7. ASSUME NEW k \in 1..ValidCount, End(k) <= pos
            PROVE  k \in 1..d
        <4> SUFFICES ASSUME k >= d + 1
                     PROVE  FALSE
          BY <2>2, <2>4
        <4>1. d + 1 \in 0..k /\ k \in 0..Len(sent) /\ d + 1 \in 0..Len(sent) /\ d + 1 <= Len(sent)
          BY <2>2, <2>4
        <4>2. End(d + 1) <= End(k) /\ End(k) \in Nat /\ End(d + 1) \in Nat
          BY <3>5, <4>1
        <4>3. pos < End(d + 1)
          BY <3>1, <3>2, <4>1
        <4> QED
          BY <3>4, <3>7, <4>2, <4>3
      <3>8. complete = 1..d
        BY <2>4, <3>6, <3>7
      <3>9. Cardinality(1..d) = d
        BY <2>2, FS_Interval
      <3> QED
        BY <3>8, <3>9
    <2> QED
      BY <1>3, <2>5, <2>6 DEF RequestsAsSent
  <1> QED
    BY <1>2, <1>3

\* RequestsAsSent for any messages that MessagesAssumption admits, and any way
\* of cutting the input.
THEOREM RequestsAlwaysAsSent ==
  HttpSpec => []RequestsAsSent
  BY HttpInvariant, ThenRequestsAsSent, PTL

-----------------------------------------------------------------------------
(*                   BlacklistManager and HttpDispatcher                   *)
(* What is written is read back.                                           *)

\* The lines that can be in the file, and the rules that can be in memory; a plain
\* rule is one that the file gives back.
FileLines == {Tags[d] : d \in Dims} \cup UNION {Range(Written[n]) : n \in DOMAIN Written}

PlainNames == {n \in DOMAIN Written : Plain(n)}
PlainRules == [dim : Dims, name : PlainNames]
ProperRules == [dim : Dims, name : DOMAIN Written]

\* A listing of a finite set has each of its members.
LEMMA ListedOnce ==
  ASSUME NEW S, IsFiniteSet(S), NEW names \in SetToSeqs(S)
  PROVE  /\ names \in Seq(S) /\ Len(names) = Cardinality(S) /\ Cardinality(S) \in Nat
         /\ \A x \in S : \E i \in 1..Len(names) : names[i] = x
  <1> DEFINE D == 1..Cardinality(S)
  <1>1. Cardinality(S) \in Nat
    BY FS_CardinalityType
  <1>2. names \in [D -> S] /\ \A i, j \in D : i # j => names[i] # names[j]
    BY DEF SetToSeqs
  <1>3. IsFiniteSet(D) /\ Cardinality(D) = Cardinality(S)
    BY <1>1, FS_Interval
  <1>4. names \in Injection(D, S)
    BY <1>2 DEF Injection, IsInjective
  <1>5. names \in Surjection(D, S)
    BY <1>3, <1>4, FS_Injection
  <1>6. \A x \in S : \E i \in D : names[i] = x
    BY <1>5 DEF Surjection
  <1> QED
    BY <1>1, <1>2, <1>6

\* Every place in a flattened sequence is a place in one of its members.
LEMMA FlattenCovers ==
  ASSUME NEW B, NEW ss \in Seq(Seq(B)), NEW x \in 1..Len(FlattenSeq(ss))
  PROVE  \E k \in 1..Len(ss) : \E i \in 1..Len(ss[k]) :
            x = Offset(ss, k - 1) + i /\ FlattenSeq(ss)[x] = ss[k][i]
  <1> DEFINE n == Len(ss)
             At(k) == Offset(ss, k)
             Ends == {k \in 0..n : x <= At(k)}
  <1>1. /\ At(0) = 0 /\ At(n) = Len(FlattenSeq(ss))
        /\ \A k \in 0..n : At(k) \in Nat
        /\ \A k \in 1..n : At(k) = At(k - 1) + Len(ss[k])
        /\ \A k \in 1..n : \A i \in 1..Len(ss[k]) : FlattenSeq(ss)[At(k - 1) + i] = ss[k][i]
    BY FlattenLayout
  <1>2. n \in Nat /\ x \in Nat \ {0} /\ x <= At(n)
    <2>1. At(n) \in Nat /\ n \in Nat
      BY <1>1
    <2> QED
      BY <1>1, <2>1
  <1>3. \A k \in 1..n : Len(ss[k]) \in Nat
    OBVIOUS
  <1> HIDE DEF n, At
  <1>4. Ends \in SUBSET Nat /\ n \in Ends
    BY <1>2
  <1>5. PICK k \in Ends : \A y \in Ends : k <= y
    BY <1>4, LeastNatural
  <1>6. k \in 1..n /\ k - 1 \in 0..n /\ k - 1 \notin Ends
    BY <1>1, <1>2, <1>5
  <1>7. At(k - 1) < x /\ x <= At(k) /\ At(k) = At(k - 1) + Len(ss[k]) /\ At(k - 1) \in Nat
    BY <1>1, <1>2, <1>5, <1>6
  <1> DEFINE i == x - At(k - 1)
  <1>8. i \in 1..Len(ss[k]) /\ x = At(k - 1) + i
    BY <1>2, <1>3, <1>6, <1>7
  <1>9. FlattenSeq(ss)[x] = ss[k][i]
    <2> HIDE DEF i
    <2> QED
      BY <1>1, <1>6, <1>8
  <1> QED
    BY <1>6, <1>8, <1>9 DEF n, At

\* A section begins with its tag; what follows comes from its rules, and a plain
\* name among them is there.
LEMMA SectionShape ==
  ASSUME NEW rules \in SUBSET ProperRules, IsFiniteSet(rules), NEW d \in Dims,
         NEW s \in Sections(rules, d)
  PROVE  /\ s \in Seq(FileLines) /\ Len(s) \in Nat \ {0} /\ s[1] = Tags[d]
         /\ \A x \in 2..Len(s) : \E r \in rules : r.dim = d /\ s[x] \in Range(Written[r.name])
         /\ \A r \in rules : r.dim = d /\ Plain(r.name) =>
               \E x \in 2..Len(s) : s[x] = r.name
  <1> DEFINE Mine == {q \in rules : q.dim = d}
             Names == {r.name : r \in Mine}
             B == FileLines
  <1>1. IsFiniteSet(Names)
    <2> DEFINE f == [r \in Mine |-> r.name]
    <2>1. IsFiniteSet(Mine)
      BY FS_Subset
    <2>2. f \in Surjection(Mine, Names)
      BY DEF Surjection
    <2> HIDE DEF f, Mine, Names
    <2> QED
      BY <2>1, <2>2, FS_Surjection
  <1>2. PICK names \in SetToSeqs(Names) :
           s = <<Tags[d]>> \o FlattenSeq([i \in DOMAIN names |-> Written[names[i]]])
    <2>1. s \in {<<Tags[d]>> \o FlattenSeq([i \in DOMAIN names |-> Written[names[i]]]) :
                    names \in SetToSeqs(Names)}
      BY DEF Sections
    <2> HIDE DEF Names
    <2> QED
      BY <2>1
  <1> DEFINE ss == [i \in DOMAIN names |-> Written[names[i]]]
             flat == FlattenSeq(ss)
  <1>3. /\ names \in Seq(Names)
        /\ \A x \in Names : \E i \in 1..Len(names) : names[i] = x
    <2> HIDE DEF Names
    <2> QED
      BY <1>1, ListedOnce
  <1>4. \A x \in Names : x \in DOMAIN Written /\ Written[x] \in Seq(B)
    <2> SUFFICES ASSUME NEW r \in rules
                 PROVE  r.name \in DOMAIN Written /\ Written[r.name] \in Seq(B)
      OBVIOUS
    <2>1. r.name \in DOMAIN Written
      BY DEF ProperRules
    <2>2. Written[r.name] \in Seq(Range(Written[r.name])) /\ Range(Written[r.name]) \subseteq B
      BY <2>1, BlacklistAssumption DEF FileLines
    <2> QED
      BY <2>1, <2>2
  <1>5. ss \in Seq(Seq(B)) /\ Len(ss) = Len(names) /\ Len(names) \in Nat
        /\ \A i \in 1..Len(names) : ss[i] = Written[names[i]] /\ names[i] \in Names
    BY <1>3, <1>4
  <1> HIDE DEF ss, Names, B
  <1>6. flat \in Seq(B)
    BY <1>5, FlattenLayout
  <1>7. <<Tags[d]>> \in Seq(B) /\ Len(<<Tags[d]>>) = 1
    BY DEF B, FileLines
  <1>8. /\ s \in Seq(B) /\ Len(s) = 1 + Len(flat) /\ Len(flat) \in Nat
        /\ s[1] = Tags[d]
        /\ \A x \in 1..Len(flat) : s[1 + x] = flat[x]
    <2>1. s = <<Tags[d]>> \o flat
      BY <1>2 DEF ss
    <2> HIDE DEF flat
    <2>2. /\ s \in Seq(B) /\ Len(s) = 1 + Len(flat) /\ Len(flat) \in Nat
          /\ \A i \in 1..(1 + Len(flat)) : s[i] = IF i <= 1 THEN <<Tags[d]>>[i] ELSE flat[i - 1]
      BY <2>1, <1>6, <1>7, ConcatProperties
    <2>3. \A x \in 1..Len(flat) : s[1 + x] = flat[x]
      <3> TAKE x \in 1..Len(flat)
      <3>1. 1 + x \in 1..(1 + Len(flat)) /\ ~(1 + x <= 1) /\ (1 + x) - 1 = x
        BY <2>2
      <3> QED
        BY <2>2, <3>1
    <2>4. s[1] = <<Tags[d]>>[1] /\ <<Tags[d]>>[1] = Tags[d]
      <3>1. 1 \in 1..(1 + Len(flat))
        BY <2>2
      <3> QED
        BY <2>2, <3>1
    <2> QED
      BY <2>2, <2>3, <2>4
  <1>9. ASSUME NEW x \in 2..Len(s)
        PROVE  \E r \in rules : r.dim = d /\ s[x] \in Range(Written[r.name])
    <2>1. x - 1 \in 1..Len(flat) /\ s[x] = flat[x - 1]
      BY <1>8
    <2>2. PICK k \in 1..Len(ss) : \E i \in 1..Len(ss[k]) : flat[x - 1] = ss[k][i]
      <3> DEFINE y == x - 1
      <3>1. ss \in Seq(Seq(B)) /\ y \in 1..Len(FlattenSeq(ss))
        BY <1>5, <2>1
      <3> HIDE DEF y
      <3>2. \E k \in 1..Len(ss) : \E i \in 1..Len(ss[k]) : FlattenSeq(ss)[y] = ss[k][i]
        BY <3>1, FlattenCovers
      <3> QED
        BY <3>2 DEF y
    <2>3. PICK r \in rules : r.dim = d /\ names[k] = r.name
      BY <1>5 DEF Names
    <2>4. ss[k] = Written[r.name] /\ ss[k] \in Seq(B)
      BY <1>5, <2>3
    <2>5. s[x] \in Range(Written[r.name])
      BY <2>1, <2>2, <2>4 DEF Range
    <2> QED
      BY <2>3, <2>5
  <1>10. ASSUME NEW r \in rules, r.dim = d, Plain(r.name)
         PROVE  \E x \in 2..Len(s) : s[x] = r.name
    <2>1. r.name \in Names
      BY <1>10 DEF Names
    <2>2. PICK k \in 1..Len(names) : names[k] = r.name
      BY <1>3, <2>1
    <2>3. ss[k] = <<r.name>> /\ k \in 1..Len(ss)
      BY <1>5, <1>10, <2>2 DEF Plain
    <2> DEFINE at == Offset(ss, k - 1) + 1
    <2>4. at \in 1..Len(flat) /\ flat[at] = r.name
      <3>1. /\ \A j \in 0..Len(ss) : Offset(ss, j) \in Nat
            /\ \A j \in 0..Len(ss) : \A i \in 0..j : Offset(ss, i) <= Offset(ss, j)
            /\ \A j \in 1..Len(ss) : Offset(ss, j) = Offset(ss, j - 1) + Len(ss[j])
            /\ \A j \in 1..Len(ss) : \A i \in 1..Len(ss[j]) :
                  flat[Offset(ss, j - 1) + i] = ss[j][i]
            /\ Offset(ss, Len(ss)) = Len(flat)
        BY <1>5, FlattenLayout
      <3>2. Len(ss[k]) = 1 /\ ss[k][1] = r.name
        BY <2>3
      <3>3. k - 1 \in 0..Len(ss) /\ k \in 0..Len(ss) /\ Len(ss) \in 0..Len(ss)
        BY <1>5, <2>3
      <3>4. flat[at] = r.name
        <4>1. 1 \in 1..Len(ss[k])
          BY <3>2
        <4>2. flat[Offset(ss, k - 1) + 1] = ss[k][1]
          BY <2>3, <3>1, <4>1
        <4> QED
          BY <3>2, <4>2
      <3>5. /\ Offset(ss, k) = Offset(ss, k - 1) + 1 /\ Offset(ss, k - 1) \in Nat
            /\ Offset(ss, k) <= Offset(ss, Len(ss)) /\ Offset(ss, Len(ss)) = Len(flat)
            /\ Len(flat) \in Nat
        BY <1>5, <1>8, <2>3, <3>1, <3>2, <3>3
      <3> HIDE DEF flat
      <3>6. at \in 1..Len(flat)
        BY <3>5
      <3> QED
        BY <3>4, <3>6
    <2>5. 1 + at \in 2..Len(s) /\ s[1 + at] = r.name
      <3> HIDE DEF flat, at
      <3> QED
        BY <1>8, <2>4
    <2> QED
      BY <2>5
  <1> QED
    BY <1>8, <1>9, <1>10 DEF B

\* A section somewhere in a file is read back: a plain name in it is a rule of its
\* kind unless some name of that kind has a line in brackets.
LEMMA SectionIsRead ==
  ASSUME NEW rules \in SUBSET ProperRules, IsFiniteSet(rules),
         NEW r \in rules, Plain(r.name),
         \A q \in rules : q.dim = r.dim =>
            \A line \in Range(Written[q.name]) : ~Bracketed(line),
         NEW s \in Sections(rules, r.dim),
         NEW lines \in Seq(FileLines), NEW o \in Nat, o + Len(s) <= Len(lines),
         \A i \in 1..Len(s) : lines[o + i] = s[i]
  PROVE  r \in FetchLatestBlackList(lines)
  <1>1. r \in [dim : Dims, name : DOMAIN Written]
    BY DEF ProperRules, Dims
  <1>2. r.dim \in Dims
    BY <1>1
  <1>3. /\ Len(s) \in Nat \ {0} /\ s[1] = Tags[r.dim]
        /\ \A x \in 2..Len(s) : ~Bracketed(s[x])
    <2>1. /\ Len(s) \in Nat \ {0} /\ s[1] = Tags[r.dim]
          /\ \A x \in 2..Len(s) : \E q \in rules : q.dim = r.dim /\ s[x] \in Range(Written[q.name])
      BY <1>2, SectionShape
    <2> QED
      BY <2>1
  <1>4. PICK x \in 2..Len(s) : s[x] = r.name
    BY <1>2, SectionShape
  <1> DEFINE tag == o + 1
             at == o + x
  <1>5. tag \in DOMAIN lines /\ at \in DOMAIN lines /\ tag < at
    BY <1>3, <1>4
  <1>6. lines[tag] = Tags[r.dim] /\ lines[at] = r.name
    BY <1>3, <1>4
  <1>7. \A i \in (tag + 1)..at : ~Bracketed(lines[i])
    <2> TAKE i \in (tag + 1)..at
    <2>1. i - o \in 2..Len(s) /\ i = o + (i - o) /\ i - o \in 1..Len(s)
      BY <1>3, <1>4
    <2>2. lines[i] = s[i - o]
      BY <2>1
    <2> QED
      BY <1>3, <2>1, <2>2
  <1>8. r.name \in Range(lines)
    BY <1>5, <1>6 DEF Range
  <1>9. r \in [dim : Dims, name : Range(lines)]
    BY <1>1, <1>8
  <1> HIDE DEF tag, at
  <1> QED
    BY <1>5, <1>6, <1>7, <1>9 DEF FetchLatestBlackList, Plain

\* What PersistToFile writes, or an operator, is read back.
LEMMA FileIsRead ==
  ASSUME NEW rules \in SUBSET ProperRules, IsFiniteSet(rules), NEW lines \in Files(rules)
  PROVE  /\ lines \in Seq(FileLines)
         /\ \A r \in rules :
               /\ Plain(r.name)
               /\ \A q \in rules : q.dim = r.dim =>
                     \A line \in Range(Written[q.name]) : ~Bracketed(line)
               => r \in FetchLatestBlackList(lines)
  <1>1. PICK nick \in Sections(rules, "nick"), ip \in Sections(rules, "ip"),
             kw \in Sections(rules, "kw") : lines = (nick \o ip) \o kw
    BY DEF Files
  <1> DEFINE T == Seq(FileLines)
  <1>2. nick \in T /\ ip \in T /\ kw \in T
    BY SectionShape DEF Dims
  <1> DEFINE a == Len(nick)
             b == Len(ip)
             c == Len(kw)
             two == nick \o ip
  <1>3. a \in Nat /\ b \in Nat /\ c \in Nat
    BY <1>2
  <1>4. two \in T /\ Len(two) = a + b
        /\ \A i \in 1..(a + b) : two[i] = IF i <= a THEN nick[i] ELSE ip[i - a]
    BY <1>2, ConcatProperties
  <1>5. lines \in T /\ Len(lines) = (a + b) + c
        /\ \A i \in 1..((a + b) + c) : lines[i] = IF i <= a + b THEN two[i] ELSE kw[i - (a + b)]
    <2> HIDE DEF two
    <2> QED
      BY <1>1, <1>2, <1>4, ConcatProperties DEF two
  <1> HIDE DEF two, a, b, c
  <1>6. \A i \in 1..a : lines[0 + i] = nick[i]
    BY <1>3, <1>4, <1>5
  <1>7. \A i \in 1..b : lines[a + i] = ip[i]
    <2> TAKE i \in 1..b
    <2>1. a + i \in 1..(a + b) /\ ~(a + i <= a) /\ (a + i) - a = i
          /\ a + i \in 1..((a + b) + c) /\ a + i <= a + b
      BY <1>3
    <2> QED
      BY <1>4, <1>5, <2>1
  <1>8. \A i \in 1..c : lines[(a + b) + i] = kw[i]
    <2> TAKE i \in 1..c
    <2>1. (a + b) + i \in 1..((a + b) + c) /\ ~((a + b) + i <= a + b)
          /\ ((a + b) + i) - (a + b) = i
      BY <1>3
    <2> QED
      BY <1>5, <2>1
  <1>9. ASSUME NEW r \in rules, Plain(r.name),
               \A q \in rules : q.dim = r.dim =>
                  \A line \in Range(Written[q.name]) : ~Bracketed(line)
        PROVE  r \in FetchLatestBlackList(lines)
    <2>1. r.dim \in {"nick", "ip", "kw"}
      BY DEF ProperRules, Dims
    <2>2. 0 + a <= Len(lines) /\ a + b <= Len(lines) /\ (a + b) + c <= Len(lines)
          /\ a + b \in Nat
      BY <1>3, <1>5
    <2>3. CASE r.dim = "nick"
      BY <1>3, <1>5, <1>6, <1>9, <2>2, <2>3, SectionIsRead DEF a
    <2>4. CASE r.dim = "ip"
      BY <1>3, <1>5, <1>7, <1>9, <2>2, <2>4, SectionIsRead DEF b
    <2>5. CASE r.dim = "kw"
      BY <1>3, <1>5, <1>8, <1>9, <2>2, <2>5, SectionIsRead DEF c
    <2> QED
      BY <2>1, <2>3, <2>4, <2>5
  <1> QED
    BY <1>5, <1>9

\* Whatever the file holds, the rules read from it may be in memory, and are
\* finitely many.
LEMMA ReadRulesAreProper ==
  ASSUME NEW lines \in Seq(FileLines)
  PROVE  /\ FetchLatestBlackList(lines) \subseteq ProperRules
         /\ IsFiniteSet(FetchLatestBlackList(lines))
  <1> DEFINE F == FetchLatestBlackList(lines)
  <1>1. ASSUME NEW r \in F
        PROVE  r \in ProperRules
    <2>1. r \in [dim : Dims, name : Range(lines)] /\ IsName(r.name)
      BY DEF FetchLatestBlackList
    <2>2. r.name \in FileLines
      BY <2>1 DEF Range
    <2>3. PICK n \in DOMAIN Written : r.name \in Range(Written[n])
      BY <2>1, <2>2 DEF FileLines, IsName, Bracketed
    <2>4. r.name \in DOMAIN Written
      BY <2>3, BlacklistAssumption
    <2> QED
      BY <2>1, <2>4 DEF ProperRules
  <1>2. IsFiniteSet(F)
    <2> DEFINE D == 1..Len(lines)
               P == Dims \X D
               R == {Rule(p[1], lines[p[2]]) : p \in P}
               f == [p \in P |-> Rule(p[1], lines[p[2]])]
    <2>1. IsFiniteSet(Dims)
      <3>1. IsFiniteSet({"nick"} \cup {"ip"})
        BY FS_Singleton, FS_AddElement
      <3>2. IsFiniteSet(({"nick"} \cup {"ip"}) \cup {"kw"})
        BY <3>1, FS_AddElement
      <3>3. Dims = ({"nick"} \cup {"ip"}) \cup {"kw"}
        BY DEF Dims
      <3> QED
        BY <3>2, <3>3
    <2>2. IsFiniteSet(D)
      BY FS_Interval
    <2>3. IsFiniteSet(P)
      BY <2>1, <2>2, FS_Product
    <2>4. f \in Surjection(P, R)
      BY DEF Surjection
    <2>5. IsFiniteSet(R)
      <3> HIDE DEF P, R, f
      <3> QED
        BY <2>3, <2>4, FS_Surjection
    <2>6. F \subseteq R
      <3> SUFFICES ASSUME NEW r \in F PROVE r \in R
        OBVIOUS
      <3>1. PICK at \in DOMAIN lines : lines[at] = r.name
        BY DEF FetchLatestBlackList
      <3>2. r \in [dim : Dims, name : Range(lines)]
        BY DEF FetchLatestBlackList
      <3>3. <<r.dim, at>> \in P /\ r = Rule(r.dim, lines[at])
        BY <3>1, <3>2 DEF Rule
      <3> QED
        BY <3>3
    <2> QED
      BY <2>5, <2>6, FS_Subset
  <1> QED
    BY <1>1, <1>2

-----------------------------------------------------------------------------
(* The inductive invariant.                                                *)

Posts == [nick : DOMAIN Written, words : SUBSET DOMAIN Written, ip : {""} \cup DOMAIN Written]

Bans == [op : {"erase", "persist"}, todo : SUBSET Nat,
         due : SUBSET ProperRules, rules : SUBSET ProperRules]

Jobs == {Idle} \cup [op : {"push"}, comment : Comments] \cup Bans

\* The types of the variables; what is in memory or about to be is finite.
DispatcherTypeOK ==
    /\ m_rules \in SUBSET ProperRules /\ IsFiniteSet(m_rules)
    /\ file \in Seq(FileLines)
    /\ writer \in Threads \cup {Nobody}
    /\ fetched \in [Threads -> SUBSET SUBSET ProperRules]
    /\ \A t \in Threads : \A rules \in fetched[t] : IsFiniteSet(rules)
    /\ durable \in SUBSET PlainRules /\ tagged \in SUBSET Dims
    /\ posts \in Seq(Posts)
    /\ job \in [Threads -> Jobs]

\* A thread that bans goes over comments that exist and collects what it has to;
\* the one that writes the file holds the lock, and what it collected is in memory.
BansUnderWay ==
    \A t \in Threads :
        /\ job[t].op \in {"erase", "persist"} =>
              /\ job[t].todo \subseteq DOMAIN posts
              /\ job[t].due \subseteq job[t].rules /\ IsFiniteSet(job[t].rules)
        /\ job[t].op = "persist" <=> writer = t
        /\ job[t].op = "persist" => job[t].rules \subseteq m_rules

\* The durable rules that no line in brackets can have displaced.
Standing == {r \in durable : r.dim \notin tagged}

\* They are in memory, in whatever a Reload is about to swap in, and, unless it is
\* being written, in what the file gives back.
BansHeld ==
    /\ Standing \subseteq m_rules
    /\ \A t \in Threads : \A rules \in fetched[t] : Standing \subseteq rules
    /\ writer = Nobody => Standing \subseteq FetchLatestBlackList(file)

\* The inductive invariant.
DispatcherInv == DispatcherTypeOK /\ BansUnderWay /\ BansHeld

\* A plain rule is a proper one, and none of its lines looks like a section.
LEMMA PlainIsProper ==
  ASSUME NEW r \in PlainRules
  PROVE  r \in ProperRules /\ r.dim \in Dims /\ Plain(r.name)
         /\ r = Rule(r.dim, r.name)
         /\ \A line \in Range(Written[r.name]) : ~Bracketed(line)
  <1>1. r \in ProperRules /\ r.dim \in Dims /\ Plain(r.name) /\ r = Rule(r.dim, r.name)
    BY DEF ProperRules, PlainRules, PlainNames, Rule
  <1>2. \A line \in Range(<<r.name>>) : line = r.name
    BY DEF Range
  <1> QED
    BY <1>1, <1>2 DEF Plain, IsName

\* Plain rules written by themselves are all read back.
LEMMA PlainFileIsRead ==
  ASSUME NEW rules \in SUBSET PlainRules, IsFiniteSet(rules), NEW lines \in Files(rules)
  PROVE  lines \in Seq(FileLines) /\ rules \subseteq FetchLatestBlackList(lines)
  <1>1. rules \in SUBSET ProperRules
    BY PlainIsProper
  <1>2. \A r \in rules : Plain(r.name) /\ \A line \in Range(Written[r.name]) : ~Bracketed(line)
    BY PlainIsProper
  <1> QED
    BY <1>1, <1>2, FileIsRead

\* The file of the start is one that an operator may have written.
LEMMA DispatcherStarts ==
  DispatcherInit => DispatcherInv
  <1> SUFFICES ASSUME DispatcherInit PROVE DispatcherInv
    OBVIOUS
  <1> USE DEF DispatcherInit, InitBlacklist
  <1>1. PICK rules \in Edits : file \in Files(rules)
    OBVIOUS
  <1>2. IsFiniteSet(rules) /\ rules \in SUBSET PlainRules
    BY BlacklistAssumption DEF PlainRules, PlainNames
  <1>3. file \in Seq(FileLines)
    BY <1>1, <1>2, PlainFileIsRead
  <1>4. m_rules \in SUBSET ProperRules /\ IsFiniteSet(m_rules)
    BY <1>3, ReadRulesAreProper
  <1>5. durable \subseteq m_rules /\ durable \in SUBSET PlainRules
    BY <1>4 DEF ProperRules, PlainRules, PlainNames
  <1>6. job \in [Threads -> Jobs] /\ \A t \in Threads : job[t] = Idle
    BY DEF Jobs
  <1>7. fetched \in [Threads -> SUBSET SUBSET ProperRules] /\ \A t \in Threads : fetched[t] = {}
    OBVIOUS
  <1>8. posts \in Seq(Posts)
    OBVIOUS
  <1>9. DispatcherTypeOK
    BY <1>3, <1>4, <1>5, <1>6, <1>7, <1>8 DEF DispatcherTypeOK
  <1>10. BansUnderWay
    BY <1>6, BlacklistAssumption DEF BansUnderWay, Idle
  <1>11. BansHeld
    BY <1>5, <1>7 DEF BansHeld, Standing
  <1> QED
    BY <1>9, <1>10, <1>11 DEF DispatcherInv

-----------------------------------------------------------------------------
(* The steps.                                                              *)

\* A Reload reads what it will swap in: all that must stay, unless the file is
\* being written or cannot be opened, and then nothing is durable any more.
LEMMA ReloadReadsKeeps ==
  ASSUME DispatcherInv, NEW t \in Threads, ReloadReads(t), UNCHANGED <<posts, job>>
  PROVE  DispatcherInv'
  <1> USE DEF DispatcherInv
  <1>1. UNCHANGED <<m_rules, file, writer, tagged, posts, job>>
    BY DEF ReloadReads
  <1> DEFINE read == FetchLatestBlackList(file)
  <1>2. read \subseteq ProperRules /\ IsFiniteSet(read)
    BY ReadRulesAreProper DEF DispatcherTypeOK
  <1>3. \/ /\ fetched' = [fetched EXCEPT ![t] = {read}]
           /\ durable' = IF writer = Nobody THEN durable ELSE {}
        \/ /\ fetched' = [fetched EXCEPT ![t] = {{}}]
           /\ durable' = {}
    BY DEF ReloadReads
  <1>4. durable' \subseteq durable /\ Standing' \subseteq Standing
    BY <1>1, <1>3 DEF Standing
  <1> HIDE DEF read
  <1>5. /\ fetched' \in [Threads -> SUBSET SUBSET ProperRules]
        /\ \A u \in Threads : \A rules \in fetched'[u] : IsFiniteSet(rules)
    <2>1. /\ fetched \in [Threads -> SUBSET SUBSET ProperRules]
          /\ \A u \in Threads : \A rules \in fetched[u] : IsFiniteSet(rules)
      BY DEF DispatcherTypeOK
    <2>2. PICK rules : rules \in SUBSET ProperRules /\ IsFiniteSet(rules)
                       /\ fetched' = [fetched EXCEPT ![t] = {rules}]
      BY <1>2, <1>3, FS_EmptySet
    <2> QED
      BY <2>1, <2>2
  <1>6. DispatcherTypeOK'
    BY <1>1, <1>4, <1>5 DEF DispatcherTypeOK
  <1>7. BansUnderWay'
    BY <1>1 DEF BansUnderWay
  <1>8. \A u \in Threads : \A rules \in fetched'[u] : Standing' \subseteq rules
    <2>1. CASE durable' = {}
      BY <2>1 DEF Standing
    <2>2. CASE writer = Nobody /\ fetched' = [fetched EXCEPT ![t] = {read}]
      BY <1>4, <2>2 DEF BansHeld, read, DispatcherTypeOK
    <2> QED
      BY <1>3, <2>1, <2>2
  <1>9. BansHeld'
    BY <1>1, <1>4, <1>8 DEF BansHeld
  <1> QED
    BY <1>6, <1>7, <1>9

\* A Reload swaps in what it has read.
LEMMA ReloadSwapsKeeps ==
  ASSUME DispatcherInv, NEW t \in Threads, ReloadSwaps(t), UNCHANGED <<posts, job>>
  PROVE  DispatcherInv'
  <1> USE DEF DispatcherInv
  <1>1. /\ UNCHANGED <<file, writer, durable, tagged, posts, job>>
        /\ writer = Nobody /\ m_rules' \in fetched[t]
        /\ fetched' = [fetched EXCEPT ![t] = {}]
    BY DEF ReloadSwaps, CanRead
  <1>2. Standing' = Standing
    BY <1>1 DEF Standing
  <1>3. m_rules' \in SUBSET ProperRules /\ IsFiniteSet(m_rules')
    BY <1>1 DEF DispatcherTypeOK
  <1>5. /\ fetched' \in [Threads -> SUBSET SUBSET ProperRules]
        /\ \A u \in Threads : fetched'[u] \subseteq fetched[u]
    BY <1>1 DEF DispatcherTypeOK
  <1>6. DispatcherTypeOK'
    BY <1>1, <1>3, <1>5 DEF DispatcherTypeOK
  <1>7. BansUnderWay'
    BY <1>1, BlacklistAssumption DEF BansUnderWay
  <1>8. BansHeld'
    BY <1>1, <1>2, <1>5 DEF BansHeld
  <1> QED
    BY <1>6, <1>7, <1>8

\* Posting and the agent's request change neither rules nor file.
LEMMA PostsKeep ==
  ASSUME DispatcherInv, NEW t \in Threads,
         \/ \E c \in Comments : CheckPost(t, c)
         \/ PushComment(t)
         \/ \E seqs \in (SUBSET DOMAIN posts) \ {{}} : AgentBlocks(t, seqs)
  PROVE  DispatcherInv'
  <1> USE DEF DispatcherInv
  <1>1. UNCHANGED blacklistVars /\ job[t].op \in {"idle", "push"}
        /\ \E j : job' = [job EXCEPT ![t] = j]
    BY DEF CheckPost, PushComment, AgentBlocks, Does, Becomes
  <1>2. job' \in [Threads -> Jobs] /\ posts' \in Seq(Posts) /\ DOMAIN posts \subseteq DOMAIN posts'
    <2>1. CASE \E c \in Comments : CheckPost(t, c)
      BY <2>1 DEF CheckPost, Becomes, DispatcherTypeOK, Jobs
    <2>2. CASE PushComment(t)
      <3>1. job[t] \in Jobs /\ job[t].op = "push"
        BY <2>2 DEF DispatcherTypeOK, PushComment, Does
      <3>2. job[t].comment \in Comments
        BY <3>1 DEF Jobs, Idle, Bans
      <3>3. job[t].comment \in Posts
        BY <3>2, DispatcherAssumption DEF Posts
      <3>4. posts' = Append(posts, job[t].comment) /\ job' = [job EXCEPT ![t] = Idle]
        BY <2>2 DEF PushComment, Becomes
      <3>5. posts' \in Seq(Posts) /\ Len(posts') = Len(posts) + 1
        BY <3>3, <3>4 DEF DispatcherTypeOK
      <3> QED
        BY <3>4, <3>5 DEF DispatcherTypeOK, Jobs
    <2>3. CASE \E seqs \in (SUBSET DOMAIN posts) \ {{}} : AgentBlocks(t, seqs)
      <3>1. PICK seqs \in SUBSET DOMAIN posts : AgentBlocks(t, seqs)
        BY <2>3
      <3>2. DOMAIN posts \subseteq Nat
        BY DEF DispatcherTypeOK
      <3>3. [op |-> "erase", todo |-> seqs, due |-> {}, rules |-> {}] \in Jobs
        BY <3>1, <3>2 DEF Jobs, Bans
      <3> QED
        BY <3>1, <3>3 DEF AgentBlocks, Becomes, DispatcherTypeOK
    <2> QED
      BY <2>1, <2>2, <2>3
  <1>3. DispatcherTypeOK'
    BY <1>1, <1>2 DEF DispatcherTypeOK, blacklistVars
  <1>4. \/ job'[t].op \in {"idle", "push"}
        \/ /\ job'[t].op = "erase" /\ job'[t].todo \subseteq DOMAIN posts
           /\ job'[t].due = {} /\ job'[t].rules = {}
    <2>1. CASE \E c \in Comments : CheckPost(t, c)
      BY <2>1 DEF CheckPost, Becomes, DispatcherTypeOK
    <2>2. CASE PushComment(t)
      BY <2>2 DEF PushComment, Becomes, Idle, DispatcherTypeOK
    <2>3. CASE \E seqs \in (SUBSET DOMAIN posts) \ {{}} : AgentBlocks(t, seqs)
      <3>1. PICK seqs \in SUBSET DOMAIN posts : AgentBlocks(t, seqs)
        BY <2>3
      <3>2. job'[t] = [op |-> "erase", todo |-> seqs, due |-> {}, rules |-> {}]
        BY <3>1 DEF AgentBlocks, Becomes, DispatcherTypeOK
      <3> QED
        BY <3>2
    <2> QED
      BY <2>1, <2>2, <2>3
  <1>5. \A u \in Threads \ {t} : job'[u] = job[u]
    BY <1>1 DEF DispatcherTypeOK
  <1>6. BansUnderWay'
    <2> SUFFICES ASSUME NEW u \in Threads
                 PROVE  /\ job'[u].op \in {"erase", "persist"} =>
                              /\ job'[u].todo \subseteq DOMAIN posts'
                              /\ job'[u].due \subseteq job'[u].rules
                              /\ IsFiniteSet(job'[u].rules)
                        /\ job'[u].op = "persist" <=> writer = u
                        /\ job'[u].op = "persist" => job'[u].rules \subseteq m_rules
      BY <1>1 DEF BansUnderWay, blacklistVars
    <2>1. CASE u = t
      BY <1>1, <1>2, <1>4, <2>1, FS_EmptySet DEF BansUnderWay
    <2>2. CASE u # t
      BY <1>2, <1>5, <2>2 DEF BansUnderWay
    <2> QED
      BY <2>1, <2>2
  <1>7. BansHeld'
    BY <1>1 DEF BansHeld, Standing, blacklistVars
  <1> QED
    BY <1>3, <1>6, <1>7

\* What a comment leads to is proper.
LEMMA BannedByIsProper ==
  ASSUME NEW c \in Posts
  PROVE  BannedBy(c) \in SUBSET ProperRules /\ IsFiniteSet(BannedBy(c))
  <1> DEFINE nick == Rule("nick", c.nick)
             ip == Rule("ip", c.ip)
  <1>1. BannedBy(c) \subseteq {nick, ip}
    BY DEF BannedBy
  <1>2. nick \in ProperRules
    BY DEF Posts, ProperRules, Rule, Dims
  <1>3. c.ip # "" => ip \in ProperRules
    BY DEF Posts, ProperRules, Rule, Dims
  <1>4. ip \in BannedBy(c) => c.ip # ""
    BY DEF BannedBy, Rule
  <1> HIDE DEF nick, ip
  <1>5. IsFiniteSet({nick, ip})
    <2>1. IsFiniteSet({nick}) /\ {nick, ip} = {nick} \cup {ip}
      BY FS_Singleton
    <2> QED
      BY <2>1, FS_AddElement
  <1>6. IsFiniteSet(BannedBy(c))
    BY <1>1, <1>5, FS_Subset
  <1>7. ASSUME NEW r \in BannedBy(c)
        PROVE  r \in ProperRules
    BY <1>1, <1>2, <1>3, <1>4
  <1> QED
    BY <1>6, <1>7

\* Erasing a comment overwrites its author and adds to what will be banned.
LEMMA EraseKeeps ==
  ASSUME DispatcherInv, NEW t \in Threads, EraseComment(t)
  PROVE  DispatcherInv'
  <1> USE DEF DispatcherInv
  <1> DEFINE j == job[t]
  <1>1. UNCHANGED blacklistVars /\ j.op = "erase"
    BY DEF EraseComment, Does
  <1>2. j \in Bans
    BY <1>1 DEF DispatcherTypeOK, Jobs, Idle
  <1>3. j.todo \subseteq DOMAIN posts /\ j.due \subseteq j.rules /\ IsFiniteSet(j.rules)
    BY <1>1 DEF BansUnderWay
  <1>4. PICK seq \in j.todo :
          LET rest == [j EXCEPT !.todo = @ \ {seq}]
          IN  \/ /\ posts' = [posts EXCEPT ![seq].nick = Intercepted, ![seq].words = {}]
                 /\ job' = [job EXCEPT ![t] = [rest EXCEPT !.due = @ \cup BannedBy(posts[seq]),
                                                           !.rules = Collect(@, posts[seq])]]
              \/ job' = [job EXCEPT ![t] = rest] /\ UNCHANGED posts
    BY DEF EraseComment, Becomes
  <1>5. posts[seq] \in Posts /\ seq \in DOMAIN posts
    BY <1>3 DEF DispatcherTypeOK
  <1> DEFINE banned == BannedBy(posts[seq])
             rest == [j EXCEPT !.todo = @ \ {seq}]
             more == [rest EXCEPT !.due = @ \cup banned, !.rules = @ \cup banned]
  <1>6. banned \in SUBSET ProperRules /\ IsFiniteSet(banned)
    BY <1>5, BannedByIsProper
  <1>7. posts' \in Seq(Posts) /\ DOMAIN posts' = DOMAIN posts
    <2>1. CASE UNCHANGED posts
      BY <2>1 DEF DispatcherTypeOK
    <2>2. CASE posts' = [posts EXCEPT ![seq].nick = Intercepted, ![seq].words = {}]
      <3> DEFINE p == [[posts[seq] EXCEPT !.nick = Intercepted] EXCEPT !.words = {}]
      <3>1. p \in Posts
        BY <1>5, DispatcherAssumption DEF Posts
      <3>2. posts' = [posts EXCEPT ![seq] = p]
        BY <1>5, <2>2 DEF DispatcherTypeOK
      <3> HIDE DEF p
      <3> QED
        BY <1>5, <3>1, <3>2 DEF DispatcherTypeOK
    <2> QED
      BY <1>4, <2>1, <2>2
  <1>8. /\ rest \in Bans /\ rest.op = "erase"
        /\ rest.todo = j.todo \ {seq} /\ rest.due = j.due /\ rest.rules = j.rules
    BY <1>1, <1>2 DEF Bans
  <1>9. /\ more \in Bans /\ more.op = "erase" /\ more.todo = j.todo \ {seq}
        /\ more.due = j.due \cup banned /\ more.rules = j.rules \cup banned
    <2> HIDE DEF banned
    <2> QED
      BY <1>1, <1>2, <1>6 DEF Bans
  <1>10. job' = [job EXCEPT ![t] = more] \/ job' = [job EXCEPT ![t] = rest]
    BY <1>4 DEF Collect
  <1>11. IsFiniteSet(j.rules \cup banned)
    BY <1>3, <1>6, FS_Union
  <1> HIDE DEF banned, rest, more
  <1>12. /\ job' \in [Threads -> Jobs]
         /\ \A u \in Threads \ {t} : job'[u] = job[u]
         /\ job'[t].op = "erase" /\ job'[t].todo \subseteq DOMAIN posts
         /\ job'[t].due \subseteq job'[t].rules /\ IsFiniteSet(job'[t].rules)
    BY <1>3, <1>8, <1>9, <1>10, <1>11 DEF DispatcherTypeOK, Jobs
  <1>13. DispatcherTypeOK'
    BY <1>1, <1>7, <1>12 DEF DispatcherTypeOK, blacklistVars
  <1>14. BansUnderWay'
    <2> SUFFICES ASSUME NEW u \in Threads
                 PROVE  /\ job'[u].op \in {"erase", "persist"} =>
                              /\ job'[u].todo \subseteq DOMAIN posts'
                              /\ job'[u].due \subseteq job'[u].rules
                              /\ IsFiniteSet(job'[u].rules)
                        /\ job'[u].op = "persist" <=> writer = u
                        /\ job'[u].op = "persist" => job'[u].rules \subseteq m_rules
      BY <1>1 DEF BansUnderWay, blacklistVars
    <2>1. CASE u = t
      BY <1>1, <1>7, <1>12, <2>1 DEF BansUnderWay
    <2>2. CASE u # t
      BY <1>7, <1>12, <2>2 DEF BansUnderWay
    <2> QED
      BY <2>1, <2>2
  <1>15. BansHeld'
    BY <1>1 DEF BansHeld, Standing, blacklistVars
  <1> QED
    BY <1>13, <1>14, <1>15

\* AddBatch puts the collected rules in memory, and truncates the file or leaves
\* it as it is.
LEMMA BanKeeps ==
  ASSUME DispatcherInv, NEW t \in Threads, BanAuthors(t)
  PROVE  DispatcherInv'
  <1> USE DEF DispatcherInv
  <1> DEFINE j == job[t]
             written == [j EXCEPT !.op = "persist"]
  <1>1. /\ UNCHANGED <<fetched, durable, tagged, posts>>
        /\ writer = Nobody /\ j.op = "erase" /\ m_rules' = m_rules \cup j.rules
        /\ \/ file' = <<>> /\ writer' = t /\ job' = [job EXCEPT ![t] = written]
           \/ file' = file /\ writer' = Nobody /\ job' = [job EXCEPT ![t] = Idle]
    BY BlacklistAssumption DEF BanAuthors, AddBatch, CanRead, Does, Becomes
  <1>2. j \in Bans
    BY <1>1 DEF DispatcherTypeOK, Jobs, Idle
  <1>3. j.todo \subseteq DOMAIN posts /\ j.due \subseteq j.rules /\ IsFiniteSet(j.rules)
    BY <1>1 DEF BansUnderWay
  <1>4. /\ written \in Bans /\ written.op = "persist" /\ written.todo = j.todo
        /\ written.due = j.due /\ written.rules = j.rules
    BY <1>2 DEF Bans
  <1>5. m_rules' \in SUBSET ProperRules /\ IsFiniteSet(m_rules')
    BY <1>1, <1>2, <1>3, FS_Union DEF DispatcherTypeOK, Bans
  <1> HIDE DEF written
  <1>6. /\ job' \in [Threads -> Jobs]
        /\ \A u \in Threads \ {t} : job'[u] = job[u]
        /\ \/ job'[t] = written /\ writer' = t
           \/ job'[t] = Idle /\ writer' = Nobody
    BY <1>1, <1>4 DEF DispatcherTypeOK, Jobs
  <1>7. file' \in Seq(FileLines) /\ writer' \in Threads \cup {Nobody}
    <2>1. <<>> \in Seq(FileLines)
      OBVIOUS
    <2> QED
      BY <1>1, <2>1 DEF DispatcherTypeOK
  <1>8. DispatcherTypeOK'
    BY <1>1, <1>5, <1>6, <1>7 DEF DispatcherTypeOK
  <1>9. BansUnderWay'
    <2> SUFFICES ASSUME NEW u \in Threads
                 PROVE  /\ job'[u].op \in {"erase", "persist"} =>
                              /\ job'[u].todo \subseteq DOMAIN posts
                              /\ job'[u].due \subseteq job'[u].rules
                              /\ IsFiniteSet(job'[u].rules)
                        /\ job'[u].op = "persist" <=> writer' = u
                        /\ job'[u].op = "persist" => job'[u].rules \subseteq m_rules'
      BY <1>1 DEF BansUnderWay
    <2>1. t # Nobody /\ u # Nobody
      BY BlacklistAssumption
    <2>2. CASE u = t
      BY <1>1, <1>3, <1>4, <1>6, <2>1, <2>2 DEF Idle
    <2>3. CASE u # t
      BY <1>1, <1>6, <2>1, <2>3 DEF BansUnderWay
    <2> QED
      BY <2>2, <2>3
  <1>10. BansHeld'
    <2>1. Standing' = Standing
      BY <1>1 DEF Standing
    <2>2. writer' = Nobody => file' = file
      BY <1>1, BlacklistAssumption
    <2> QED
      BY <1>1, <2>1, <2>2 DEF BansHeld
  <1> QED
    BY <1>8, <1>9, <1>10

\* PersistToFile writes everything in memory.  The rules that become durable are
\* in it, and so are those that were; all are read back unless a name with a line
\* in brackets was among those of their dimension.
LEMMA WriteKeeps ==
  ASSUME DispatcherInv, NEW t \in Threads, WriteBan(t)
  PROVE  DispatcherInv'
  <1> USE DEF DispatcherInv
  <1> DEFINE j == job[t]
  <1>1. /\ UNCHANGED <<m_rules, fetched, posts>>
        /\ j.op = "persist" /\ writer = t /\ file' \in Files(m_rules) /\ writer' = Nobody
        /\ MakeDurable(j.due) /\ job' = [job EXCEPT ![t] = Idle]
        /\ tagged' = tagged \cup
             {r.dim : r \in {q \in m_rules : \E line \in Range(Written[q.name]) : Bracketed(line)}}
    BY DEF WriteBan, PersistToFile, Does, Becomes
  <1>2. j.due \subseteq m_rules
    BY <1>1 DEF BansUnderWay
  <1>3. m_rules \in SUBSET ProperRules /\ IsFiniteSet(m_rules)
    BY DEF DispatcherTypeOK
  <1>4. /\ durable \subseteq durable'
        /\ \A r \in durable' \ durable :
              r \in j.due /\ Plain(r.name) /\ \A u \in Threads : fetched[u] = {}
    BY <1>1 DEF MakeDurable, Undisturbed, Reloading
  <1>5. durable' \in SUBSET PlainRules
    <2>1. \A r \in durable' \ durable : r \in PlainRules
      BY <1>2, <1>3, <1>4 DEF ProperRules, PlainRules, PlainNames
    <2> QED
      BY <2>1 DEF DispatcherTypeOK
  <1>6. file' \in Seq(FileLines)
    BY <1>1, <1>3, FileIsRead
  <1>7. /\ job' \in [Threads -> Jobs] /\ job'[t] = Idle
        /\ \A u \in Threads \ {t} : job'[u] = job[u]
    BY <1>1 DEF DispatcherTypeOK, Jobs
  <1>8. DispatcherTypeOK'
    <2>1. tagged' \in SUBSET Dims
      BY <1>1, <1>3 DEF DispatcherTypeOK, ProperRules
    <2> QED
      BY <1>1, <1>5, <1>6, <1>7, <2>1 DEF DispatcherTypeOK
  <1>9. BansUnderWay'
    <2> SUFFICES ASSUME NEW u \in Threads
                 PROVE  /\ job'[u].op \in {"erase", "persist"} =>
                              /\ job'[u].todo \subseteq DOMAIN posts
                              /\ job'[u].due \subseteq job'[u].rules
                              /\ IsFiniteSet(job'[u].rules)
                        /\ job'[u].op = "persist" <=> writer' = u
                        /\ job'[u].op = "persist" => job'[u].rules \subseteq m_rules
      BY <1>1 DEF BansUnderWay
    <2>1. t # Nobody /\ u # Nobody
      BY BlacklistAssumption
    <2>2. CASE u = t
      BY <1>1, <1>7, <2>1, <2>2 DEF Idle
    <2>3. CASE u # t
      BY <1>1, <1>7, <2>1, <2>3 DEF BansUnderWay
    <2> QED
      BY <2>2, <2>3
  <1>10. ASSUME NEW r \in Standing'
         PROVE  r \in m_rules /\ r \in durable' /\ r.dim \notin tagged'
    <2>1. r \in durable' /\ r.dim \notin tagged'
      BY DEF Standing
    <2>2. CASE r \in durable
      <3>1. r \in Standing
        BY <1>1, <2>1, <2>2 DEF Standing
      <3> QED
        BY <2>1, <3>1 DEF BansHeld
    <2>3. CASE r \notin durable
      BY <1>2, <1>4, <2>1, <2>3
    <2> QED
      BY <2>2, <2>3
  <1>11. Standing' \subseteq FetchLatestBlackList(file')
    <2> SUFFICES ASSUME NEW r \in Standing'
                 PROVE  r \in FetchLatestBlackList(file')
      OBVIOUS
    <2>1. r \in m_rules /\ Plain(r.name) /\ r.dim \in Dims
      BY <1>5, <1>10, PlainIsProper
    <2>2. ASSUME NEW q \in m_rules, q.dim = r.dim, NEW line \in Range(Written[q.name])
          PROVE  ~Bracketed(line)
      BY <1>1, <1>10, <2>2
    <2> QED
      BY <1>1, <1>3, <2>1, <2>2, FileIsRead
  <1>12. \A u \in Threads : \A rules \in fetched[u] : Standing' \subseteq rules
    <2> SUFFICES ASSUME NEW u \in Threads, NEW rules \in fetched[u], NEW r \in Standing'
                 PROVE  r \in rules
      OBVIOUS
    <2>1. r \in durable /\ r.dim \notin tagged
      BY <1>1, <1>4, <1>10
    <2>2. r \in Standing
      BY <2>1 DEF Standing
    <2> QED
      BY <2>2 DEF BansHeld
  <1>13. BansHeld'
    BY <1>1, <1>10, <1>11, <1>12 DEF BansHeld
  <1> QED
    BY <1>8, <1>9, <1>13

\* What an operator keeps in the file is read back.
LEMMA OperatorKeeps ==
  ASSUME DispatcherInv, Operator
  PROVE  DispatcherInv'
  <1> USE DEF DispatcherInv
  <1>1. PICK rules \in Edits : OperatorEdits(rules)
    BY DEF Operator
  <1>2. /\ UNCHANGED <<m_rules, writer, fetched, tagged, posts, job>>
        /\ file' \in Files(rules) /\ durable' = durable \cap rules
    BY <1>1 DEF Operator, OperatorEdits
  <1>3. IsFiniteSet(rules) /\ rules \in SUBSET PlainRules
    BY BlacklistAssumption DEF PlainRules, PlainNames
  <1>4. file' \in Seq(FileLines) /\ rules \subseteq FetchLatestBlackList(file')
    BY <1>2, <1>3, PlainFileIsRead
  <1>5. Standing' \subseteq Standing /\ Standing' \subseteq rules
    BY <1>2 DEF Standing
  <1>6. DispatcherTypeOK'
    BY <1>2, <1>4 DEF DispatcherTypeOK
  <1>7. BansUnderWay'
    BY <1>2 DEF BansUnderWay
  <1>8. BansHeld'
    BY <1>2, <1>4, <1>5 DEF BansHeld
  <1> QED
    BY <1>6, <1>7, <1>8

\* A step that touches neither rules nor comments.
LEMMA CooldownKeeps ==
  ASSUME DispatcherInv, CooldownChanges \/ UNCHANGED dispatcherVars
  PROVE  DispatcherInv'
  BY DEF DispatcherInv, CooldownChanges, dispatcherVars, blacklistVars, DispatcherTypeOK,
         BansUnderWay, BansHeld, Standing

-----------------------------------------------------------------------------
(* The theorems.                                                           *)

\* Whatever clients post, agents block and operators write, in however many
\* threads, the rules that nothing has endangered are in memory, in what every
\* Reload under way will swap in, and in what the file gives back.
THEOREM DispatcherInvariant ==
  DispatcherSpec => []DispatcherInv
  <1>1. DispatcherInv /\ [DispatcherNext]_dispatcherVars => DispatcherInv'
    <2> SUFFICES ASSUME DispatcherInv, [DispatcherNext]_dispatcherVars
                 PROVE  DispatcherInv'
      OBVIOUS
    <2>1. ASSUME NEW t \in Threads, Reload(t)
          PROVE  DispatcherInv'
      BY <2>1, ReloadReadsKeeps, ReloadSwapsKeeps DEF Reload
    <2>2. ASSUME NEW t \in Threads,
                 \/ \E c \in Comments : CheckPost(t, c)
                 \/ PushComment(t)
                 \/ \E seqs \in (SUBSET DOMAIN posts) \ {{}} : AgentBlocks(t, seqs)
          PROVE  DispatcherInv'
      BY <2>2, PostsKeep
    <2>3. ASSUME NEW t \in Threads, EraseComment(t)
          PROVE  DispatcherInv'
      BY <2>3, EraseKeeps
    <2>4. ASSUME NEW t \in Threads, BanAuthors(t)
          PROVE  DispatcherInv'
      BY <2>4, BanKeeps
    <2>5. ASSUME NEW t \in Threads, WriteBan(t)
          PROVE  DispatcherInv'
      BY <2>5, WriteKeeps
    <2>6. CASE Operator
      BY <2>6, OperatorKeeps
    <2>7. CASE CooldownChanges \/ UNCHANGED dispatcherVars
      BY <2>7, CooldownKeeps
    <2> QED
      BY <2>1, <2>2, <2>3, <2>4, <2>5, <2>6, <2>7 DEF DispatcherNext, Handler
  <1> QED
    BY <1>1, DispatcherStarts, PTL DEF DispatcherSpec

\* A banned author or address stays blocked through any interleaving of bans,
\* reloads and edits that keep the rule, as long as none of them fell into the
\* windows that durable and tagged tell of.
THEOREM BannedAlwaysBlocked ==
  DispatcherSpec => []BannedStaysBlocked
  <1>1. ASSUME DispatcherInv
        PROVE  BannedStaysBlocked
    <2> SUFFICES ASSUME NEW r \in durable, NEW c \in Comments,
                        Matches(r, c), r.dim \notin tagged
                 PROVE  CheckComment(m_rules, c) # "none"
      BY DEF BannedStaysBlocked
    <2>1. r \in m_rules
      BY <1>1 DEF DispatcherInv, BansHeld, Standing
    <2>2. r \in PlainRules
      BY <1>1 DEF DispatcherInv, DispatcherTypeOK
    <2>3. r.dim \in Dims /\ Plain(r.name) /\ r = Rule(r.dim, r.name)
      BY <2>2, PlainIsProper
    <2>4. CASE r.dim = "nick"
      BY <2>1, <2>3, <2>4 DEF Matches, CheckComment
    <2>5. CASE r.dim = "ip"
      <3>1. c.ip = r.name
        BY <2>5 DEF Matches
      <3>2. c.ip # ""
        BY <2>3, <3>1, BlacklistAssumption DEF Plain, IsName
      <3> QED
        BY <2>1, <2>3, <2>5, <3>1, <3>2 DEF CheckComment
    <2>6. CASE r.dim = "kw"
      <3>1. r.name \in c.words
        BY <2>6 DEF Matches
      <3> QED
        BY <2>1, <2>3, <2>6, <3>1 DEF CheckComment
    <2> QED
      BY <2>3, <2>4, <2>5, <2>6 DEF Dims
  <1> QED
    BY <1>1, DispatcherInvariant, PTL
=============================================================================
