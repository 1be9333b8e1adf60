-------------------------- MODULE SysMetricsDaemon --------------------------
(***************************************************************************)
(* The thread that samples the machine once a second and works the circuit *)
(* breaker g_agent_cooldown_mode, a flag the agent sets and clears too.    *)
(* Memory and disk figures are only reported and left out.                 *)
(*                                                                         *)
(* The processor load is a double.  A sample c stands for any load from c  *)
(* to c + 1 per mille, and the average is the interval from low to high    *)
(* that the code's figure lies in, rounded outwards at every step by more  *)
(* than a double can be off.  Where a threshold lies in the interval, both *)
(* outcomes of the comparison are possible.                                *)
(***************************************************************************)
EXTENDS Integers

CONSTANTS
    CpuSamples,    \* loads /proc/stat may yield, per mille
    QpsSamples,    \* requests that may arrive between two samples
    Settle         \* bound: samples in a row that are told apart

\* The average needs four samples to climb over the trigger or to sink below
\* the threshold of recovery.
ASSUME DaemonAssumption ==
    /\ CpuSamples \subseteq 0..1000 /\ QpsSamples \subseteq Nat
    /\ Settle \in Nat /\ Settle >= 4

VARIABLES
    cooldownMode,  \* g_agent_cooldown_mode
    metrics,       \* g_cached_metrics: cpu_usage between low and high, and qps
    firstRun,      \* is_first_run
    daemon,        \* the thread: "loop", "trip" or "recover" (about to store
                   \* the flag), "test" (m_mtx held, the predicate evaluated),
                   \* "wait" (asleep), "done"
    m_running,
    stopper,       \* Stop(): "no", "stored", "notified", "returned"
    hot, calm      \* history: samples in a row, of high processor load and of
                   \* no load, since the agent's last command

daemonVars == <<cooldownMode, metrics, firstRun, daemon, m_running, stopper, hot, calm>>

CPU_TRIGGER_THRESHOLD == 950
QPS_TRIGGER_THRESHOLD == 10000
CPU_RECOVER_THRESHOLD == 800
QPS_RECOVER_THRESHOLD == 7000

\* Start() has been called.
DaemonInit ==
    /\ cooldownMode = FALSE
    /\ metrics = [low |-> 20, high |-> 20, qps |-> 0]
    /\ firstRun = TRUE
    /\ daemon = "loop"
    /\ m_running = TRUE
    /\ stopper = "no"
    /\ hot = 0
    /\ calm = 0

-----------------------------------------------------------------------------

\* The usage that is reported: nothing to compare with on the first run, and
\* estimated from the requests when /proc/stat cannot be read.
CpuUsage(linux, cpu, qps) ==
    IF ~linux THEN 20 + (850 * (IF qps < 1400 THEN qps ELSE 1400)) \div 1400
    ELSE IF firstRun THEN 20 ELSE cpu

\* Three tenths of the old average and seven of the new usage.
AverageLow(cpu) == (3 * metrics.low + 7 * cpu - 1) \div 10
AverageHigh(cpu) == (3 * metrics.high + 7 * (cpu + 1)) \div 10 + 1

\* Variant: the smoothing keeps the old number of requests.
SmoothedKeepsQps(linux, cpu, qps) ==
    IF firstRun /\ linux THEN [low |-> cpu, high |-> cpu + 1, qps |-> qps]
    ELSE [low |-> AverageLow(cpu), high |-> AverageHigh(cpu), qps |-> metrics.qps]

\* The exponential average; the first real sample is taken as it is.
Smoothed(linux, cpu, qps) ==
    IF firstRun /\ linux THEN [low |-> cpu, high |-> cpu + 1, qps |-> qps]
    ELSE [low |-> AverageLow(cpu), high |-> AverageHigh(cpu), qps |-> qps]

\* The outcomes the two comparisons can have.
Overloaded(m) ==
    {b \in BOOLEAN :
        IF b THEN m.high > CPU_TRIGGER_THRESHOLD \/ m.qps > QPS_TRIGGER_THRESHOLD
        ELSE m.low <= CPU_TRIGGER_THRESHOLD /\ m.qps <= QPS_TRIGGER_THRESHOLD}
Recovered(m) ==
    {b \in BOOLEAN :
        IF b THEN m.low < CPU_RECOVER_THRESHOLD /\ m.qps < QPS_RECOVER_THRESHOLD
        ELSE m.high >= CPU_RECOVER_THRESHOLD \/ m.qps >= QPS_RECOVER_THRESHOLD}

\* What the breaker does, given the flag it has loaded.
Decision(overloaded, recovered) ==
    IF overloaded THEN (IF cooldownMode THEN "test" ELSE "trip")
    ELSE IF recovered /\ cooldownMode THEN "recover" ELSE "test"

\* History.  From the other end of the scale four samples take the average 99.19
\* per cent of the way: it is over the trigger only if they are above 95.78 per
\* cent, and below the threshold of recovery only if they are below 79.84.
HotFrom == 960
CalmUpTo == 796

Count(n, again) == IF ~again THEN 0 ELSE IF n < Settle THEN n + 1 ELSE n

\* One round: read /proc, count the requests, smooth, decide.
Sample(linux, cpu, qps) ==
    LET usage == CpuUsage(linux, cpu, qps)
        next  == Smoothed(linux, usage, qps)
    IN  /\ daemon = "loop" /\ m_running
        /\ metrics' = next
        /\ firstRun' = (firstRun /\ ~linux)
        /\ \E overloaded \in Overloaded(next), recovered \in Recovered(next) :
              daemon' = Decision(overloaded, recovered)
        /\ hot' = Count(hot, usage >= HotFrom)
        /\ calm' = Count(calm, usage <= CalmUpTo /\ qps < QPS_RECOVER_THRESHOLD)
        /\ UNCHANGED <<cooldownMode, m_running, stopper>>

\* The store is apart from the load: the agent's may fall in between.
Store ==
    /\ daemon \in {"trip", "recover"}
    /\ cooldownMode' = (daemon = "trip")
    /\ daemon' = "test"
    /\ UNCHANGED <<metrics, firstRun, m_running, stopper, hot, calm>>

Goes(from, to) ==
    /\ daemon = from
    /\ daemon' = to
    /\ UNCHANGED <<cooldownMode, metrics, firstRun, m_running, stopper, hot, calm>>

\* wait_for: the predicate is evaluated and the thread goes to sleep without
\* letting m_mtx go, so Stop's notification comes before or after both.
TestPredicate == Goes("test", IF m_running THEN "wait" ELSE "loop")

\* The second is over.
WaitEnds == Goes("wait", "loop")

DaemonEnds == ~m_running /\ Goes("loop", "done")

StopStores ==
    /\ stopper = "no"
    /\ m_running' = FALSE
    /\ stopper' = "stored"
    /\ UNCHANGED <<cooldownMode, metrics, firstRun, daemon, hot, calm>>

\* Under m_mtx: a sleeping thread wakes, finds the predicate true and goes on.
StopNotifies ==
    /\ stopper = "stored"
    /\ stopper' = "notified"
    /\ daemon' = IF daemon = "wait" THEN "loop" ELSE daemon
    /\ UNCHANGED <<cooldownMode, metrics, firstRun, m_running, hot, calm>>

StopJoins ==
    /\ stopper = "notified"
    /\ daemon = "done"
    /\ stopper' = "returned"
    /\ UNCHANGED <<cooldownMode, metrics, firstRun, daemon, m_running, hot, calm>>

\* HandleAgentControl with a cooldown command.
AgentCooldown(on) ==
    /\ cooldownMode' = on
    /\ hot' = 0
    /\ calm' = 0
    /\ UNCHANGED <<metrics, firstRun, daemon, m_running, stopper>>

DaemonNext ==
    \/ \E linux \in BOOLEAN, cpu \in CpuSamples, qps \in QpsSamples : Sample(linux, cpu, qps)
    \/ Store
    \/ TestPredicate
    \/ WaitEnds
    \/ DaemonEnds
    \/ StopStores
    \/ StopNotifies
    \/ StopJoins
    \/ \E on \in BOOLEAN : AgentCooldown(on)

DaemonSpec == DaemonInit /\ [][DaemonNext]_daemonVars

-----------------------------------------------------------------------------
(* Properties.                                                             *)

\* The breaker follows the load although the figures are smoothed and the agent
\* moves the same flag: after Settle samples in a row of at least HotFrom it is
\* on, after Settle of at most CalmUpTo and few requests it is off, counted from
\* the agent's last command.
BreakerFollowsLoad ==
    daemon \in {"test", "wait"} =>
        /\ hot = Settle => cooldownMode
        /\ calm = Settle => ~cooldownMode
=============================================================================
