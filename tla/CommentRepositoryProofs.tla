----------------------- MODULE CommentRepositoryProofs -----------------------
(***************************************************************************)
(* Proofs about CommentRepository, for any threads, comments and bounds.   *)
(***************************************************************************)
EXTENDS CommentRepository, FiniteSetTheorems, WellFoundedInduction, TLAPS

-----------------------------------------------------------------------------
(* The largest number of a finite set, and what executing a queue computes. *)

\* A finite, non-empty set of natural numbers has a largest member.
LEMMA MaxIsThere ==
  ASSUME NEW D \in SUBSET Nat, IsFiniteSet(D), D # {}
  PROVE  Max(D) \in D /\ \A y \in D : y <= Max(D)
  <1> DEFINE Above(x) == {y \in D : y > x}
             U == {Above(x) : x \in D}
  <1>1. U \subseteq FiniteSubsetsOf(D)
    <2> SUFFICES ASSUME NEW x \in D
                 PROVE  Above(x) \in FiniteSubsetsOf(D)
      OBVIOUS
    <2>1. Above(x) \subseteq D
      OBVIOUS
    <2> HIDE DEF Above
    <2> QED
      BY <2>1, FS_Subset DEF FiniteSubsetsOf
  <1>2. U # {}
    OBVIOUS
  <1> HIDE DEF U
  <1>3. PICK A \in U : \A B \in U : <<B, A>> \notin StrictSubsetOrdering(D)
    BY <1>1, <1>2, FS_StrictSubsetOrderingWellFounded, WFMin
  <1>4. PICK x \in D : A = Above(x)
    BY DEF U
  <1>5. ASSUME NEW y \in D, y > x
        PROVE  FALSE
    <2>0. \A z \in D : z > y => z > x
      BY <1>5
    <2>1. /\ y \in Above(x) /\ y \notin Above(y)
          /\ Above(y) \subseteq Above(x)
          /\ Above(x) \subseteq D
      <3>1. y \in Above(x)
        BY <1>5
      <3>2. y \notin Above(y)
        BY <1>5
      <3>3. Above(y) \subseteq Above(x)
        BY <2>0
      <3>4. Above(x) \subseteq D
        OBVIOUS
      <3> QED
        BY <3>1, <3>2, <3>3, <3>4
    <2>2. Above(y) \in U
      BY DEF U
    <2> HIDE DEF Above
    <2>3. <<Above(y), Above(x)>> \in StrictSubsetOrdering(D)
      BY <2>1 DEF StrictSubsetOrdering
    <2> QED
      BY <1>3, <1>4, <2>2, <2>3
  <1>6. \A y \in D : x >= y
    BY <1>5
  <1> HIDE DEF Above
  <1> QED
    BY <1>6 DEF Max

\* A non-empty set of natural numbers has a least member.
LEMMA LeastNatural ==
  ASSUME NEW T \in SUBSET Nat, T # {}
  PROVE  \E m \in T : \A n \in T : m <= n
  <1> DEFINE U == {0 .. n : n \in T}
  <1>1. U \subseteq FiniteSubsetsOf(Nat)
    <2> SUFFICES ASSUME NEW n \in T
                 PROVE  0 .. n \in FiniteSubsetsOf(Nat)
      OBVIOUS
    <2> QED
      BY FS_Interval DEF FiniteSubsetsOf
  <1>2. U # {}
    OBVIOUS
  <1> HIDE DEF U
  <1>3. PICK x \in U : \A y \in U : <<y, x>> \notin StrictSubsetOrdering(Nat)
    BY <1>1, <1>2, FS_StrictSubsetOrderingWellFounded, WFMin
  <1>4. PICK m \in T : x = 0 .. m
    BY DEF U
  <1>5. ASSUME NEW n \in T, n < m
        PROVE  FALSE
    <2>1. m \in 0 .. m /\ m \notin 0 .. n /\ 0 .. n \subseteq 0 .. m
      BY <1>5
    <2>2. <<0 .. n, 0 .. m>> \in StrictSubsetOrdering(Nat)
      BY <2>1 DEF StrictSubsetOrdering
    <2> QED
      BY <1>3, <1>4, <2>2 DEF U
  <1> QED
    BY <1>5

\* The largest member of a part of 1 .. n.
LEMMA MaxOfPart ==
  ASSUME NEW n \in Nat, NEW s \in SUBSET (1 .. n), s # {}
  PROVE  Max(s) \in s /\ \A y \in s : y <= Max(s)
  <1>0. IsFiniteSet(1 .. n)
    BY FS_Interval
  <1>1. IsFiniteSet(s)
    BY <1>0, FS_Subset
  <1>2. s \in SUBSET Nat
    OBVIOUS
  <1> QED
    BY <1>1, <1>2, MaxIsThere

\* The function that the fold behind Executed evaluates: the table after the
\* tasks at a set of positions.
Iterates(f, t, q, D) ==
    f = [s \in SUBSET D |->
           IF s = {} THEN t
           ELSE LET x == Max(s) IN ExecuteTask(f[s \ {x}], q[x])]

\* Executed is the value of that function at the whole queue.
LEMMA ExecutedValue ==
  ASSUME NEW t, NEW q
  PROVE  Executed(t, q) = (CHOOSE f : Iterates(f, t, q, DOMAIN q))[DOMAIN q]
  BY DEF Executed, FoldLeft, MapThenFoldSet, Iterates

\* There is such a function for every length.
LEMMA IteratesExists ==
  ASSUME NEW t, NEW q
  PROVE  \A n \in Nat : \E f : Iterates(f, t, q, 1 .. n)
  <1> DEFINE Good(n) == \E f : Iterates(f, t, q, 1 .. n)
             T == {n \in Nat : ~Good(n)}
  <1> SUFFICES ASSUME T # {}
               PROVE  FALSE
    OBVIOUS
  <1>1. T \in SUBSET Nat
    OBVIOUS
  <1> HIDE DEF T
  <1>2. PICK n \in T : \A i \in T : n <= i
    BY <1>1, LeastNatural
  <1>3. n \in Nat /\ ~Good(n)
    BY <1>2 DEF T
  <1>4. CASE n = 0
    <2> DEFINE f == [s \in SUBSET (1 .. 0) |-> t]
    <2>1. \A s \in SUBSET (1 .. 0) : s = {}
      OBVIOUS
    <2>2. Iterates(f, t, q, 1 .. 0)
      BY <2>1 DEF Iterates
    <2> QED
      BY <1>3, <1>4, <2>2
  <1>5. CASE n # 0
    <2>1. n - 1 \in Nat /\ ~(n <= n - 1)
      BY <1>3, <1>5
    <2>2. Good(n - 1)
      BY <1>2, <2>1 DEF T
    <2>3. PICK f : Iterates(f, t, q, 1 .. (n - 1))
      BY <2>2
    <2> DEFINE g == [s \in SUBSET (1 .. n) |->
                       IF n \in s THEN ExecuteTask(f[s \ {n}], q[n]) ELSE f[s]]
    <2>4. ASSUME NEW s \in SUBSET (1 .. n)
          PROVE  g[s] = IF s = {} THEN t
                        ELSE ExecuteTask(g[s \ {Max(s)}], q[Max(s)])
      <3>1. CASE s = {}
        <4>1. {} \in SUBSET (1 .. (n - 1)) /\ n \notin s
          BY <3>1
        <4>2. f[{}] = t
          BY <2>3, <4>1 DEF Iterates
        <4> QED
          BY <3>1, <4>1, <4>2
      <3>2. CASE s # {} /\ n \in s
        <4>1. Max(s) = n
          <5>1. Max(s) \in s /\ n <= Max(s)
            BY <1>3, <3>2, MaxOfPart
          <5>2. Max(s) \in 1 .. n
            BY <5>1
          <5> QED
            BY <1>3, <5>1, <5>2
        <4>2. s \ {n} \in SUBSET (1 .. n) /\ n \notin s \ {n}
          OBVIOUS
        <4>3. g[s \ {n}] = f[s \ {n}]
          BY <4>2
        <4>4. g[s] = ExecuteTask(f[s \ {n}], q[n])
          BY <3>2
        <4> HIDE DEF g
        <4> QED
          BY <3>2, <4>1, <4>3, <4>4
      <3>3. CASE s # {} /\ n \notin s
        <4>1. Max(s) \in s
          BY <1>3, <3>3, MaxOfPart
        <4>2. s \in SUBSET (1 .. (n - 1))
          BY <1>3, <3>3
        <4>3. s \ {Max(s)} \in SUBSET (1 .. n) /\ n \notin s \ {Max(s)}
          BY <3>3
        <4>4. g[s] = f[s] /\ g[s \ {Max(s)}] = f[s \ {Max(s)}]
          BY <3>3, <4>3
        <4>5. f[s] = ExecuteTask(f[s \ {Max(s)}], q[Max(s)])
          BY <2>3, <3>3, <4>2 DEF Iterates
        <4> HIDE DEF g
        <4> QED
          BY <3>3, <4>4, <4>5
      <3> QED
        BY <3>1, <3>2, <3>3
    <2>5. g = [s \in SUBSET (1 .. n) |-> g[s]]
      OBVIOUS
    <2> HIDE DEF g
    <2>6. Iterates(g, t, q, 1 .. n)
      BY <2>4, <2>5 DEF Iterates
    <2> QED
      BY <1>3, <2>6
  <1> QED
    BY <1>4, <1>5

\* The tables a queue goes through, task after task.
Traces(h, t, q) ==
    /\ h = [k \in 0 .. Len(q) |-> h[k]]
    /\ h[0] = t
    /\ \A k \in 1 .. Len(q) : h[k] = ExecuteTask(h[k - 1], q[k])

\* Executed is the last of such tables.
LEMMA ExecutedIsTraced ==
  ASSUME NEW t, NEW S, NEW q \in Seq(S)
  PROVE  \E h : Traces(h, t, q) /\ Executed(t, q) = h[Len(q)]
  <1>1. DOMAIN q = 1 .. Len(q) /\ Len(q) \in Nat
    OBVIOUS
  <1> DEFINE f == CHOOSE f : Iterates(f, t, q, 1 .. Len(q))
             h == [k \in 0 .. Len(q) |-> f[1 .. k]]
  <1>2. Iterates(f, t, q, 1 .. Len(q))
    BY <1>1, IteratesExists
  <1>3. Executed(t, q) = f[1 .. Len(q)]
    BY <1>1, ExecutedValue
  <1> HIDE DEF f
  <1>4. h[0] = t
    <2>1. 1 .. 0 = {} /\ 0 \in 0 .. Len(q)
      BY <1>1
    <2>2. f[{}] = t
      BY <1>2 DEF Iterates
    <2> QED
      BY <2>1, <2>2
  <1>5. ASSUME NEW k \in 1 .. Len(q)
        PROVE  h[k] = ExecuteTask(h[k - 1], q[k])
    <2> DEFINE s == 1 .. k
    <2>1. /\ s \in SUBSET (1 .. Len(q)) /\ k \in s /\ k \in Nat
          /\ s # {}
      <3>1. \A n \in Nat : \A i \in 1 .. n :
              /\ 1 .. i \subseteq 1 .. n /\ i \in 1 .. i /\ i \in Nat
        OBVIOUS
      <3> QED
        BY <1>1, <3>1
    <2>2. Max(s) = k
      <3>1. Max(s) \in s /\ k <= Max(s)
        BY <1>1, <2>1, MaxOfPart
      <3> QED
        BY <2>1, <3>1
    <2>3. s \ {k} = 1 .. (k - 1)
      BY <2>1
    <2> HIDE DEF s
    <2>4. f[s] = ExecuteTask(f[s \ {k}], q[k])
      BY <1>2, <2>1, <2>2 DEF Iterates
    <2>5. h[k] = f[s] /\ h[k - 1] = f[1 .. (k - 1)]
      BY <1>1 DEF s
    <2> QED
      BY <2>3, <2>4, <2>5
  <1>6. h = [k \in 0 .. Len(q) |-> h[k]] /\ h[Len(q)] = f[1 .. Len(q)]
    BY <1>1
  <1> HIDE DEF h
  <1> QED
    BY <1>3, <1>4, <1>5, <1>6 DEF Traces

\* And there is only one way to go through a queue.
LEMMA TraceIsUnique ==
  ASSUME NEW t, NEW S, NEW q \in Seq(S), NEW g, NEW h,
         Traces(g, t, q), Traces(h, t, q)
  PROVE  g[Len(q)] = h[Len(q)]
  <1> DEFINE T == {k \in 0 .. Len(q) : g[k] # h[k]}
  <1> SUFFICES ASSUME T # {}
               PROVE  FALSE
    OBVIOUS
  <1>1. T \in SUBSET Nat
    OBVIOUS
  <1> HIDE DEF T
  <1>2. PICK k \in T : \A i \in T : k <= i
    BY <1>1, LeastNatural
  <1>3. k \in 0 .. Len(q) /\ g[k] # h[k]
    BY <1>2 DEF T
  <1>4. k # 0
    BY <1>3 DEF Traces
  <1>5. k - 1 \in 0 .. Len(q) /\ ~(k <= k - 1) /\ k \in 1 .. Len(q)
    BY <1>3, <1>4
  <1>6. g[k - 1] = h[k - 1]
    BY <1>2, <1>5 DEF T
  <1> QED
    BY <1>3, <1>5, <1>6 DEF Traces

\* The value of Executed from any trace.
LEMMA ExecutedFromTrace ==
  ASSUME NEW t, NEW S, NEW q \in Seq(S), NEW h, Traces(h, t, q)
  PROVE  Executed(t, q) = h[Len(q)]
  BY ExecutedIsTraced, TraceIsUnique

\* Executing nothing.
LEMMA ExecutedEmpty ==
  ASSUME NEW t
  PROVE  Executed(t, <<>>) = t
  <1>1. <<>> \in Seq(Tasks) /\ Len(<<>>) = 0
    OBVIOUS
  <1>2. PICK h : Traces(h, t, <<>>) /\ Executed(t, <<>>) = h[Len(<<>>)]
    BY <1>1, ExecutedIsTraced
  <1> QED
    BY <1>1, <1>2 DEF Traces

\* The last task is executed last.
LEMMA ExecutedAppend ==
  ASSUME NEW t, NEW q \in Seq(Tasks), NEW x \in Tasks
  PROVE  Executed(t, Append(q, x)) = ExecuteTask(Executed(t, q), x)
  <1>0. Append(q, x) \in Seq(Tasks)
    OBVIOUS
  <1>1. PICK r \in Seq(Tasks) : r = Append(q, x)
    BY <1>0
  <1>2. /\ Len(r) = Len(q) + 1 /\ Len(q) \in Nat
        /\ r[Len(r)] = x
        /\ \A i \in 1 .. Len(q) : r[i] = q[i]
    BY <1>1
  <1>3. PICK h : Traces(h, t, r) /\ Executed(t, r) = h[Len(r)]
    BY ExecutedIsTraced
  <1> DEFINE g == [k \in 0 .. Len(q) |-> h[k]]
  <1>4. Traces(g, t, q)
    <2>1. g = [k \in 0 .. Len(q) |-> g[k]] /\ g[0] = t
      BY <1>2, <1>3 DEF Traces
    <2>2. ASSUME NEW k \in 1 .. Len(q)
          PROVE  g[k] = ExecuteTask(g[k - 1], q[k])
      <3>1. /\ k \in 1 .. Len(r) /\ k - 1 \in 0 .. Len(q)
            /\ k \in 0 .. Len(q) /\ r[k] = q[k]
        BY <1>2
      <3> QED
        BY <1>3, <3>1 DEF Traces
    <2> HIDE DEF g
    <2> QED
      BY <2>1, <2>2 DEF Traces
  <1>5. g[Len(q)] = h[Len(q)]
    BY <1>2
  <1> HIDE DEF g
  <1>6. Executed(t, q) = h[Len(q)]
    BY <1>4, <1>5, ExecutedFromTrace
  <1>7. Len(r) \in 1 .. Len(r) /\ Len(r) - 1 = Len(q)
    BY <1>2
  <1>8. h[Len(r)] = ExecuteTask(h[Len(q)], x)
    BY <1>2, <1>3, <1>7 DEF Traces
  <1> QED
    BY <1>1, <1>3, <1>6, <1>8

\* The first task is executed first.
LEMMA ExecutedHead ==
  ASSUME NEW t, NEW q \in Seq(Tasks), q # <<>>
  PROVE  Executed(t, q) = Executed(ExecuteTask(t, Head(q)), Tail(q))
  <1>0. Tail(q) \in Seq(Tasks)
    OBVIOUS
  <1>1. PICK r \in Seq(Tasks) : r = Tail(q)
    BY <1>0
  <1>2. /\ Len(q) = Len(r) + 1 /\ Len(r) \in Nat
        /\ Head(q) = q[1]
        /\ \A i \in 1 .. Len(r) : r[i] = q[i + 1]
    BY <1>1
  <1>3. PICK h : Traces(h, t, q) /\ Executed(t, q) = h[Len(q)]
    BY ExecutedIsTraced
  <1> DEFINE g == [k \in 0 .. Len(r) |-> h[k + 1]]
             u == ExecuteTask(t, q[1])
  <1>4. g[0] = u
    <2>1. 1 \in 1 .. Len(q) /\ 1 - 1 = 0 /\ 0 \in 0 .. Len(r) /\ 0 + 1 = 1
      BY <1>2
    <2>2. h[1] = ExecuteTask(h[1 - 1], q[1]) /\ h[0] = t
      BY <1>3, <2>1 DEF Traces
    <2> QED
      BY <2>1, <2>2
  <1>5. ASSUME NEW k \in 1 .. Len(r)
        PROVE  g[k] = ExecuteTask(g[k - 1], r[k])
    <2>1. /\ k + 1 \in 1 .. Len(q) /\ (k + 1) - 1 = k /\ (k - 1) + 1 = k
          /\ k - 1 \in 0 .. Len(r) /\ k \in 0 .. Len(r) /\ r[k] = q[k + 1]
      BY <1>2
    <2>2. h[k + 1] = ExecuteTask(h[k], q[k + 1])
      BY <1>3, <2>1 DEF Traces
    <2> QED
      BY <2>1, <2>2
  <1>6. g = [k \in 0 .. Len(r) |-> g[k]] /\ g[Len(r)] = h[Len(q)]
    BY <1>2
  <1> HIDE DEF g, u
  <1>7. Traces(g, u, r)
    BY <1>4, <1>5, <1>6 DEF Traces
  <1>8. Executed(u, r) = h[Len(q)]
    BY <1>6, <1>7, ExecutedFromTrace
  <1> QED
    BY <1>1, <1>2, <1>3, <1>8 DEF u

-----------------------------------------------------------------------------
(* The inductive invariant.                                                *)

\* What the worker still has to write.
Todo == local_queue \o m_db_queue

\* There is at most one transaction.
OneTransaction == tx = {} \/ \E t \in tx : tx = {t}

\* A process that is down has left nothing in memory.
DownIsEmpty ==
    phase = "down" =>
        /\ m_db_queue = <<>> /\ local_queue = <<>>
        /\ tx = {} /\ wpc = "none"
        /\ \A w \in Pushers : pushing[w] = None

\* Where the worker is says what it holds; a transaction is left open and a
\* batch spoilt only by a statement that the database refused.
WorkerInStep ==
    /\ wpc \notin {"begin", "exec"} => local_queue = <<>>
    /\ wpc = "exec" => tx # {} \/ ~all_ok
    /\ tx # {} /\ wpc # "exec" => failures > 0
    /\ ~all_ok => failures > 0
    /\ phase = "up" => ~m_stop_requested
    /\ wpc = "exited" => m_db_queue = <<>> /\ phase \in {"draining", "closing"}

\* What is left of the batch is what its transaction lacks.
BatchInStep ==
    /\ wpc = "begin" => local_queue = batch
    /\ wpc = "exec" /\ all_ok =>
          tx # {} /\ Executed(Table, local_queue) = Executed(db, batch)

\* t keeps every row of d, and what has been blotted out there.
Extends(d, t) ==
    \A s \in DOMAIN d :
        /\ s \in DOMAIN t
        /\ t[s].comment = d[s].comment
        /\ d[s].erased => t[s].erased

\* The task inserts the row of number s.
Inserts(task, s) == task.action = "INSERT" /\ task.seq = s

\* The numbers of a table and of the insertions still to come lie below the
\* counter, and no number is used twice.
NumbersUsedOnce(t, q, g) ==
    /\ \A s \in DOMAIN t : s < g
    /\ \A i \in 1 .. Len(q) :
          q[i].action = "INSERT" =>
             /\ q[i].seq < g /\ q[i].seq \notin DOMAIN t
             /\ \A j \in 1 .. Len(q) : Inserts(q[j], q[i].seq) => j = i

\* A number that a pusher has taken is nobody else's.
NumbersTaken(t, q, g, p) ==
    \A w \in Pushers :
        p[w] # None =>
            /\ p[w].seq < g /\ p[w].seq \notin DOMAIN t
            /\ \A i \in 1 .. Len(q) : ~Inserts(q[i], p[w].seq)
            /\ \A v \in Pushers : p[v] # None /\ p[v].seq = p[w].seq => v = w

\* The rows whose numbers this life has seen.
Known == IF blind THEN NoRows ELSE Table

NumbersAreFresh ==
    /\ ~blind => Extends(db, Table)
    /\ phase # "down" =>
        /\ NumbersUsedOnce(Known, Todo, g_comment_sequence)
        /\ NumbersTaken(Known, Todo, g_comment_sequence, pushing)

\* A slot holds a comment whose number has been given out and whose pusher is
\* done.
RingIsPast ==
    \A k \in 0 .. MaxMem - 1 :
        /\ ring[k].sequence > 0 => ring[k].comment \in Comments
        /\ phase # "down" => ring[k].sequence <= g_comment_sequence
        /\ \A w \in Pushers :
              pushing[w] # None => ring[k].sequence # pushing[w].seq + 1

\* In the life in which the agent has looked, the number it has seen can only
\* be found with the comment it has seen.
SeenIsPast ==
    seen # None =>
        /\ seen.life <= starts
        /\ seen.life = starts /\ phase # "down" =>
              /\ seen.seq < g_comment_sequence
              /\ \A w \in Pushers :
                    pushing[w] # None => pushing[w].seq # seen.seq
              /\ StillHolds(seen.seq) =>
                    ring[Slot(seen.seq)].comment = seen.comment

RepositoryInv ==
    /\ TypeOK /\ OneTransaction /\ DownIsEmpty /\ WorkerInStep /\ BatchInStep
    /\ DiskCatchesUp /\ NumbersAreFresh /\ RingIsPast /\ SeenIsPast

-----------------------------------------------------------------------------
(* Facts about tables, queues and slots.                                   *)

\* What an executed task makes of a table: it stays one, an insertion may add
\* its number, and if that is new, every row is kept.
LEMMA ExecuteTaskFacts ==
  ASSUME NEW t, IsTable(t), NEW x \in Tasks
  PROVE  /\ IsTable(ExecuteTask(t, x))
         /\ x.seq \in Nat
         /\ \A s \in DOMAIN ExecuteTask(t, x) :
               s \in DOMAIN t \/ Inserts(x, s)
         /\ (x.action = "INSERT" => x.seq \notin DOMAIN t)
               => Extends(t, ExecuteTask(t, x))
  <1>1. CASE x.action = "INSERT"
    <2>1. x \in [action : {"INSERT"}, seq : Nat, comment : Comments]
      BY <1>1 DEF Tasks
    <2> DEFINE row == [comment |-> x.comment, erased |-> FALSE]
               u == Put(t, x.seq, row)
    <2>2. row \in Rows /\ x.seq \in Nat
      BY <2>1 DEF Rows
    <2>3. ExecuteTask(t, x) = u
      BY <1>1 DEF ExecuteTask
    <2> HIDE DEF row
    <2>4. /\ DOMAIN u = DOMAIN t \cup {x.seq}
          /\ \A r \in DOMAIN u : u[r] = IF r = x.seq THEN row ELSE t[r]
      BY DEF Put
    <2> HIDE DEF u
    <2>5. IsFiniteSet(DOMAIN u)
      BY <2>4, FS_AddElement DEF IsTable
    <2>6. IsTable(u)
      BY <2>2, <2>4, <2>5 DEF IsTable
    <2>7. x.seq \notin DOMAIN t => Extends(t, u)
      BY <2>4 DEF Extends
    <2> QED
      BY <1>1, <2>2, <2>3, <2>4, <2>6, <2>7 DEF Inserts
  <1>2. CASE x.action # "INSERT" /\ x.seq \in DOMAIN t
    <2>1. x.seq \in Nat
      BY DEF Tasks
    <2> DEFINE row == [t[x.seq] EXCEPT !.erased = TRUE]
               u == Put(t, x.seq, row)
    <2>2. /\ row \in Rows
          /\ row.comment = t[x.seq].comment /\ row.erased
      BY <1>2 DEF Rows, IsTable
    <2>3. ExecuteTask(t, x) = u
      BY <1>2 DEF ExecuteTask
    <2> HIDE DEF row
    <2>4. /\ DOMAIN u = DOMAIN t
          /\ \A r \in DOMAIN u : u[r] = IF r = x.seq THEN row ELSE t[r]
      BY <1>2 DEF Put
    <2> HIDE DEF u
    <2>5. IsTable(u)
      BY <2>2, <2>4 DEF IsTable
    <2>6. Extends(t, u)
      BY <2>2, <2>4 DEF Extends
    <2> QED
      BY <2>1, <2>3, <2>4, <2>5, <2>6
  <1>3. CASE x.action # "INSERT" /\ x.seq \notin DOMAIN t
    <2>1. x.seq \in Nat
      BY DEF Tasks
    <2>2. ExecuteTask(t, x) = t
      BY <1>3 DEF ExecuteTask
    <2> QED
      BY <2>1, <2>2 DEF Extends
  <1> QED
    BY <1>1, <1>2, <1>3

\* Extends is transitive.
LEMMA ExtendsTransitive ==
  ASSUME NEW a, NEW b, NEW c, Extends(a, b), Extends(b, c)
  PROVE  Extends(a, c)
  BY DEF Extends

\* What appending and removing tasks does to two queues in a row.
LEMMA QueueFacts ==
  ASSUME NEW a \in Seq(Tasks), NEW b \in Seq(Tasks), NEW x \in Tasks
  PROVE  /\ a \o b \in Seq(Tasks)
         /\ a \o Append(b, x) = Append(a \o b, x)
         /\ a \o <<>> = a /\ <<>> \o a = a
         /\ a # <<>> => /\ a \o b # <<>>
                        /\ Tail(a) \o b = Tail(a \o b)
                        /\ Head(a) = Head(a \o b)
                        /\ Head(a) \in Tasks /\ Tail(a) \in Seq(Tasks)
  <1>1. a \o b \in Seq(Tasks) /\ a \o <<>> = a /\ <<>> \o a = a
    OBVIOUS
  <1>2. a \o Append(b, x) = Append(a \o b, x)
    OBVIOUS
  <1>3. a # <<>> => Head(a) \in Tasks /\ Tail(a) \in Seq(Tasks)
    OBVIOUS
  <1>4. a # <<>> => a \o b # <<>> /\ Head(a) = Head(a \o b)
    OBVIOUS
  <1>5. a # <<>> => Tail(a) \o b = Tail(a \o b)
    OBVIOUS
  <1> QED
    BY <1>1, <1>2, <1>3, <1>4, <1>5

\* Every number has its slot.
LEMMA SlotInRange ==
  ASSUME NEW s \in Nat
  PROVE  Slot(s) \in 0 .. MaxMem - 1
  BY CommentRepositoryAssumption DEF Slot

\* The first free number lies above all numbers of a table.
LEMMA FirstFreeIsFree ==
  ASSUME NEW t, IsTable(t)
  PROVE  FirstFree(t) \in Nat /\ \A s \in DOMAIN t : s < FirstFree(t)
  <1>1. CASE DOMAIN t = {}
    BY <1>1 DEF FirstFree
  <1>2. CASE DOMAIN t # {}
    <2>1. Max(DOMAIN t) \in DOMAIN t /\ \A s \in DOMAIN t : s <= Max(DOMAIN t)
      BY <1>2, MaxIsThere DEF IsTable
    <2>2. FirstFree(t) = 1 + Max(DOMAIN t)
      BY <1>2 DEF FirstFree
    <2>3. DOMAIN t \subseteq Nat
      BY DEF IsTable
    <2> QED
      BY <2>1, <2>2, <2>3
  <1> QED
    BY <1>1, <1>2

\* What a restored ring holds are rows of the table.
LEMMA RestoredFacts ==
  ASSUME NEW t, IsTable(t), NEW k \in 0 .. MaxMem - 1
  PROVE  /\ Restored(t)[k] \in Slots
         /\ Restored(t)[k].sequence > 0 =>
               Restored(t)[k].comment \in Comments
         /\ Restored(t)[k].sequence <= FirstFree(t)
  <1> DEFINE here == {s \in DOMAIN t : Slot(s) = k}
             m == Max(here)
             slot == [sequence |-> m + 1, comment |-> t[m].comment,
                      erased |-> t[m].erased]
  <1>1. Restored(t)[k] = IF here = {} THEN EmptySlot ELSE slot
    BY DEF Restored
  <1>2. here \subseteq DOMAIN t
    OBVIOUS
  <1> HIDE DEF here
  <1>3. FirstFree(t) \in Nat /\ \A s \in DOMAIN t : s < FirstFree(t)
    BY FirstFreeIsFree
  <1>4. CASE here = {}
    <2>1. Restored(t)[k] = EmptySlot
      BY <1>1, <1>4
    <2>2. EmptySlot \in Slots /\ EmptySlot.sequence = 0
      BY DEF EmptySlot, Slots
    <2> QED
      BY <1>3, <2>1, <2>2
  <1>5. CASE here # {}
    <2>1. IsFiniteSet(here) /\ here \in SUBSET Nat
      BY <1>2, FS_Subset DEF IsTable
    <2>2. m \in DOMAIN t
      BY <1>2, <1>5, <2>1, MaxIsThere
    <2> HIDE DEF m
    <2>3. m \in Nat /\ t[m] \in Rows /\ m < FirstFree(t)
      BY <1>3, <2>2 DEF IsTable
    <2>4. t[m].comment \in Comments /\ t[m].erased \in BOOLEAN
      BY <2>3 DEF Rows
    <2>5. slot \in Slots /\ slot.sequence = m + 1 /\ slot.comment = t[m].comment
      BY <2>3, <2>4 DEF Slots
    <2> HIDE DEF slot
    <2> QED
      BY <1>1, <1>3, <1>5, <2>3, <2>4, <2>5
  <1> QED
    BY <1>4, <1>5

\* What the SELECT has returned is a table.
LEMMA SelectedIsTable ==
  ASSUME NEW t, IsTable(t), NEW n
  PROVE  IsTable(Selected(t, n))
  <1> DEFINE D == {s \in DOMAIN t : Cardinality({r \in DOMAIN t : r > s}) < n}
  <1>1. D \subseteq DOMAIN t
    OBVIOUS
  <1>2. Selected(t, n) = [s \in D |-> t[s]]
    BY DEF Selected
  <1> HIDE DEF D
  <1>3. IsFiniteSet(D)
    BY <1>1, FS_Subset DEF IsTable
  <1> QED
    BY <1>1, <1>2, <1>3 DEF IsTable

-----------------------------------------------------------------------------
(* Types.                                                                  *)

\* TypeOK without the transaction.
PlainTypes ==
    /\ phase \in {"down", "up", "draining", "closing"}
    /\ g_comment_sequence \in Nat
    /\ ring \in [0 .. MaxMem - 1 -> Slots]
    /\ pushing \in [Pushers -> [seq : Nat, comment : Comments] \cup {None}]
    /\ m_db_queue \in Seq(Tasks) /\ local_queue \in Seq(Tasks)
    /\ wpc \in {"none", "lock", "blocking", "asleep", "begin", "exec", "exited"}
    /\ m_stop_requested \in BOOLEAN /\ all_ok \in BOOLEAN
    /\ batch \in Seq(Tasks)
    /\ blind \in BOOLEAN
    /\ seen \in [seq : Nat, comment : Comments, life : Nat] \cup {None}
    /\ posted \in SUBSET Comments
    /\ erases \in 0 .. MaxErases
    /\ failures \in 0 .. MaxFailures
    /\ starts \in 0 .. MaxStarts

Tables == IsTable(db) /\ IsTable(truth) /\ \A t \in tx : IsTable(t)

\* The first row it returns is that of the largest number.
LEMMA SelectedFirstFree ==
  ASSUME NEW t, IsTable(t), NEW n \in Nat, n # 0
  PROVE  FirstFree(Selected(t, n)) = FirstFree(t)
  <1> DEFINE u == Selected(t, n)
             m == Max(DOMAIN t)
  <1>1. /\ DOMAIN u \subseteq DOMAIN t
        /\ \A s \in DOMAIN t :
              Cardinality({r \in DOMAIN t : r > s}) < n => s \in DOMAIN u
    BY DEF Selected
  <1>2. IsTable(u)
    BY SelectedIsTable
  <1> HIDE DEF u
  <1>3. CASE DOMAIN t = {}
    <2>1. DOMAIN u = {}
      BY <1>1, <1>3
    <2> QED
      BY <1>3, <2>1 DEF FirstFree, u
  <1>4. CASE DOMAIN t # {}
    <2>1. /\ DOMAIN t \in SUBSET Nat
          /\ m \in DOMAIN t /\ \A s \in DOMAIN t : s <= m
      BY <1>4, MaxIsThere DEF IsTable
    <2> HIDE DEF m
    <2>2. {r \in DOMAIN t : r > m} = {}
      BY <2>1
    <2>3. m \in DOMAIN u
      BY <1>1, <2>1, <2>2, FS_EmptySet
    <2>4. /\ Max(DOMAIN u) \in DOMAIN u
          /\ \A s \in DOMAIN u : s <= Max(DOMAIN u)
      BY <1>2, <2>3, MaxIsThere DEF IsTable
    <2>5. Max(DOMAIN u) = m
      BY <1>1, <2>1, <2>3, <2>4
    <2>6. FirstFree(u) = 1 + m /\ FirstFree(t) = 1 + m
      BY <1>4, <2>3, <2>5 DEF FirstFree, m
    <2> QED
      BY <2>6 DEF u
  <1> QED
    BY <1>3, <1>4

\* Initialize takes counter and ring from what the SELECT has returned.
LEMMA InitializeReads ==
  ASSUME Tables, Initialize
  PROVE  \E t : /\ IsTable(t)
                /\ g_comment_sequence' = FirstFree(t)
                /\ ring' = Restored(t)
                /\ failures' = failures
                     \/ (failures < MaxFailures /\ failures' = failures + 1)
                /\ blind' \in BOOLEAN
                /\ ~blind' => FirstFree(t) = FirstFree(db)
  <1>1. PICK n \in 0 .. MaxMem :
          /\ g_comment_sequence' = FirstFree(Selected(db, n))
          /\ ring' = Restored(Selected(db, n))
          /\ failures' = failures
               \/ (failures < MaxFailures /\ failures' = failures + 1)
          /\ blind' = (n = 0 /\ DOMAIN db # {})
    BY DEF Initialize, Refuses, Accepts
  <1>2. IsTable(Selected(db, n)) /\ IsTable(db)
    BY SelectedIsTable DEF Tables
  <1>3. n # 0 => FirstFree(Selected(db, n)) = FirstFree(db)
    BY <1>2, SelectedFirstFree
  <1>4. DOMAIN db = {} => DOMAIN Selected(db, n) = {}
    BY DEF Selected
  <1>5. ~blind' => FirstFree(Selected(db, n)) = FirstFree(db)
    BY <1>1, <1>3, <1>4 DEF FirstFree
  <1> QED
    BY <1>1, <1>2, <1>5

\* The cardinality of a set with one member at most.
LEMMA OneAtMost ==
  ASSUME NEW S, S = {} \/ \E t \in S : S = {t}
  PROVE  Cardinality(S) <= 1
  <1>1. CASE S = {}
    BY <1>1, FS_EmptySet
  <1>2. CASE \E t \in S : S = {t}
    <2>1. PICK t \in S : S = {t}
      BY <1>2
    <2>2. Cardinality({t}) = 1
      BY FS_Singleton
    <2> QED
      BY <2>1, <2>2
  <1> QED
    BY <1>1, <1>2

\* The table the worker sees is the transaction's, or the committed one.
LEMMA TableFacts ==
  ASSUME OneTransaction, Tables
  PROVE  /\ tx = {} => Table = db
         /\ tx # {} => tx = {Table}
         /\ IsTable(Table)
  BY DEF OneTransaction, Tables, Table

\* The parts of TypeOK.
LEMMA TypeParts ==
  ASSUME OneTransaction
  PROVE  TypeOK <=> PlainTypes /\ Tables
  <1>1. Cardinality(tx) <= 1
    BY OneAtMost DEF OneTransaction
  <1> QED
    BY <1>1 DEF TypeOK, PlainTypes, Tables

\* Every step keeps the plain types.
LEMMA PlainStep ==
  ASSUME PlainTypes, Tables, RingIsPast, Next
  PROVE  PlainTypes'
  <1> USE DEF PlainTypes
  <1>1. CASE Initialize
    <2>1. PICK t : /\ IsTable(t)
                   /\ g_comment_sequence' = FirstFree(t) /\ ring' = Restored(t)
                   /\ failures' = failures
                        \/ (failures < MaxFailures /\ failures' = failures + 1)
                   /\ blind' \in BOOLEAN
      BY <1>1, InitializeReads
    <2>2. g_comment_sequence' \in Nat
      BY <2>1, FirstFreeIsFree
    <2>3. ring' \in [0 .. MaxMem - 1 -> Slots]
      <3>1. \A k \in 0 .. MaxMem - 1 : Restored(t)[k] \in Slots
        BY <2>1, RestoredFacts
      <3>2. Restored(t) = [k \in 0 .. MaxMem - 1 |-> Restored(t)[k]]
        BY DEF Restored
      <3> QED
        BY <2>1, <3>1, <3>2
    <2>4. starts' \in 0 .. MaxStarts /\ failures' \in 0 .. MaxFailures
      BY <1>1, <2>1, CommentRepositoryAssumption DEF Initialize
    <2> QED
      BY <1>1, <2>1, <2>2, <2>3, <2>4 DEF Initialize
  <1>11. CASE InitializeFails
    <2>1. starts' \in 0 .. MaxStarts /\ failures' \in 0 .. MaxFailures
      BY <1>11, CommentRepositoryAssumption DEF InitializeFails, Refuses
    <2> QED
      BY <1>11, <2>1 DEF InitializeFails, memoryVars, workerVars
  <1>2. ASSUME Lost, m_stop_requested' \in BOOLEAN
        PROVE  PlainTypes'
    <2>1. EmptyRing \in [0 .. MaxMem - 1 -> Slots]
      BY DEF EmptyRing, EmptySlot, Slots
    <2> QED
      BY <1>2, <2>1 DEF Lost, counters
  <1>3. CASE Crash \/ ShutdownJoins
    BY <1>2, <1>3 DEF Crash, ShutdownJoins
  <1>4. CASE ShutdownStores \/ ShutdownNotifies
    BY <1>4 DEF ShutdownStores, ShutdownNotifies, Notify, memoryVars, workerVars,
                counters
  <1>5. ASSUME NEW w \in Pushers, NEW c \in Comments, TakeSequence(w, c)
        PROVE  PlainTypes'
    <2>1. [seq |-> g_comment_sequence, comment |-> c]
             \in [seq : Nat, comment : Comments]
      OBVIOUS
    <2> QED
      BY <1>5, <2>1 DEF TakeSequence, workerVars
  <1>6. ASSUME NEW w \in Pushers, StoreComment(w)
        PROVE  PlainTypes'
    <2> DEFINE s == pushing[w].seq
               c == pushing[w].comment
               x == [action |-> "INSERT", seq |-> s, comment |-> c]
    <2>1. s \in Nat /\ c \in Comments
      BY <1>6 DEF StoreComment
    <2>2. /\ [sequence |-> s + 1, comment |-> c, erased |-> FALSE] \in Slots
          /\ x \in Tasks
      BY <2>1 DEF Slots, Tasks
    <2>3. ring' \in [0 .. MaxMem - 1 -> Slots]
      BY <1>6, <2>2 DEF StoreComment
    <2>4. m_db_queue' \in Seq(Tasks)
      <3>1. m_db_queue' = Append(m_db_queue, x)
        BY <1>6 DEF StoreComment, EnqueueDBTask
      <3> HIDE DEF x
      <3> QED
        BY <2>2, <3>1
    <2> QED
      BY <1>6, <2>3, <2>4 DEF StoreComment, EnqueueDBTask, Notify, counters
  <1>7. ASSUME NEW k \in 0 .. MaxMem - 1, AgentLooks(k)
        PROVE  PlainTypes'
    <2>1. ring[k] \in Slots /\ ring[k].sequence > 0
      BY <1>7 DEF AgentLooks, InWindow
    <2>2. ring[k].comment \in Comments /\ ring[k].sequence - 1 \in Nat
      BY <2>1 DEF RingIsPast, Slots
    <2>3. starts \in Nat
      BY CommentRepositoryAssumption
    <2>4. seen' \in [seq : Nat, comment : Comments, life : Nat]
      BY <1>7, <2>2, <2>3 DEF AgentLooks
    <2> QED
      BY <1>7, <2>4 DEF AgentLooks, memoryVars, workerVars, counters
  <1>8. CASE EraseComment
    <2> DEFINE s == seen.seq
               x == [action |-> "UPDATE", seq |-> s]
    <2>1. s \in Nat
      BY <1>8 DEF EraseComment
    <2>2. x \in Tasks
      BY <2>1 DEF Tasks
    <2>3. ring' \in [0 .. MaxMem - 1 -> Slots]
      <3>1. CASE StillHolds(s)
        <4>1. ring' = [ring EXCEPT ![Slot(s)].erased = TRUE]
          BY <1>8, <3>1 DEF EraseComment
        <4>2. \A k \in 0 .. MaxMem - 1 :
                [ring[k] EXCEPT !.erased = TRUE] \in Slots
          BY DEF Slots
        <4>3. Slot(s) \in 0 .. MaxMem - 1
          BY <2>1, SlotInRange
        <4> QED
          BY <4>1, <4>2, <4>3
      <3> QED
        BY <1>8, <3>1 DEF EraseComment
    <2>4. m_db_queue' \in Seq(Tasks)
      <3>1. m_db_queue' = m_db_queue \/ m_db_queue' = Append(m_db_queue, x)
        BY <1>8 DEF EraseComment, EnqueueDBTask
      <3> HIDE DEF x
      <3> QED
        BY SMTT(30), <2>2, <3>1
    <2>5. erases' \in 0 .. MaxErases
      BY <1>8, CommentRepositoryAssumption DEF EraseComment
    <2> QED
      BY <1>8, <2>3, <2>4, <2>5 DEF EraseComment, EnqueueDBTask, Notify
  <1>9. CASE WorkerLooks \/ WorkerSleeps \/ SpuriousWakeup
    <2>1. <<>> \in Seq(Tasks)
      OBVIOUS
    <2>2. /\ m_db_queue' \in {<<>>, m_db_queue}
          /\ local_queue' \in {local_queue, m_db_queue}
          /\ batch' \in {batch, m_db_queue}
      BY <1>9 DEF WorkerLooks, WorkerSleeps, SpuriousWakeup, memoryVars
    <2>3. /\ m_db_queue' \in Seq(Tasks) /\ local_queue' \in Seq(Tasks)
          /\ batch' \in Seq(Tasks)
      BY <2>1, <2>2
    <2> QED
      BY <1>9, <2>3
         DEF WorkerLooks, WorkerSleeps, SpuriousWakeup, memoryVars, counters
  <1>10. CASE BeginTransaction \/ ExecuteTaskToSqlite \/ EndTransaction
    <2>1. failures' \in 0 .. MaxFailures
      BY <1>10, CommentRepositoryAssumption
         DEF BeginTransaction, ExecuteTaskToSqlite, EndTransaction, Refuses,
             Accepts
    <2>2. local_queue' \in Seq(Tasks) /\ batch' \in Seq(Tasks)
      <3>1. local_queue # <<>> => Tail(local_queue) \in Seq(Tasks)
        OBVIOUS
      <3>2. <<>> \in Seq(Tasks) /\ local_queue \in Seq(Tasks)
        OBVIOUS
      <3>3. /\ \/ local_queue' \in {<<>>, local_queue}
               \/ local_queue # <<>> /\ local_queue' = Tail(local_queue)
            /\ batch' \in {<<>>, batch}
        BY <1>10 DEF BeginTransaction, ExecuteTaskToSqlite, EndTransaction
      <3> QED
        BY <3>1, <3>2, <3>3
    <2> QED
      BY <1>10, <2>1, <2>2
         DEF BeginTransaction, ExecuteTaskToSqlite, EndTransaction, unmoved,
             memoryVars
  <1> QED
    BY <1>1, <1>3, <1>4, <1>5, <1>6, <1>7, <1>8, <1>9, <1>10, <1>11
       DEF Next, ShutdownStep, WorkerStep

\* Every step keeps one transaction at most, and every table a table.
LEMMA TablesStep ==
  ASSUME PlainTypes, Tables, OneTransaction, Next
  PROVE  Tables' /\ OneTransaction'
  <1>1. CASE UNCHANGED <<db, tx>> /\ (truth' = db \/ UNCHANGED truth)
    BY <1>1 DEF Tables, OneTransaction
  <1>2. CASE tx' = {} /\ UNCHANGED <<db, truth>>
    BY <1>2 DEF Tables, OneTransaction
  <1>3. ASSUME NEW w \in Pushers, StoreComment(w)
        PROVE  Tables' /\ OneTransaction'
    <2> DEFINE s == pushing[w].seq
               c == pushing[w].comment
               x == [action |-> "INSERT", seq |-> s, comment |-> c]
    <2>1. x \in Tasks
      BY <1>3 DEF StoreComment, PlainTypes, Tasks
    <2>2. truth' = ExecuteTask(truth, x) /\ UNCHANGED <<db, tx>>
      BY <1>3 DEF StoreComment, ExecuteTask
    <2> HIDE DEF x
    <2> QED
      BY <2>1, <2>2, ExecuteTaskFacts DEF Tables, OneTransaction
  <1>4. CASE EraseComment
    <2> DEFINE x == [action |-> "UPDATE", seq |-> seen.seq]
    <2>1. x \in Tasks
      BY <1>4 DEF EraseComment, PlainTypes, Tasks
    <2>2. truth' \in {truth, ExecuteTask(truth, x)} /\ UNCHANGED <<db, tx>>
      BY <1>4 DEF EraseComment, ExecuteTask
    <2> HIDE DEF x
    <2> QED
      BY <2>1, <2>2, ExecuteTaskFacts DEF Tables, OneTransaction
  <1>5. CASE BeginTransaction
    BY <1>5 DEF BeginTransaction, unmoved, memoryVars, Tables, OneTransaction
  <1>6. CASE ExecuteTaskToSqlite
    <2>1. PICK x \in Tasks : x = Head(local_queue)
      BY <1>6 DEF ExecuteTaskToSqlite, PlainTypes
    <2>2. UNCHANGED truth
      BY <1>6 DEF ExecuteTaskToSqlite, unmoved, memoryVars
    <2>3. IsTable(Table) /\ IsTable(ExecuteTask(Table, x))
      BY <2>1, TableFacts, ExecuteTaskFacts
    <2>4. CASE tx' \in {tx, {}} /\ UNCHANGED db
      BY <2>2, <2>4 DEF Tables, OneTransaction
    <2>5. CASE Write(ExecuteTask(Table, x))
      <3>1. CASE db' = ExecuteTask(Table, x) /\ UNCHANGED tx
        BY <2>2, <2>3, <3>1 DEF Tables, OneTransaction
      <3>2. CASE tx' = {ExecuteTask(Table, x)} /\ UNCHANGED db
        BY <2>2, <2>3, <3>2 DEF Tables, OneTransaction
      <3> QED
        BY <2>5, <3>1, <3>2 DEF Write
    <2> QED
      BY <1>6, <2>1, <2>4, <2>5 DEF ExecuteTaskToSqlite
  <1>7. CASE EndTransaction
    BY <1>7 DEF EndTransaction, unmoved, memoryVars, Tables, OneTransaction
  <1>8. CASE Crash \/ ShutdownJoins
    BY <1>2, <1>8 DEF Crash, ShutdownJoins, Lost
  <1>9. CASE \/ Initialize \/ InitializeFails \/ ShutdownStores
             \/ ShutdownNotifies
             \/ WorkerLooks \/ WorkerSleeps \/ SpuriousWakeup
    BY <1>1, <1>9 DEF Initialize, InitializeFails, ShutdownStores,
                      ShutdownNotifies, WorkerLooks, WorkerSleeps,
                      SpuriousWakeup, memoryVars, workerVars
  <1>10. CASE \/ \E w \in Pushers, c \in Comments : TakeSequence(w, c)
              \/ \E k \in 0 .. MaxMem - 1 : AgentLooks(k)
    BY <1>1, <1>10 DEF TakeSequence, AgentLooks, memoryVars, workerVars
  <1> QED
    BY <1>3, <1>4, <1>5, <1>6, <1>7, <1>8, <1>9, <1>10
       DEF Next, ShutdownStep, WorkerStep

\* Every step keeps the worker in step with its queue and its transaction.
LEMMA WorkerStaysInStep ==
  ASSUME PlainTypes, OneTransaction, DownIsEmpty, WorkerInStep, Next
  PROVE  DownIsEmpty' /\ WorkerInStep'
  <1>0. failures \in Nat
    BY CommentRepositoryAssumption DEF PlainTypes
  <1>1. CASE Initialize \/ InitializeFails
    <2>1. /\ UNCHANGED <<m_db_queue, local_queue, tx, pushing, all_ok>>
          /\ phase = "down" /\ m_stop_requested' = FALSE
          /\ \/ wpc' = "lock" /\ phase' = "up"
             \/ UNCHANGED <<wpc, phase>>
          /\ failures' \in {failures, failures + 1}
      BY <1>1 DEF Initialize, InitializeFails, Refuses, Accepts, memoryVars,
                  workerVars
    <2>2. failures > 0 => failures' > 0
      BY <1>0, <2>1
    <2> QED
      BY <2>1, <2>2 DEF DownIsEmpty, WorkerInStep
  <1>2. CASE Crash \/ ShutdownJoins
    BY <1>2 DEF Crash, ShutdownJoins, Lost, DownIsEmpty, WorkerInStep, counters
  <1>3. CASE ShutdownStores \/ ShutdownNotifies
    BY <1>3 DEF ShutdownStores, ShutdownNotifies, Notify, DownIsEmpty,
                WorkerInStep, memoryVars, workerVars, counters
  <1>4. CASE \/ \E w \in Pushers, c \in Comments : TakeSequence(w, c)
             \/ \E k \in 0 .. MaxMem - 1 : AgentLooks(k)
    BY <1>4 DEF TakeSequence, AgentLooks, DownIsEmpty, WorkerInStep, memoryVars,
                workerVars, counters
  <1>5. CASE EraseComment \/ \E w \in Pushers : StoreComment(w)
    <2>1. /\ phase = "up" /\ phase' = "up"
          /\ UNCHANGED wpc \/ (wpc = "asleep" /\ wpc' = "lock")
          /\ UNCHANGED <<local_queue, tx, failures, all_ok, m_stop_requested>>
      BY <1>5 DEF EraseComment, StoreComment, EnqueueDBTask, Notify, counters
    <2> QED
      BY <2>1 DEF DownIsEmpty, WorkerInStep
  <1>6. CASE WorkerLooks \/ WorkerSleeps \/ SpuriousWakeup
    <2>1. phase \in {"down", "up", "draining", "closing"}
      BY DEF PlainTypes
    <2> QED
      BY <1>6, <2>1
         DEF WorkerLooks, MayExit, WorkerSleeps, SpuriousWakeup, DownIsEmpty,
             WorkerInStep, memoryVars, counters
  <1>7. CASE BeginTransaction
    BY <1>0, <1>7 DEF BeginTransaction, Refuses, Accepts, unmoved, memoryVars,
                      DownIsEmpty, WorkerInStep
  <1>8. CASE EndTransaction
    BY <1>0, <1>8 DEF EndTransaction, EndSql, Refuses, Accepts, unmoved,
                      memoryVars, DownIsEmpty, WorkerInStep
  <1>9. CASE ExecuteTaskToSqlite
    <2>1. /\ wpc = "exec" /\ wpc' = "exec"
          /\ UNCHANGED <<phase, m_db_queue, pushing, m_stop_requested>>
          /\ \/ UNCHANGED <<failures, all_ok>> /\ (tx # {} => tx' # {})
             \/ failures' = failures + 1 /\ ~all_ok'
      BY <1>9 DEF ExecuteTaskToSqlite, Write, Refuses, Accepts, unmoved,
                  memoryVars
    <2>2. phase # "down"
      BY <1>9 DEF ExecuteTaskToSqlite, DownIsEmpty
    <2> QED
      BY <1>0, <2>1, <2>2 DEF DownIsEmpty, WorkerInStep
  <1> QED
    BY <1>1, <1>2, <1>3, <1>4, <1>5, <1>6, <1>7, <1>8, <1>9
       DEF Next, ShutdownStep, WorkerStep

-----------------------------------------------------------------------------
(* Memory and disk.                                                        *)

\* StoreComment queues the insertion that its caller is told of.
LEMMA StoreTodo ==
  ASSUME PlainTypes, NEW w \in Pushers, StoreComment(w)
  PROVE  \E x \in Tasks :
            /\ x = [action |-> "INSERT", seq |-> pushing[w].seq,
                    comment |-> pushing[w].comment]
            /\ Todo' = Append(Todo, x)
            /\ truth' = ExecuteTask(truth, x)
            /\ UNCHANGED <<phase, tx, db, failures, g_comment_sequence, blind>>
  <1>1. PICK x : x = [action |-> "INSERT", seq |-> pushing[w].seq,
                      comment |-> pushing[w].comment]
    OBVIOUS
  <1>2. x \in Tasks
    BY <1>1 DEF StoreComment, PlainTypes, Tasks
  <1>3. m_db_queue' = Append(m_db_queue, x) /\ UNCHANGED local_queue
    BY <1>1 DEF StoreComment, EnqueueDBTask
  <1>4. m_db_queue \in Seq(Tasks) /\ local_queue \in Seq(Tasks)
    BY DEF PlainTypes
  <1>5. Todo' = Append(Todo, x)
    BY <1>2, <1>3, <1>4, QueueFacts DEF Todo
  <1>6. truth' = ExecuteTask(truth, x)
    BY <1>1 DEF StoreComment, ExecuteTask
  <1> QED
    BY <1>1, <1>2, <1>5, <1>6 DEF StoreComment, counters

\* EraseComment queues an UPDATE or nothing.
LEMMA EraseTodo ==
  ASSUME PlainTypes, EraseComment
  PROVE  /\ UNCHANGED <<phase, tx, db, failures, g_comment_sequence, pushing,
                        blind>>
         /\ \/ UNCHANGED <<truth, Todo>>
            \/ \E x \in Tasks : /\ x.action = "UPDATE"
                                /\ Todo' = Append(Todo, x)
                                /\ truth' = ExecuteTask(truth, x)
  <1>0. UNCHANGED <<phase, tx, db, failures, g_comment_sequence, pushing, blind>>
    BY DEF EraseComment
  <1>1. PICK x : x = [action |-> "UPDATE", seq |-> seen.seq]
    OBVIOUS
  <1>2. x \in Tasks /\ x.action = "UPDATE"
    BY <1>1 DEF EraseComment, PlainTypes, Tasks
  <1>3. m_db_queue \in Seq(Tasks) /\ local_queue \in Seq(Tasks)
    BY DEF PlainTypes
  <1>4. CASE StillHolds(seen.seq)
    <2>1. m_db_queue' = Append(m_db_queue, x) /\ UNCHANGED local_queue
      BY <1>1, <1>4 DEF EraseComment, EnqueueDBTask
    <2>2. Todo' = Append(Todo, x)
      BY <1>2, <1>3, <2>1, QueueFacts DEF Todo
    <2>3. truth' = ExecuteTask(truth, x)
      BY <1>1, <1>4 DEF EraseComment, ExecuteTask
    <2> QED
      BY <1>0, <1>2, <2>2, <2>3
  <1>5. CASE ~StillHolds(seen.seq)
    <2>1. UNCHANGED <<truth, m_db_queue, local_queue>>
      BY <1>5 DEF EraseComment
    <2> QED
      BY <1>0, <2>1 DEF Todo
  <1> QED
    BY <1>4, <1>5

\* The worker takes over the queue: nothing is lost and nothing moved.
LEMMA LooksTodo ==
  ASSUME PlainTypes, WorkerInStep, WorkerLooks
  PROVE  UNCHANGED <<phase, tx, db, truth, failures, g_comment_sequence,
                     pushing, blind, Todo>>
  <1>1. UNCHANGED <<phase, tx, db, truth, failures, g_comment_sequence, pushing,
                    blind>>
    BY DEF WorkerLooks, counters
  <1>2. CASE UNCHANGED <<m_db_queue, local_queue>>
    BY <1>1, <1>2 DEF Todo
  <1>3. CASE local_queue' = m_db_queue /\ m_db_queue' = <<>>
    <2>1. local_queue = <<>>
      BY DEF WorkerInStep, WorkerLooks
    <2>2. m_db_queue \in Seq(Tasks)
      BY DEF PlainTypes
    <2>3. m_db_queue \o <<>> = <<>> \o m_db_queue
      BY <2>2
    <2> QED
      BY <1>1, <1>3, <2>1, <2>3 DEF Todo
  <1> QED
    BY <1>2, <1>3 DEF WorkerLooks

\* BEGIN changes nothing; if it is refused, the batch is dropped.
LEMMA BeginTodo ==
  ASSUME PlainTypes, Tables, OneTransaction, WorkerInStep, BeginTransaction
  PROVE  /\ UNCHANGED <<phase, db, truth, g_comment_sequence, pushing, blind,
                        Table>>
         /\ \/ UNCHANGED <<Todo, failures>>
            \/ failures' > 0 /\ Todo' = m_db_queue
  <1>0. failures \in Nat
    BY CommentRepositoryAssumption DEF PlainTypes
  <1>1. UNCHANGED <<phase, db, truth, m_db_queue, g_comment_sequence, pushing,
                    blind>>
    BY DEF BeginTransaction, unmoved, memoryVars
  <1>2. CASE Accepts /\ tx = {} /\ tx' = {db} /\ UNCHANGED local_queue
    <2>1. UNCHANGED <<Todo, failures>>
      BY <1>1, <1>2 DEF Todo, Accepts
    <2>2. UNCHANGED Table
      BY <1>2 DEF Table
    <2> QED
      BY <1>1, <2>1, <2>2
  <1>3. CASE /\ Refuses \/ (tx # {} /\ UNCHANGED failures)
             /\ local_queue' = <<>> /\ UNCHANGED tx
    <2>1. failures' > 0
      BY <1>0, <1>3 DEF Refuses, WorkerInStep, BeginTransaction
    <2>2. m_db_queue \in Seq(Tasks)
      BY DEF PlainTypes
    <2>3. <<>> \o m_db_queue = m_db_queue
      BY <2>2
    <2>4. Todo' = m_db_queue
      BY <1>1, <1>3, <2>3 DEF Todo
    <2>5. UNCHANGED Table
      BY <1>1, <1>3 DEF Table
    <2> QED
      BY <1>1, <2>1, <2>4, <2>5
  <1> QED
    BY <1>2, <1>3 DEF BeginTransaction

\* The first task is executed, or dropped when it is refused; then the
\* transaction may be lost.
LEMMA ExecuteTodo ==
  ASSUME PlainTypes, Tables, OneTransaction, ExecuteTaskToSqlite
  PROVE  /\ UNCHANGED <<phase, truth, g_comment_sequence, pushing, blind>>
         /\ Todo # <<>> /\ Todo' = Tail(Todo)
         /\ \/ /\ Table' = ExecuteTask(Table, Head(local_queue))
               /\ UNCHANGED failures
               /\ UNCHANGED db \/ (tx = {} /\ db' = Table')
            \/ failures' > 0 /\ UNCHANGED db /\ Table' \in {Table, db}
         /\ Head(local_queue) = Head(Todo)
  <1>0. failures \in Nat
    BY CommentRepositoryAssumption DEF PlainTypes
  <1>1. UNCHANGED <<phase, truth, m_db_queue, g_comment_sequence, pushing, blind>>
    BY DEF ExecuteTaskToSqlite, unmoved, memoryVars
  <1>2. m_db_queue \in Seq(Tasks) /\ local_queue \in Seq(Tasks)
    BY DEF PlainTypes
  <1>3. local_queue # <<>> /\ local_queue' = Tail(local_queue)
    BY DEF ExecuteTaskToSqlite
  <1>4. Head(local_queue) \in Tasks
    BY <1>2, <1>3
  <1>5. Todo # <<>> /\ Todo' = Tail(Todo) /\ Head(local_queue) = Head(Todo)
    BY <1>1, <1>2, <1>3, <1>4, QueueFacts DEF Todo
  <1>6. PICK u : u = ExecuteTask(Table, Head(local_queue))
    OBVIOUS
  <1>7. CASE Accepts /\ Write(u)
    <2>1. CASE tx = {} /\ db' = u /\ UNCHANGED tx
      <3>1. Table' = u
        BY <2>1 DEF Table
      <3> QED
        BY <1>1, <1>5, <1>6, <1>7, <2>1, <3>1 DEF Accepts
    <2>2. CASE tx' = {u} /\ UNCHANGED db
      <3>1. Table' = u
        BY <2>2 DEF Table
      <3> QED
        BY <1>1, <1>5, <1>6, <1>7, <2>2, <3>1 DEF Accepts
    <2> QED
      BY <1>7, <2>1, <2>2 DEF Write
  <1>8. CASE Refuses /\ tx' \in {tx, {}} /\ UNCHANGED db
    <2>1. Table' \in {Table, db}
      BY <1>8 DEF Table
    <2> QED
      BY <1>0, <1>1, <1>5, <1>8, <2>1 DEF Refuses
  <1> QED
    BY <1>6, <1>7, <1>8 DEF ExecuteTaskToSqlite

\* COMMIT makes the worker's table the committed one.
LEMMA EndTodo ==
  ASSUME PlainTypes, Tables, OneTransaction, WorkerInStep, EndTransaction
  PROVE  /\ UNCHANGED <<phase, truth, g_comment_sequence, pushing, blind, Todo>>
         /\ \/ db' = Table /\ Table' = Table /\ UNCHANGED failures
            \/ failures' > 0 /\ UNCHANGED db /\ Table' \in {Table, db}
         /\ db' = db \/ (db' = Table /\ all_ok)
  <1>0. failures \in Nat
    BY CommentRepositoryAssumption DEF PlainTypes
  <1>1. UNCHANGED <<phase, truth, g_comment_sequence, pushing, blind, Todo>>
    BY DEF EndTransaction, unmoved, memoryVars, Todo
  <1>2. CASE EndSql = "COMMIT" /\ Accepts /\ db' \in tx /\ tx' = {}
    <2>1. tx = {Table}
      BY <1>2, TableFacts
    <2>2. Table' = db' /\ db' = Table
      BY <1>2, <2>1 DEF Table
    <2> QED
      BY <1>1, <1>2, <2>2 DEF Accepts, EndSql
  <1>3. CASE tx = {} /\ Accepts /\ UNCHANGED <<db, tx>>
    <2>1. Table = db /\ Table' = Table
      BY <1>3 DEF Table
    <2> QED
      BY <1>1, <1>3, <2>1 DEF Accepts
  <1>4. CASE /\ Refuses \/ (EndSql = "ROLLBACK" /\ Accepts)
             /\ tx' \in {{}, tx} /\ UNCHANGED db
    <2>1. failures' > 0
      BY <1>0, <1>4 DEF Refuses, Accepts, EndSql, WorkerInStep
    <2>2. Table' \in {Table, db}
      BY <1>4 DEF Table
    <2> QED
      BY <1>1, <1>4, <2>1, <2>2
  <1> QED
    BY <1>2, <1>3, <1>4 DEF EndTransaction

\* The other steps of a running process leave table and queue alone.
LEMMA QuietTodo ==
  ASSUME \/ ShutdownStores \/ ShutdownNotifies \/ WorkerSleeps
         \/ SpuriousWakeup
         \/ \E k \in 0 .. MaxMem - 1 : AgentLooks(k)
  PROVE  /\ UNCHANGED <<tx, db, truth, failures, g_comment_sequence, pushing,
                        blind, Todo, Table>>
         /\ phase # "down" \/ UNCHANGED phase
  <1>1. /\ UNCHANGED <<tx, db, truth, failures, g_comment_sequence, pushing,
                       blind>>
        /\ UNCHANGED <<m_db_queue, local_queue>>
    BY DEF ShutdownStores, ShutdownNotifies, WorkerSleeps, SpuriousWakeup,
           AgentLooks, memoryVars, workerVars, counters
  <1>2. phase # "down" \/ UNCHANGED phase
    BY DEF ShutdownStores, ShutdownNotifies, WorkerSleeps, SpuriousWakeup,
           AgentLooks
  <1>3. UNCHANGED <<Todo, Table>>
    BY <1>1 DEF Todo, Table
  <1> QED
    BY <1>1, <1>2, <1>3

\* Every step keeps memory and disk together.
LEMMA DiskStep ==
  ASSUME PlainTypes, Tables, OneTransaction, DownIsEmpty, WorkerInStep,
         DiskCatchesUp, Next
  PROVE  DiskCatchesUp'
  <1>0. Todo \in Seq(Tasks) /\ failures \in Nat
    <2>1. m_db_queue \in Seq(Tasks) /\ local_queue \in Seq(Tasks)
      BY DEF PlainTypes
    <2> QED
      BY <2>1, CommentRepositoryAssumption DEF PlainTypes, Todo
  <1>1. phase # "down" /\ failures = 0 => Executed(Table, Todo) = truth
    BY DEF DiskCatchesUp, Todo
  <1> SUFFICES ASSUME phase' # "down", failures' = 0
               PROVE  Executed(Table', Todo') = truth'
    BY DEF DiskCatchesUp, Todo
  <1>2. CASE Initialize
    <2>1. Todo' = <<>>
      BY <1>2 DEF Initialize, DownIsEmpty, Todo
    <2>2. Table' = db /\ truth' = db
      BY <1>2 DEF Initialize, DownIsEmpty, Table
    <2> QED
      BY <2>1, <2>2, ExecutedEmpty
  <1>3. CASE Crash \/ ShutdownJoins \/ InitializeFails
    BY <1>3 DEF Crash, ShutdownJoins, Lost, InitializeFails
  <1>4. CASE \/ ShutdownStores \/ ShutdownNotifies \/ WorkerSleeps
             \/ SpuriousWakeup
             \/ \E k \in 0 .. MaxMem - 1 : AgentLooks(k)
    BY <1>1, <1>4, QuietTodo
  <1>5. ASSUME NEW w \in Pushers, NEW c \in Comments, TakeSequence(w, c)
        PROVE  Executed(Table', Todo') = truth'
    BY <1>1, <1>5 DEF TakeSequence, workerVars, Todo, Table
  <1>6. ASSUME NEW w \in Pushers, StoreComment(w)
        PROVE  Executed(Table', Todo') = truth'
    <2>1. PICK x \in Tasks :
            /\ Todo' = Append(Todo, x) /\ truth' = ExecuteTask(truth, x)
            /\ UNCHANGED <<phase, tx, db, failures>>
      BY <1>6, StoreTodo
    <2>2. Table' = Table
      BY <2>1 DEF Table
    <2> QED
      BY <1>0, <1>1, <2>1, <2>2, ExecutedAppend
  <1>7. CASE EraseComment
    <2>1. UNCHANGED <<phase, tx, db, failures>>
      BY <1>7, EraseTodo
    <2>2. Table' = Table
      BY <2>1 DEF Table
    <2>3. CASE UNCHANGED <<truth, Todo>>
      BY <1>1, <2>1, <2>2, <2>3
    <2>4. CASE \E x \in Tasks : /\ Todo' = Append(Todo, x)
                                /\ truth' = ExecuteTask(truth, x)
      BY <1>0, <1>1, <2>1, <2>2, <2>4, ExecutedAppend
    <2> QED
      BY <1>7, <2>3, <2>4, EraseTodo
  <1>8. CASE WorkerLooks
    <2>1. UNCHANGED <<phase, tx, db, truth, failures, Todo>>
      BY <1>8, LooksTodo
    <2> QED
      BY <1>1, <2>1 DEF Table
  <1>9. CASE BeginTransaction
    BY <1>1, <1>9, BeginTodo
  <1>10. CASE ExecuteTaskToSqlite
    <2>1. /\ UNCHANGED <<phase, truth>>
          /\ Todo # <<>> /\ Todo' = Tail(Todo)
          /\ Table' = ExecuteTask(Table, Head(Todo)) /\ UNCHANGED failures
      BY <1>0, <1>10, ExecuteTodo
    <2>2. Executed(Table, Todo) = Executed(Table', Todo')
      BY <1>0, <2>1, ExecutedHead
    <2> QED
      BY <1>1, <2>1, <2>2
  <1>11. CASE EndTransaction
    BY <1>1, <1>11, EndTodo
  <1> QED
    BY <1>2, <1>3, <1>4, <1>5, <1>6, <1>7, <1>8, <1>9, <1>10, <1>11
       DEF Next, ShutdownStep, WorkerStep

-----------------------------------------------------------------------------
(* The batch.                                                              *)

\* Every step keeps the batch in step with its transaction.
LEMMA BatchStep ==
  ASSUME PlainTypes, Tables, OneTransaction, DownIsEmpty, WorkerInStep,
         BatchInStep, Next
  PROVE  BatchInStep'
  <1>1. CASE BeginTransaction
    <2>1. CASE /\ tx' = {db} /\ wpc' = "exec"
               /\ UNCHANGED <<local_queue, batch, db>>
      <3>1. Table' = db'
        BY <2>1 DEF Table
      <3> QED
        BY <1>1, <2>1, <3>1 DEF BeginTransaction, BatchInStep
    <2>2. CASE wpc' = "lock"
      BY <2>2 DEF BatchInStep
    <2> QED
      BY <1>1, <2>1, <2>2 DEF BeginTransaction
  <1>2. CASE ExecuteTaskToSqlite
    <2>1. CASE ~all_ok'
      BY <1>2, <2>1 DEF ExecuteTaskToSqlite, BatchInStep
    <2>2. CASE all_ok'
      <3>1. /\ all_ok /\ wpc = "exec" /\ wpc' = "exec" /\ UNCHANGED batch
            /\ local_queue # <<>> /\ local_queue' = Tail(local_queue)
            /\ local_queue \in Seq(Tasks)
            /\ Write(ExecuteTask(Table, Head(local_queue)))
        BY <1>2, <2>2 DEF ExecuteTaskToSqlite, PlainTypes
      <3>2. /\ tx # {}
            /\ Executed(Table, local_queue) = Executed(db, batch)
        BY <3>1 DEF BatchInStep
      <3>3. tx' = {ExecuteTask(Table, Head(local_queue))} /\ UNCHANGED db
        BY <3>1, <3>2 DEF Write
      <3>4. Table' = ExecuteTask(Table, Head(local_queue))
        BY <3>3 DEF Table
      <3>5. Executed(Table', local_queue') = Executed(Table, local_queue)
        BY <3>1, <3>4, ExecutedHead
      <3> QED
        BY <3>1, <3>2, <3>3, <3>5 DEF BatchInStep
    <2> QED
      BY <2>1, <2>2
  <1>3. CASE EndTransaction \/ WorkerSleeps \/ SpuriousWakeup
    BY <1>3 DEF EndTransaction, WorkerSleeps, SpuriousWakeup, BatchInStep
  <1>4. CASE WorkerLooks
    BY <1>4 DEF WorkerLooks, BatchInStep
  <1>5. CASE Initialize \/ Crash \/ ShutdownJoins
    BY <1>5 DEF Initialize, Crash, ShutdownJoins, Lost, BatchInStep
  <1>6. CASE \/ InitializeFails \/ ShutdownStores
             \/ \E w \in Pushers, c \in Comments : TakeSequence(w, c)
             \/ \E k \in 0 .. MaxMem - 1 : AgentLooks(k)
    <2>1. UNCHANGED <<wpc, local_queue, all_ok, tx, batch, db>>
      BY <1>6 DEF InitializeFails, ShutdownStores, TakeSequence, AgentLooks,
                  workerVars
    <2> QED
      BY <2>1 DEF BatchInStep, Table
  <1>7. CASE \/ ShutdownNotifies \/ EraseComment
             \/ \E w \in Pushers : StoreComment(w)
    <2>1. /\ UNCHANGED wpc \/ wpc' = "lock"
          /\ UNCHANGED <<local_queue, all_ok, tx, batch, db>>
      BY <1>7 DEF ShutdownNotifies, EraseComment, StoreComment, EnqueueDBTask,
                  Notify
    <2> QED
      BY <2>1 DEF BatchInStep, Table
  <1> QED
    BY <1>1, <1>2, <1>3, <1>4, <1>5, <1>6, <1>7
       DEF Next, ShutdownStep, WorkerStep

-----------------------------------------------------------------------------
(* Numbers and rows.                                                       *)

PushingType == [Pushers -> [seq : Nat, comment : Comments] \cup {None}]

\* A table with fewer numbers and a queue that has lost its first tasks.
LEMMA NumbersFewer ==
  ASSUME NEW t, NEW u, NEW q \in Seq(Tasks), NEW r \in Seq(Tasks),
         NEW k \in Nat, NEW g \in Nat, NEW p,
         DOMAIN u \subseteq DOMAIN t,
         Len(q) = Len(r) + k, \A i \in 1 .. Len(r) : r[i] = q[i + k],
         NumbersUsedOnce(t, q, g), NumbersTaken(t, q, g, p)
  PROVE  NumbersUsedOnce(u, r, g) /\ NumbersTaken(u, r, g, p)
  <1>0. Len(r) \in Nat /\ \A i \in 1 .. Len(r) : i + k \in 1 .. Len(q)
    OBVIOUS
  <1>1. ASSUME NEW i \in 1 .. Len(r), r[i].action = "INSERT"
        PROVE  /\ r[i].seq < g /\ r[i].seq \notin DOMAIN u
               /\ \A j \in 1 .. Len(r) : Inserts(r[j], r[i].seq) => j = i
    <2>1. /\ q[i + k].seq < g /\ q[i + k].seq \notin DOMAIN t
          /\ \A j \in 1 .. Len(q) :
                Inserts(q[j], q[i + k].seq) => j = i + k
      BY <1>0, <1>1 DEF NumbersUsedOnce
    <2>2. ASSUME NEW j \in 1 .. Len(r), Inserts(r[j], r[i].seq)
          PROVE  j = i
      <3>1. j + k \in 1 .. Len(q) /\ Inserts(q[j + k], q[i + k].seq)
        BY <1>0, <2>2
      <3>2. j + k = i + k
        BY <2>1, <3>1
      <3> QED
        BY <3>2
    <2> QED
      BY <2>1, <2>2
  <1>2. NumbersUsedOnce(u, r, g)
    BY <1>1 DEF NumbersUsedOnce
  <1>3. NumbersTaken(u, r, g, p)
    BY <1>0 DEF NumbersTaken
  <1> QED
    BY <1>2, <1>3

\* The first task of the queue has been executed.
LEMMA NumbersExecute ==
  ASSUME NEW t, IsTable(t), NEW q \in Seq(Tasks), q # <<>>, NEW g \in Nat, NEW p,
         NumbersUsedOnce(t, q, g), NumbersTaken(t, q, g, p)
  PROVE  /\ NumbersUsedOnce(ExecuteTask(t, Head(q)), Tail(q), g)
         /\ NumbersTaken(ExecuteTask(t, Head(q)), Tail(q), g, p)
         /\ NumbersUsedOnce(t, Tail(q), g)
         /\ NumbersTaken(t, Tail(q), g, p)
         /\ Extends(t, ExecuteTask(t, Head(q)))
  <1>0. Tail(q) \in Seq(Tasks) /\ Head(q) \in Tasks
    OBVIOUS
  <1>1. PICK r \in Seq(Tasks), x \in Tasks : r = Tail(q) /\ x = Head(q)
    BY <1>0
  <1>2. /\ Len(q) = Len(r) + 1 /\ x = q[1] /\ 1 \in 1 .. Len(q)
        /\ \A i \in 1 .. Len(r) : r[i] = q[i + 1] /\ i + 1 \in 1 .. Len(q)
    BY <1>1
  <1>3. NumbersUsedOnce(t, r, g) /\ NumbersTaken(t, r, g, p)
    <2>1. DOMAIN t \subseteq DOMAIN t /\ 1 \in Nat
      OBVIOUS
    <2> QED
      BY <1>2, <2>1, NumbersFewer
  <1>4. PICK u : u = ExecuteTask(t, x)
    OBVIOUS
  <1>5. \A s \in DOMAIN u : s \in DOMAIN t \/ Inserts(x, s)
    BY <1>4, ExecuteTaskFacts
  <1>6. /\ x.action = "INSERT" => x.seq < g /\ x.seq \notin DOMAIN t
        /\ \A s : Inserts(x, s) =>
              \A i \in 1 .. Len(r) : ~Inserts(r[i], s)
    <2>1. x.action = "INSERT" => /\ x.seq < g /\ x.seq \notin DOMAIN t
                                 /\ \A j \in 1 .. Len(q) :
                                       Inserts(q[j], x.seq) => j = 1
      BY <1>2 DEF NumbersUsedOnce
    <2>2. \A i \in 1 .. Len(r) : i + 1 # 1
      OBVIOUS
    <2> QED
      BY <1>2, <2>1, <2>2 DEF Inserts
  <1>7. Extends(t, u)
    BY <1>4, <1>6, ExecuteTaskFacts
  <1>8. NumbersUsedOnce(u, r, g)
    BY <1>3, <1>5, <1>6 DEF NumbersUsedOnce, Inserts
  <1>9. NumbersTaken(u, r, g, p)
    <2>1. \A w \in Pushers : p[w] # None => ~Inserts(x, p[w].seq)
      BY <1>2 DEF NumbersTaken
    <2> QED
      BY <1>3, <1>5, <2>1 DEF NumbersTaken
  <1> QED
    BY <1>1, <1>3, <1>4, <1>7, <1>8, <1>9

\* A pusher has queued the insertion under its number.
LEMMA NumbersStore ==
  ASSUME NEW t, NEW q \in Seq(Tasks), NEW g \in Nat, NEW p \in PushingType,
         NEW w \in Pushers, p[w] # None, NEW x \in Tasks,
         x.action = "INSERT", x.seq = p[w].seq,
         NumbersUsedOnce(t, q, g), NumbersTaken(t, q, g, p)
  PROVE  /\ NumbersUsedOnce(t, Append(q, x), g)
         /\ NumbersTaken(t, Append(q, x), g, [p EXCEPT ![w] = None])
  <1>0. Append(q, x) \in Seq(Tasks)
    OBVIOUS
  <1>1. PICK r \in Seq(Tasks) : r = Append(q, x)
    BY <1>0
  <1>2. /\ Len(r) = Len(q) + 1 /\ r[Len(r)] = x /\ Len(q) \in Nat
        /\ \A i \in 1 .. Len(q) : r[i] = q[i]
        /\ \A i \in 1 .. Len(r) : i = Len(r) \/ i \in 1 .. Len(q)
        /\ Len(r) \in 1 .. Len(r) /\ Len(r) \notin 1 .. Len(q)
    BY <1>1
  <1>3. PICK o : o = [p EXCEPT ![w] = None]
    OBVIOUS
  <1>4. /\ o[w] = None
        /\ \A v \in Pushers : v # w => o[v] = p[v]
    BY <1>3 DEF PushingType
  <1>5. /\ p[w].seq < g /\ p[w].seq \notin DOMAIN t
        /\ \A i \in 1 .. Len(q) : ~Inserts(q[i], p[w].seq)
        /\ \A v \in Pushers : p[v] # None /\ p[v].seq = p[w].seq => v = w
    BY DEF NumbersTaken
  <1>6. NumbersUsedOnce(t, r, g)
    <2> SUFFICES ASSUME NEW i \in 1 .. Len(r), r[i].action = "INSERT"
                 PROVE  /\ r[i].seq < g /\ r[i].seq \notin DOMAIN t
                        /\ \A j \in 1 .. Len(r) :
                              Inserts(r[j], r[i].seq) => j = i
      BY DEF NumbersUsedOnce
    <2>1. CASE i = Len(r)
      BY <1>2, <1>5, <2>1
    <2>2. CASE i \in 1 .. Len(q)
      <3>1. /\ q[i].seq < g /\ q[i].seq \notin DOMAIN t
            /\ \A j \in 1 .. Len(q) : Inserts(q[j], q[i].seq) => j = i
        BY <1>2, <2>2 DEF NumbersUsedOnce
      <3>2. ~Inserts(x, q[i].seq)
        BY <1>2, <1>5, <2>2 DEF Inserts
      <3> QED
        BY <1>2, <2>2, <3>1, <3>2
    <2> QED
      BY <1>2, <2>1, <2>2
  <1>7. NumbersTaken(t, r, g, o)
    <2> SUFFICES ASSUME NEW v \in Pushers, o[v] # None
                 PROVE  /\ o[v].seq < g /\ o[v].seq \notin DOMAIN t
                        /\ \A i \in 1 .. Len(r) : ~Inserts(r[i], o[v].seq)
                        /\ \A z \in Pushers :
                             o[z] # None /\ o[z].seq = o[v].seq => z = v
      BY DEF NumbersTaken
    <2>1. v # w /\ o[v] = p[v]
      BY <1>4
    <2>2. /\ p[v].seq < g /\ p[v].seq \notin DOMAIN t
          /\ \A i \in 1 .. Len(q) : ~Inserts(q[i], p[v].seq)
          /\ \A z \in Pushers : p[z] # None /\ p[z].seq = p[v].seq => z = v
      BY <2>1 DEF NumbersTaken
    <2>3. ~Inserts(x, p[v].seq)
      BY <1>5, <2>1 DEF Inserts
    <2> QED
      BY <1>2, <1>4, <2>1, <2>2, <2>3
  <1> QED
    BY <1>1, <1>3, <1>6, <1>7

\* An UPDATE has been queued.
LEMMA NumbersErase ==
  ASSUME NEW t, NEW q \in Seq(Tasks), NEW g \in Nat, NEW p,
         NEW x \in Tasks, x.action = "UPDATE",
         NumbersUsedOnce(t, q, g), NumbersTaken(t, q, g, p)
  PROVE  /\ NumbersUsedOnce(t, Append(q, x), g)
         /\ NumbersTaken(t, Append(q, x), g, p)
  <1>0. Append(q, x) \in Seq(Tasks)
    OBVIOUS
  <1>1. PICK r \in Seq(Tasks) : r = Append(q, x)
    BY <1>0
  <1>2. /\ Len(r) = Len(q) + 1 /\ r[Len(r)] = x /\ Len(q) \in Nat
        /\ \A i \in 1 .. Len(q) : r[i] = q[i]
        /\ \A i \in 1 .. Len(r) : i = Len(r) \/ i \in 1 .. Len(q)
    BY <1>1
  <1>3. \A s : ~Inserts(x, s)
    BY DEF Inserts
  <1>4. NumbersUsedOnce(t, r, g)
    <2> SUFFICES ASSUME NEW i \in 1 .. Len(r), r[i].action = "INSERT"
                 PROVE  /\ r[i].seq < g /\ r[i].seq \notin DOMAIN t
                        /\ \A j \in 1 .. Len(r) :
                              Inserts(r[j], r[i].seq) => j = i
      BY DEF NumbersUsedOnce
    <2>1. i \in 1 .. Len(q)
      BY <1>2
    <2>2. /\ q[i].seq < g /\ q[i].seq \notin DOMAIN t
          /\ \A j \in 1 .. Len(q) : Inserts(q[j], q[i].seq) => j = i
      BY <1>2, <2>1 DEF NumbersUsedOnce
    <2> QED
      BY <1>2, <1>3, <2>1, <2>2
  <1>5. NumbersTaken(t, r, g, p)
    BY <1>2, <1>3 DEF NumbersTaken
  <1> QED
    BY <1>1, <1>4, <1>5

\* A pusher has taken the next number.
LEMMA NumbersTake ==
  ASSUME NEW t, NEW q \in Seq(Tasks), NEW g \in Nat, NEW p \in PushingType,
         IsTable(t), NEW w \in Pushers, p[w] = None, NEW c \in Comments,
         NumbersUsedOnce(t, q, g), NumbersTaken(t, q, g, p)
  PROVE  /\ NumbersUsedOnce(t, q, g + 1)
         /\ NumbersTaken(t, q, g + 1,
                         [p EXCEPT ![w] = [seq |-> g, comment |-> c]])
  <1>1. \A s \in DOMAIN t : s \in Nat /\ s < g
    BY DEF IsTable, NumbersUsedOnce
  <1>2. \A i \in 1 .. Len(q) : q[i].seq \in Nat
    <2>1. \A i \in 1 .. Len(q) : q[i] \in Tasks
      OBVIOUS
    <2> QED
      BY <2>1 DEF Tasks
  <1>3. \A i \in 1 .. Len(q) : ~Inserts(q[i], g)
    BY <1>2 DEF NumbersUsedOnce, Inserts
  <1>4. PICK o : o = [p EXCEPT ![w] = [seq |-> g, comment |-> c]]
    OBVIOUS
  <1>5. /\ o[w].seq = g
        /\ \A v \in Pushers : v # w => o[v] = p[v]
    BY <1>4 DEF PushingType
  <1>6. \A v \in Pushers : p[v] # None => p[v].seq \in Nat /\ p[v].seq < g
    BY DEF NumbersTaken, PushingType
  <1>7. NumbersUsedOnce(t, q, g + 1)
    BY <1>1, <1>2 DEF NumbersUsedOnce
  <1>8. NumbersTaken(t, q, g + 1, o)
    <2> SUFFICES ASSUME NEW v \in Pushers, o[v] # None
                 PROVE  /\ o[v].seq < g + 1 /\ o[v].seq \notin DOMAIN t
                        /\ \A i \in 1 .. Len(q) : ~Inserts(q[i], o[v].seq)
                        /\ \A z \in Pushers :
                             o[z] # None /\ o[z].seq = o[v].seq => z = v
      BY DEF NumbersTaken
    <2>1. CASE v = w
      <3>1. o[v].seq = g
        BY <1>5, <2>1
      <3>2. g \notin DOMAIN t
        BY <1>1
      <3>3. \A z \in Pushers : o[z] # None /\ o[z].seq = g => z = v
        BY <1>5, <1>6, <2>1
      <3> QED
        BY <1>3, <3>1, <3>2, <3>3
    <2>2. CASE v # w
      <3>1. o[v] = p[v]
        BY <1>5, <2>2
      <3>2. /\ p[v].seq \in Nat /\ p[v].seq < g /\ p[v].seq \notin DOMAIN t
            /\ \A i \in 1 .. Len(q) : ~Inserts(q[i], p[v].seq)
            /\ \A z \in Pushers : p[z] # None /\ p[z].seq = p[v].seq => z = v
        BY <1>6, <3>1 DEF NumbersTaken
      <3> QED
        BY <1>5, <2>2, <3>1, <3>2
    <2> QED
      BY <2>1, <2>2
  <1> QED
    BY <1>4, <1>7, <1>8

\* NumbersAreFresh for a table, a queue, a counter and pushers.
Fresh(t, q, g, p) == NumbersUsedOnce(t, q, g) /\ NumbersTaken(t, q, g, p)

\* What a step has to keep of the numbers and the rows.
NumbersKept ==
    /\ ~blind' => Extends(db', Table')
    /\ ~blind => Extends(db, db')
    /\ phase' # "down" => Fresh(Known', Todo', g_comment_sequence', pushing')

\* Every step keeps the numbers fresh, and the rows of the table in a life
\* that has seen which numbers are used.
LEMMA NumbersStep ==
  ASSUME PlainTypes, Tables, OneTransaction, DownIsEmpty, WorkerInStep,
         NumbersAreFresh, Next
  PROVE  NumbersAreFresh' /\ (~blind => Extends(db, db'))
  <1>0. /\ m_db_queue \in Seq(Tasks) /\ local_queue \in Seq(Tasks)
        /\ g_comment_sequence \in Nat /\ pushing \in PushingType
        /\ blind \in BOOLEAN
    BY DEF PlainTypes, PushingType
  <1>1. Todo \in Seq(Tasks) /\ IsTable(Table) /\ IsTable(Known)
    <2>1. IsTable(NoRows)
      BY FS_EmptySet DEF IsTable, NoRows
    <2> QED
      BY <1>0, <2>1, TableFacts DEF Todo, Known
  <1>2. /\ ~blind => Extends(db, Table)
        /\ phase # "down" =>
              Fresh(Known, Todo, g_comment_sequence, pushing)
    BY DEF NumbersAreFresh, Fresh
  <1>3. Extends(db, db)
    BY DEF Extends
  <1> SUFFICES NumbersKept
    BY DEF NumbersAreFresh, Fresh, NumbersKept
  <1>4. CASE Initialize
    <2>1. /\ Todo' = <<>> /\ \A w \in Pushers : pushing'[w] = None
          /\ ~blind' => g_comment_sequence' = FirstFree(db)
      <3>1. ~blind' => g_comment_sequence' = FirstFree(db)
        BY <1>4, InitializeReads
      <3>2. m_db_queue' = <<>> /\ local_queue' = <<>>
        BY <1>4 DEF Initialize, DownIsEmpty
      <3>3. \A w \in Pushers : pushing'[w] = None
        BY <1>4 DEF Initialize, DownIsEmpty
      <3> QED
        BY <3>1, <3>2, <3>3 DEF Todo
    <2>2. Table' = db /\ db' = db
      BY <1>4 DEF Initialize, DownIsEmpty, Table
    <2>3. \A s \in DOMAIN db : s < FirstFree(db)
      BY FirstFreeIsFree DEF Tables
    <2>4. \A s \in DOMAIN Known' : s < g_comment_sequence'
      <3>1. CASE blind'
        <4>1. DOMAIN Known' = {}
          BY <3>1 DEF Known, NoRows
        <4> QED
          BY <4>1
      <3>2. CASE ~blind'
        <4>1. Known' = db /\ g_comment_sequence' = FirstFree(db)
          BY <2>1, <2>2, <3>2 DEF Known
        <4> QED
          BY <2>3, <4>1
      <3> QED
        BY <3>1, <3>2
    <2>5. Fresh(Known', Todo', g_comment_sequence', pushing')
      BY <2>1, <2>4 DEF Fresh, NumbersUsedOnce, NumbersTaken
    <2> QED
      BY <1>3, <2>2, <2>5 DEF NumbersKept
  <1>5. CASE Crash \/ ShutdownJoins \/ InitializeFails
    <2>1. phase' = "down" /\ db' = db /\ Table' = db
      BY <1>5 DEF Crash, ShutdownJoins, Lost, InitializeFails, workerVars,
                  DownIsEmpty, Table
    <2> QED
      BY <1>3, <2>1 DEF NumbersKept
  <1>6. CASE \/ ShutdownStores \/ ShutdownNotifies \/ WorkerSleeps
             \/ SpuriousWakeup
             \/ \E k \in 0 .. MaxMem - 1 : AgentLooks(k)
    <2>1. /\ UNCHANGED <<db, g_comment_sequence, pushing, blind, Todo, Table>>
          /\ phase # "down" \/ UNCHANGED phase
      BY <1>6, QuietTodo
    <2>2. UNCHANGED Known
      BY <2>1 DEF Known
    <2> QED
      BY <1>2, <1>3, <2>1, <2>2 DEF NumbersKept
  <1>7. ASSUME NEW w \in Pushers, NEW c \in Comments, TakeSequence(w, c)
        PROVE  NumbersKept
    <2>1. UNCHANGED <<Table, Todo, db, blind>> /\ phase = "up"
      BY <1>7 DEF TakeSequence, workerVars, Todo, Table
    <2>2. /\ g_comment_sequence' = g_comment_sequence + 1
          /\ pushing[w] = None
          /\ pushing' = [pushing EXCEPT ![w] =
                           [seq |-> g_comment_sequence, comment |-> c]]
          /\ UNCHANGED Known
      BY <1>7, <2>1 DEF TakeSequence, Known
    <2>3. Fresh(Known, Todo, g_comment_sequence', pushing')
      BY <1>0, <1>1, <1>2, <2>1, <2>2, NumbersTake DEF Fresh
    <2> QED
      BY <1>2, <1>3, <2>1, <2>2, <2>3 DEF NumbersKept
  <1>8. ASSUME NEW w \in Pushers, StoreComment(w)
        PROVE  NumbersKept
    <2>1. PICK x \in Tasks :
            /\ x = [action |-> "INSERT", seq |-> pushing[w].seq,
                    comment |-> pushing[w].comment]
            /\ Todo' = Append(Todo, x)
            /\ UNCHANGED <<phase, tx, db, g_comment_sequence, blind>>
      BY <1>8, StoreTodo
    <2>2. x.action = "INSERT" /\ x.seq = pushing[w].seq
      BY <2>1
    <2>3. UNCHANGED <<Table, Known>>
      BY <2>1 DEF Table, Known
    <2>4. /\ phase = "up" /\ pushing[w] # None
          /\ pushing' = [pushing EXCEPT ![w] = None]
      BY <1>8 DEF StoreComment
    <2>5. Fresh(Known, Append(Todo, x), g_comment_sequence, pushing')
      BY <1>0, <1>1, <1>2, <2>2, <2>4, NumbersStore DEF Fresh
    <2> QED
      BY <1>2, <1>3, <2>1, <2>3, <2>5 DEF NumbersKept
  <1>9. CASE EraseComment
    <2>1. UNCHANGED <<phase, tx, db, g_comment_sequence, pushing, blind>>
      BY <1>9, EraseTodo
    <2>2. UNCHANGED <<Table, Known>>
      BY <2>1 DEF Table, Known
    <2>3. CASE UNCHANGED Todo
      BY <1>2, <1>3, <2>1, <2>2, <2>3 DEF NumbersKept
    <2>4. CASE \E x \in Tasks : x.action = "UPDATE" /\ Todo' = Append(Todo, x)
      <3>1. PICK x \in Tasks : x.action = "UPDATE" /\ Todo' = Append(Todo, x)
        BY <2>4
      <3>2. phase # "down" =>
              Fresh(Known, Append(Todo, x), g_comment_sequence, pushing)
        BY <1>0, <1>1, <1>2, <3>1, NumbersErase DEF Fresh
      <3> QED
        BY <1>2, <1>3, <2>1, <2>2, <3>1, <3>2 DEF NumbersKept
    <2> QED
      BY <1>9, <2>3, <2>4, EraseTodo
  <1>10. CASE WorkerLooks
    <2>1. UNCHANGED <<phase, tx, db, g_comment_sequence, pushing, blind, Todo>>
      BY <1>10, LooksTodo
    <2>2. UNCHANGED <<Table, Known>>
      BY <2>1 DEF Table, Known
    <2> QED
      BY <1>2, <1>3, <2>1, <2>2 DEF NumbersKept
  <1>11. CASE BeginTransaction
    <2>1. /\ UNCHANGED <<phase, db, g_comment_sequence, pushing, blind, Table>>
          /\ UNCHANGED Known
      BY <1>11, BeginTodo DEF Known
    <2>2. CASE UNCHANGED Todo
      BY <1>2, <1>3, <2>1, <2>2 DEF NumbersKept
    <2>3. CASE Todo' = m_db_queue
      <3>1. /\ Len(local_queue) \in Nat
            /\ Len(Todo) = Len(m_db_queue) + Len(local_queue)
            /\ \A i \in 1 .. Len(m_db_queue) :
                  m_db_queue[i] = Todo[i + Len(local_queue)]
        BY <1>0 DEF Todo
      <3>2. DOMAIN Known \subseteq DOMAIN Known
        OBVIOUS
      <3>3. phase # "down" =>
              Fresh(Known, m_db_queue, g_comment_sequence, pushing)
        BY <1>0, <1>1, <1>2, <3>1, <3>2, NumbersFewer DEF Fresh
      <3> QED
        BY <1>2, <1>3, <2>1, <2>3, <3>3 DEF NumbersKept
    <2> QED
      BY <1>11, <2>2, <2>3, BeginTodo
  <1>12. CASE ExecuteTaskToSqlite
    <2>1. /\ UNCHANGED <<phase, g_comment_sequence, pushing, blind>>
          /\ Todo # <<>> /\ Todo' = Tail(Todo)
          /\ \/ /\ Table' = ExecuteTask(Table, Head(Todo))
                /\ UNCHANGED db \/ (tx = {} /\ db' = Table')
             \/ UNCHANGED db /\ Table' \in {Table, db}
      BY <1>12, ExecuteTodo
    <2>2. phase # "down"
      BY <1>12 DEF ExecuteTaskToSqlite, DownIsEmpty
    <2>3. /\ Fresh(ExecuteTask(Known, Head(Todo)), Tail(Todo),
                   g_comment_sequence, pushing)
          /\ Fresh(Known, Tail(Todo), g_comment_sequence, pushing)
          /\ Extends(Known, ExecuteTask(Known, Head(Todo)))
      BY <1>0, <1>1, <1>2, <2>1, <2>2, NumbersExecute DEF Fresh
    <2>4. CASE blind
      <3>1. Known' = Known
        BY <2>1, <2>4 DEF Known
      <3> QED
        BY <2>1, <2>3, <2>4, <3>1 DEF NumbersKept
    <2>5. CASE ~blind
      <3>1. Known = Table /\ Known' = Table' /\ Extends(db, Table)
        BY <1>2, <2>1, <2>5 DEF Known
      <3>2. PICK u : u = ExecuteTask(Table, Head(Todo))
        OBVIOUS
      <3>3. /\ Fresh(u, Tail(Todo), g_comment_sequence, pushing)
            /\ Fresh(Table, Tail(Todo), g_comment_sequence, pushing)
            /\ Extends(db, u) /\ Extends(u, u)
        <4>1. Extends(db, u)
          BY <2>3, <3>1, <3>2, ExtendsTransitive
        <4>2. Extends(u, u)
          BY DEF Extends
        <4> QED
          BY <2>3, <3>1, <3>2, <4>1, <4>2
      <3>4. Fresh(db, Tail(Todo), g_comment_sequence, pushing)
        <4>1. DOMAIN db \subseteq DOMAIN Table
          BY <3>1 DEF Extends
        <4>2. Tail(Todo) \in Seq(Tasks)
          BY <1>1, <2>1
        <4>3. PICK r \in Seq(Tasks) : r = Tail(Todo)
          BY <4>2
        <4>4. /\ 0 \in Nat /\ Len(r) = Len(r) + 0
              /\ \A i \in 1 .. Len(r) : r[i] = r[i + 0]
          OBVIOUS
        <4>5. NumbersUsedOnce(Table, r, g_comment_sequence)
                /\ NumbersTaken(Table, r, g_comment_sequence, pushing)
          BY <3>3, <4>3 DEF Fresh
        <4>6. Fresh(db, r, g_comment_sequence, pushing)
          BY <1>0, <4>1, <4>4, <4>5, NumbersFewer DEF Fresh
        <4> QED
          BY <4>3, <4>6
      <3>5. CASE Table' = u /\ (UNCHANGED db \/ db' = Table')
        BY <1>3, <2>1, <3>1, <3>3, <3>5 DEF NumbersKept
      <3>6. CASE UNCHANGED db /\ Table' \in {Table, db}
        BY <1>3, <2>1, <3>1, <3>3, <3>4, <3>6 DEF NumbersKept
      <3> QED
        BY <2>1, <3>2, <3>5, <3>6
    <2> QED
      BY <1>0, <2>4, <2>5
  <1>13. CASE EndTransaction
    <2>1. UNCHANGED <<phase, g_comment_sequence, pushing, blind, Todo>>
      BY <1>13, EndTodo
    <2>2. CASE blind
      <3>1. Known' = Known
        BY <2>1, <2>2 DEF Known
      <3> QED
        BY <1>2, <2>1, <2>2, <3>1 DEF NumbersKept
    <2>3. CASE ~blind
      <3>1. /\ Known = Table /\ Known' = Table' /\ Extends(db, Table)
            /\ Extends(Table, Table)
        BY <1>2, <2>1, <2>3 DEF Known, Extends
      <3>2. CASE db' = Table /\ Table' = Table
        BY <1>2, <2>1, <3>1, <3>2 DEF NumbersKept
      <3>3. CASE UNCHANGED db /\ Table' = Table
        BY <1>2, <1>3, <2>1, <3>1, <3>3 DEF NumbersKept
      <3>4. CASE UNCHANGED db /\ Table' = db
        <4>1. DOMAIN db \subseteq DOMAIN Table
          BY <3>1 DEF Extends
        <4>2. /\ 0 \in Nat /\ Len(Todo) = Len(Todo) + 0
              /\ \A i \in 1 .. Len(Todo) : Todo[i] = Todo[i + 0]
          BY <1>1
        <4>3. phase # "down" => Fresh(db, Todo, g_comment_sequence, pushing)
          BY <1>0, <1>1, <1>2, <3>1, <4>1, <4>2, NumbersFewer DEF Fresh
        <4> QED
          BY <1>3, <2>1, <3>1, <3>4, <4>3 DEF NumbersKept
      <3> QED
        BY <1>13, <3>2, <3>3, <3>4, EndTodo
    <2> QED
      BY <1>0, <2>2, <2>3
  <1> QED
    BY <1>4, <1>5, <1>6, <1>7, <1>8, <1>9, <1>10, <1>11, <1>12, <1>13
       DEF Next, ShutdownStep, WorkerStep

-----------------------------------------------------------------------------
(* The ring and what the agent has seen.                                   *)

\* The steps of the worker and of Shutdown leave the ring alone.
LEMMA RingUntouched ==
  ASSUME \/ ShutdownStores \/ ShutdownNotifies \/ WorkerStep \/ SpuriousWakeup
  PROVE  /\ UNCHANGED <<ring, pushing, g_comment_sequence, seen, starts>>
         /\ phase # "down" \/ UNCHANGED phase
  <1>1. CASE ShutdownStores \/ ShutdownNotifies
    BY <1>1 DEF ShutdownStores, ShutdownNotifies, memoryVars, counters
  <1>2. CASE WorkerLooks \/ WorkerSleeps \/ SpuriousWakeup
    BY <1>2 DEF WorkerLooks, WorkerSleeps, SpuriousWakeup, memoryVars, counters
  <1>3. CASE BeginTransaction \/ ExecuteTaskToSqlite \/ EndTransaction
    BY <1>3 DEF BeginTransaction, ExecuteTaskToSqlite, EndTransaction, unmoved,
                memoryVars
  <1> QED
    BY <1>1, <1>2, <1>3 DEF WorkerStep

\* What a pusher leaves in the ring.
LEMMA StoreRing ==
  ASSUME PlainTypes, NEW w \in Pushers, StoreComment(w)
  PROVE  /\ pushing[w].seq \in Nat /\ pushing[w].comment \in Comments
         /\ \A k \in 0 .. MaxMem - 1 :
               \/ UNCHANGED ring[k] /\ k # Slot(pushing[w].seq)
               \/ /\ ring'[k].sequence = pushing[w].seq + 1
                  /\ ring'[k].comment = pushing[w].comment
                  /\ ~ring'[k].erased
         /\ \A v \in Pushers :
               pushing'[v] # None => v # w /\ pushing'[v] = pushing[v]
         /\ UNCHANGED <<g_comment_sequence, phase, seen, starts>>
  <1>1. PICK slot : slot = [sequence |-> pushing[w].seq + 1,
                            comment |-> pushing[w].comment, erased |-> FALSE]
    OBVIOUS
  <1>2. pushing[w].seq \in Nat /\ pushing[w].comment \in Comments
    BY DEF StoreComment, PlainTypes
  <1>3. ring' = [ring EXCEPT ![Slot(pushing[w].seq)] = slot]
    BY <1>1 DEF StoreComment
  <1>4. /\ slot.sequence = pushing[w].seq + 1
        /\ slot.comment = pushing[w].comment /\ ~slot.erased
    BY <1>1
  <1>5. \A k \in 0 .. MaxMem - 1 :
          ring'[k] = IF k = Slot(pushing[w].seq) THEN slot ELSE ring[k]
    BY <1>3 DEF PlainTypes
  <1>6. \A v \in Pushers :
          pushing'[v] # None => v # w /\ pushing'[v] = pushing[v]
    BY DEF StoreComment, PlainTypes
  <1>7. UNCHANGED <<g_comment_sequence, phase, seen, starts>>
    BY DEF StoreComment, counters
  <1> QED
    BY <1>2, <1>4, <1>5, <1>6, <1>7

\* What TakeSequence does to the pushers.
LEMMA TakePushers ==
  ASSUME PlainTypes, NEW w \in Pushers, NEW c \in Comments, TakeSequence(w, c)
  PROVE  /\ \A v \in Pushers :
               pushing'[v] # None =>
                  pushing'[v].seq = g_comment_sequence \/ pushing'[v] = pushing[v]
         /\ g_comment_sequence' = g_comment_sequence + 1
         /\ UNCHANGED <<ring, phase, seen, starts>>
         /\ phase = "up"
  BY DEF TakeSequence, PlainTypes

\* EraseComment changes no number and no comment.
LEMMA EraseRing ==
  ASSUME PlainTypes, EraseComment
  PROVE  /\ \A k \in 0 .. MaxMem - 1 :
               /\ ring'[k].sequence = ring[k].sequence
               /\ ring'[k].comment = ring[k].comment
               /\ ~ring[k].erased /\ ring'[k].erased =>
                     k = Slot(seen.seq) /\ StillHolds(seen.seq)
         /\ UNCHANGED <<g_comment_sequence, pushing, phase, starts>>
         /\ seen' = None
  <1>1. UNCHANGED <<g_comment_sequence, pushing, phase, starts>> /\ seen' = None
    BY DEF EraseComment
  <1>2. CASE StillHolds(seen.seq)
    <2>1. ring' = [ring EXCEPT ![Slot(seen.seq)].erased = TRUE]
      BY <1>2 DEF EraseComment
    <2>2. \A k \in 0 .. MaxMem - 1 :
            ring'[k] = IF k = Slot(seen.seq)
                       THEN [ring[k] EXCEPT !.erased = TRUE] ELSE ring[k]
      BY <2>1 DEF PlainTypes
    <2>3. \A k \in 0 .. MaxMem - 1 :
            /\ [ring[k] EXCEPT !.erased = TRUE].sequence = ring[k].sequence
            /\ [ring[k] EXCEPT !.erased = TRUE].comment = ring[k].comment
      BY DEF PlainTypes, Slots
    <2> QED
      BY <1>1, <1>2, <2>2, <2>3
  <1>3. CASE ~StillHolds(seen.seq)
    BY <1>1, <1>3 DEF EraseComment
  <1> QED
    BY <1>2, <1>3

\* Every step keeps the ring behind the counter and apart from the pushers.
LEMMA RingStep ==
  ASSUME PlainTypes, Tables, DownIsEmpty, NumbersAreFresh, RingIsPast, Next
  PROVE  RingIsPast'
  <1>0. /\ g_comment_sequence \in Nat
        /\ \A k \in 0 .. MaxMem - 1 : ring[k].sequence \in Nat
        /\ \A w \in Pushers : pushing[w] # None => pushing[w].seq \in Nat
    BY DEF PlainTypes, Slots
  <1>1. CASE Initialize
    <2>1. PICK t : /\ IsTable(t)
                   /\ g_comment_sequence' = FirstFree(t) /\ ring' = Restored(t)
      BY <1>1, InitializeReads
    <2>2. \A w \in Pushers : pushing'[w] = None
      BY <1>1 DEF Initialize, DownIsEmpty
    <2> QED
      BY <2>1, <2>2, RestoredFacts DEF RingIsPast
  <1>2. CASE Crash \/ ShutdownJoins
    <2>1. /\ phase' = "down" /\ ring' = EmptyRing
          /\ \A w \in Pushers : pushing'[w] = None
      BY <1>2 DEF Crash, ShutdownJoins, Lost
    <2>2. \A k \in 0 .. MaxMem - 1 : EmptyRing[k].sequence = 0
      BY DEF EmptyRing, EmptySlot
    <2> QED
      BY <2>1, <2>2 DEF RingIsPast
  <1>3. CASE ShutdownStores \/ ShutdownNotifies \/ WorkerStep \/ SpuriousWakeup
    BY <1>3, RingUntouched DEF RingIsPast
  <1>8. CASE InitializeFails
    BY <1>8 DEF InitializeFails, memoryVars, RingIsPast
  <1>4. ASSUME NEW w \in Pushers, NEW c \in Comments, TakeSequence(w, c)
        PROVE  RingIsPast'
    <2>1. \A k \in 0 .. MaxMem - 1 :
            ring[k].sequence <= g_comment_sequence
      BY <1>4, TakePushers DEF RingIsPast
    <2>2. \A k \in 0 .. MaxMem - 1 :
            /\ ring[k].sequence <= g_comment_sequence + 1
            /\ ring[k].sequence # g_comment_sequence + 1
      BY <1>0, <2>1
    <2> QED
      BY <1>4, <2>2, TakePushers DEF RingIsPast
  <1>5. ASSUME NEW w \in Pushers, StoreComment(w)
        PROVE  RingIsPast'
    <2>1. /\ phase = "up" /\ pushing[w] # None
          /\ NumbersTaken(Known, Todo, g_comment_sequence, pushing)
      BY <1>5 DEF StoreComment, NumbersAreFresh
    <2>2. /\ pushing[w].seq < g_comment_sequence
          /\ \A v \in Pushers :
                pushing[v] # None /\ pushing[v].seq = pushing[w].seq => v = w
      BY <2>1 DEF NumbersTaken
    <2> SUFFICES ASSUME NEW k \in 0 .. MaxMem - 1
                 PROVE  /\ ring'[k].sequence > 0 => ring'[k].comment \in Comments
                        /\ ring'[k].sequence <= g_comment_sequence
                        /\ \A v \in Pushers :
                              pushing'[v] # None =>
                                 ring'[k].sequence # pushing'[v].seq + 1
      BY <1>5, StoreRing DEF RingIsPast
    <2>3. CASE UNCHANGED ring[k]
      BY <1>5, <2>1, <2>3, StoreRing DEF RingIsPast
    <2>4. CASE /\ ring'[k].sequence = pushing[w].seq + 1
               /\ ring'[k].comment = pushing[w].comment
      <3>1. pushing[w].seq \in Nat /\ pushing[w].comment \in Comments
        BY <1>5, StoreRing
      <3>2. ring'[k].sequence <= g_comment_sequence
        BY <1>0, <2>2, <2>4, <3>1
      <3>3. ASSUME NEW v \in Pushers, pushing'[v] # None
            PROVE  ring'[k].sequence # pushing'[v].seq + 1
        <4>1. v # w /\ pushing'[v] = pushing[v] /\ pushing[v] # None
          BY <1>5, <3>3, StoreRing
        <4>2. pushing[v].seq # pushing[w].seq /\ pushing[v].seq \in Nat
          BY <1>0, <2>2, <4>1
        <4> QED
          BY <2>4, <3>1, <4>1, <4>2
      <3> QED
        BY <2>4, <3>1, <3>2, <3>3
    <2> QED
      BY <1>5, <2>3, <2>4, StoreRing
  <1>6. ASSUME NEW k \in 0 .. MaxMem - 1, AgentLooks(k)
        PROVE  RingIsPast'
    BY <1>6 DEF AgentLooks, memoryVars, RingIsPast
  <1>7. CASE EraseComment
    BY <1>7, EraseRing DEF RingIsPast
  <1> QED
    BY <1>1, <1>2, <1>3, <1>4, <1>5, <1>6, <1>7, <1>8
       DEF Next, ShutdownStep

\* Every step keeps what the agent has seen apart from what is being written.
LEMMA SeenStep ==
  ASSUME PlainTypes, DownIsEmpty, RingIsPast, SeenIsPast, Next
  PROVE  SeenIsPast'
  <1>0. /\ g_comment_sequence \in Nat /\ starts \in Nat
        /\ \A k \in 0 .. MaxMem - 1 : ring[k].sequence \in Nat
        /\ \A w \in Pushers : pushing[w] # None => pushing[w].seq \in Nat
        /\ seen # None => seen.seq \in Nat /\ seen.life \in Nat
    <2>1. g_comment_sequence \in Nat /\ starts \in Nat
      BY CommentRepositoryAssumption DEF PlainTypes
    <2>2. \A k \in 0 .. MaxMem - 1 : ring[k].sequence \in Nat
      BY DEF PlainTypes, Slots
    <2>3. \A w \in Pushers : pushing[w] # None => pushing[w].seq \in Nat
      BY DEF PlainTypes
    <2>4. seen # None => seen.seq \in Nat /\ seen.life \in Nat
      BY DEF PlainTypes
    <2> QED
      BY <2>1, <2>2, <2>3, <2>4
  <1>1. CASE Initialize
    <2>1. starts' = starts + 1 /\ UNCHANGED seen
      BY <1>1 DEF Initialize
    <2>2. seen # None => seen.life < starts'
      BY <1>0, <2>1 DEF SeenIsPast
    <2>3. seen # None => seen.life <= starts' /\ seen.life # starts'
      BY <1>0, <2>1, <2>2
    <2> QED
      BY <2>1, <2>3 DEF SeenIsPast
  <1>2. CASE Crash \/ ShutdownJoins
    BY <1>2 DEF Crash, ShutdownJoins, Lost, counters, SeenIsPast
  <1>8. CASE InitializeFails
    <2>1. phase' = "down" /\ starts' = starts + 1 /\ UNCHANGED seen
      BY <1>8 DEF InitializeFails
    <2>2. seen # None => seen.life <= starts'
      BY <1>0, <2>1 DEF SeenIsPast
    <2> QED
      BY <2>1, <2>2 DEF SeenIsPast
  <1>3. CASE ShutdownStores \/ ShutdownNotifies \/ WorkerStep \/ SpuriousWakeup
    BY <1>3, RingUntouched DEF SeenIsPast, StillHolds
  <1>4. ASSUME NEW w \in Pushers, NEW c \in Comments, TakeSequence(w, c)
        PROVE  SeenIsPast'
    <2>1. ASSUME seen # None, seen.seq < g_comment_sequence
          PROVE  seen.seq < g_comment_sequence + 1 /\ seen.seq # g_comment_sequence
      BY <1>0, <2>1
    <2> QED
      BY <1>4, <2>1, TakePushers DEF SeenIsPast, StillHolds
  <1>5. ASSUME NEW w \in Pushers, StoreComment(w)
        PROVE  SeenIsPast'
    <2>1. phase = "up" /\ pushing[w] # None
      BY <1>5 DEF StoreComment
    <2> SUFFICES ASSUME seen # None, seen.life = starts
                 PROVE  /\ seen.seq < g_comment_sequence
                        /\ \A v \in Pushers :
                             pushing'[v] # None => pushing'[v].seq # seen.seq
                        /\ ring'[Slot(seen.seq)].sequence = seen.seq + 1 =>
                             ring'[Slot(seen.seq)].comment = seen.comment
      BY <1>5, StoreRing DEF SeenIsPast, StillHolds
    <2>2. /\ seen.seq < g_comment_sequence
          /\ \A v \in Pushers : pushing[v] # None => pushing[v].seq # seen.seq
          /\ ring[Slot(seen.seq)].sequence = seen.seq + 1 =>
                ring[Slot(seen.seq)].comment = seen.comment
      BY <2>1 DEF SeenIsPast, StillHolds
    <2>3. Slot(seen.seq) \in 0 .. MaxMem - 1
      BY <1>0, SlotInRange
    <2>4. pushing[w].seq + 1 # seen.seq + 1
      BY <1>0, <2>1, <2>2
    <2> QED
      BY <1>5, <2>2, <2>3, <2>4, StoreRing
  <1>6. ASSUME NEW k \in 0 .. MaxMem - 1, AgentLooks(k)
        PROVE  SeenIsPast'
    <2>1. /\ UNCHANGED <<ring, pushing, g_comment_sequence, phase, starts>>
          /\ seen' = [seq |-> ring[k].sequence - 1, comment |-> ring[k].comment,
                      life |-> starts]
          /\ ring[k].sequence > 0 /\ ring[k].sequence <= g_comment_sequence
          /\ Slot(ring[k].sequence - 1) = k
      BY <1>6 DEF AgentLooks, InWindow, memoryVars, counters
    <2>2. /\ seen'.seq = ring[k].sequence - 1
          /\ seen'.comment = ring[k].comment /\ seen'.life = starts
      BY <2>1
    <2>3. seen'.seq < g_comment_sequence /\ seen'.life <= starts
      BY <1>0, <2>1, <2>2
    <2>4. ASSUME NEW w \in Pushers, pushing[w] # None
          PROVE  pushing[w].seq # seen'.seq
      <3>1. ring[k].sequence # pushing[w].seq + 1
        BY <2>4 DEF RingIsPast
      <3> QED
        BY <1>0, <2>1, <2>2, <2>4, <3>1
    <2>5. ring[Slot(seen'.seq)].comment = seen'.comment
      BY <2>1, <2>2
    <2> QED
      BY <2>1, <2>3, <2>4, <2>5 DEF SeenIsPast, StillHolds
  <1>7. CASE EraseComment
    BY <1>7, EraseRing DEF SeenIsPast
  <1> QED
    BY <1>1, <1>2, <1>3, <1>4, <1>5, <1>6, <1>7, <1>8
       DEF Next, ShutdownStep

-----------------------------------------------------------------------------
(* The theorems.                                                           *)

\* The invariant holds before the first start.
LEMMA InvInit ==
  ASSUME Init
  PROVE  RepositoryInv
  <1>1. OneTransaction /\ DownIsEmpty /\ WorkerInStep /\ BatchInStep
    BY DEF Init, OneTransaction, DownIsEmpty, WorkerInStep, BatchInStep
  <1>2. IsTable(NoRows)
    BY FS_EmptySet DEF IsTable, NoRows
  <1>3. Tables
    BY <1>2 DEF Init, Tables
  <1>4. PlainTypes
    <2>1. EmptyRing \in [0 .. MaxMem - 1 -> Slots]
      BY DEF EmptyRing, EmptySlot, Slots
    <2>2. 0 \in 0 .. MaxErases /\ 0 \in 0 .. MaxFailures /\ 0 \in 0 .. MaxStarts
      BY CommentRepositoryAssumption
    <2>3. /\ m_db_queue \in Seq(Tasks) /\ local_queue \in Seq(Tasks)
          /\ batch \in Seq(Tasks)
      BY DEF Init
    <2>4. /\ phase \in {"down", "up", "draining", "closing"}
          /\ wpc \in {"none", "lock", "blocking", "asleep", "begin", "exec",
                      "exited"}
          /\ m_stop_requested \in BOOLEAN /\ all_ok \in BOOLEAN
      BY DEF Init
    <2>5. pushing \in [Pushers -> [seq : Nat, comment : Comments] \cup {None}]
      BY DEF Init
    <2> QED
      BY <2>1, <2>2, <2>3, <2>4, <2>5 DEF Init, PlainTypes
  <1>5. TypeOK
    BY <1>1, <1>3, <1>4, TypeParts
  <1>6. DiskCatchesUp
    BY DEF Init, DiskCatchesUp
  <1>7. NumbersAreFresh
    BY DEF Init, NumbersAreFresh, Table, Extends
  <1>8. RingIsPast
    BY DEF Init, RingIsPast, EmptyRing, EmptySlot
  <1>9. SeenIsPast
    BY DEF Init, SeenIsPast
  <1> QED
    BY <1>1, <1>5, <1>6, <1>7, <1>8, <1>9 DEF RepositoryInv

\* Every step keeps the invariant.
LEMMA InvStep ==
  ASSUME RepositoryInv, [Next]_vars
  PROVE  RepositoryInv'
  <1> USE DEF RepositoryInv
  <1>0. PlainTypes /\ Tables
    BY TypeParts
  <1>1. CASE Next
    <2>1. PlainTypes' /\ Tables' /\ OneTransaction'
      BY <1>0, <1>1, PlainStep, TablesStep
    <2>2. TypeOK'
      <3>1. Cardinality(tx') <= 1
        BY <2>1, OneAtMost DEF OneTransaction
      <3> QED
        BY <2>1, <3>1 DEF TypeOK, PlainTypes, Tables
    <2>3. DownIsEmpty' /\ WorkerInStep' /\ BatchInStep' /\ DiskCatchesUp'
      BY <1>0, <1>1, WorkerStaysInStep, BatchStep, DiskStep
    <2>4. NumbersAreFresh' /\ RingIsPast' /\ SeenIsPast'
      BY <1>0, <1>1, NumbersStep, RingStep, SeenStep
    <2> QED
      BY <2>1, <2>2, <2>3, <2>4
  <1>2. CASE UNCHANGED vars
    BY <1>2 DEF vars, TypeOK, OneTransaction, DownIsEmpty, WorkerInStep,
                BatchInStep, DiskCatchesUp, NumbersAreFresh, RingIsPast,
                SeenIsPast, Table, Known, Todo, StillHolds
  <1> QED
    BY <1>1, <1>2

\* The inductive invariant holds in every state of the repository.
THEOREM RepositoryInvariant == Spec => []RepositoryInv
  BY InvInit, InvStep, PTL DEF Spec

\* The repository keeps its types.
THEOREM TypeCorrect == Spec => []TypeOK
  <1>1. RepositoryInv => TypeOK
    BY DEF RepositoryInv
  <1> QED
    BY <1>1, RepositoryInvariant, PTL

\* Memory and disk agree up to what is queued (EnqueueDBTask, DBWorkerLoop),
\* for any threads, comments, ring size, crashes and restarts.
THEOREM DiskAlwaysCatchesUp == Spec => []DiskCatchesUp
  <1>1. RepositoryInv => DiskCatchesUp
    BY DEF RepositoryInv
  <1> QED
    BY <1>1, RepositoryInvariant, PTL

\* When the worker has left on Shutdown, nothing is missing from the table.
THEOREM ShutdownHasDrained == Spec => []ShutdownDrains
  <1>1. ASSUME RepositoryInv
        PROVE  ShutdownDrains
    <2> SUFFICES ASSUME wpc = "exited", failures = 0
                 PROVE  db = truth
      BY DEF ShutdownDrains
    <2>1. local_queue = <<>> /\ m_db_queue = <<>> /\ tx = {} /\ phase # "down"
      BY <1>1 DEF RepositoryInv, WorkerInStep
    <2>2. local_queue \o m_db_queue = <<>> /\ Table = db
      BY <2>1 DEF Table
    <2>3. Executed(db, <<>>) = truth
      BY <1>1, <2>1, <2>2 DEF RepositoryInv, DiskCatchesUp
    <2> QED
      BY <2>3, ExecutedEmpty
  <1> QED
    BY <1>1, RepositoryInvariant, PTL

\* No row of the table is replaced, and what is blotted out stays so, across
\* crashes, restarts and refused statements, in every life but those whose
\* counter has restarted below a row because the SELECT was refused
\* (PushComment, Initialize, DBWorkerLoop).
THEOREM RowsStay == Spec => RowsAreFinal
  <1>1. ASSUME RepositoryInv, [Next]_vars
        PROVE  [~blind => RowsKept]_vars
    <2>1. CASE Next
      <3>1. PlainTypes /\ Tables
        BY <1>1, TypeParts DEF RepositoryInv
      <3>2. ~blind => Extends(db, db')
        BY <1>1, <2>1, <3>1, NumbersStep DEF RepositoryInv
      <3> QED
        BY <3>2 DEF Extends, RowsKept
    <2>2. CASE UNCHANGED vars
      BY <2>2
    <2> QED
      BY <1>1, <2>1, <2>2
  <1> QED
    BY <1>1, RepositoryInvariant, PTL DEF Spec, RowsAreFinal

\* Whatever statements are refused, the table changes by all tasks of a batch
\* in their order or not at all, unless SQLite has ended the transaction in
\* the middle of the batch (DBWorkerLoop).
THEOREM BatchesAreAtomic == Spec => BatchIsAtomic
  <1> DEFINE Whole ==
               db' # db => \/ db' = Executed(db, batch)
                           \/ wpc = "exec" /\ tx = {}
  <1>1. ASSUME RepositoryInv, [Next]_vars
        PROVE  [Whole]_vars
    <2>0. PlainTypes /\ Tables
      BY <1>1, TypeParts DEF RepositoryInv
    <2>1. CASE EndTransaction
      <3>1. db' = db \/ (db' = Table /\ all_ok)
        BY <1>1, <2>0, <2>1, EndTodo DEF RepositoryInv
      <3>2. all_ok => Executed(Table, <<>>) = Executed(db, batch)
        BY <1>1, <2>1 DEF RepositoryInv, BatchInStep, EndTransaction
      <3> QED
        BY <3>1, <3>2, ExecutedEmpty
    <2>2. CASE ExecuteTaskToSqlite
      BY <2>2 DEF ExecuteTaskToSqlite, Write
    <2>3. CASE BeginTransaction \/ WorkerLooks \/ WorkerSleeps \/ SpuriousWakeup
      BY <2>3 DEF BeginTransaction, WorkerLooks, WorkerSleeps, SpuriousWakeup
    <2>4. CASE \/ Initialize \/ InitializeFails \/ Crash \/ ShutdownStores
               \/ ShutdownStep
      BY <2>4 DEF Initialize, InitializeFails, Crash, ShutdownStores,
                  ShutdownStep, ShutdownNotifies, ShutdownJoins, Lost
    <2>5. CASE \/ EraseComment
               \/ \E w \in Pushers, c \in Comments : TakeSequence(w, c)
               \/ \E w \in Pushers : StoreComment(w)
               \/ \E k \in 0 .. MaxMem - 1 : AgentLooks(k)
      BY <2>5 DEF EraseComment, TakeSequence, StoreComment, AgentLooks
    <2> QED
      BY <1>1, <2>1, <2>2, <2>3, <2>4, <2>5 DEF Next, WorkerStep
  <1>2. [][Whole]_vars => BatchIsAtomic
    BY PTL DEF BatchIsAtomic
  <1> QED
    BY <1>1, <1>2, RepositoryInvariant, PTL DEF Spec

\* The agent's late answer blots out the comment it has seen and no other
\* (EraseComment's look at the slot's number).
THEOREM ErasesNothingElse == Spec => ErasesWhatWasSeen
  <1> DEFINE Right == \A k \in 0 .. MaxMem - 1 :
                (~ring[k].erased /\ ring'[k].erased /\ phase = "up"
                   /\ seen # None /\ seen.life = starts)
                => ring[k].comment = seen.comment
  <1>1. ASSUME RepositoryInv, [Next]_vars
        PROVE  [Right]_vars
    <2>0. PlainTypes
      BY <1>1, TypeParts DEF RepositoryInv
    <2>1. CASE EraseComment
      <3>1. \A k \in 0 .. MaxMem - 1 :
              ~ring[k].erased /\ ring'[k].erased =>
                 k = Slot(seen.seq) /\ StillHolds(seen.seq)
        BY <2>0, <2>1, EraseRing
      <3>2. phase = "up" /\ seen # None /\ seen.life = starts
              /\ StillHolds(seen.seq) =>
                   ring[Slot(seen.seq)].comment = seen.comment
        BY <1>1 DEF RepositoryInv, SeenIsPast
      <3> QED
        BY <3>1, <3>2
    <2>2. CASE Initialize \/ InitializeFails
      BY <2>2 DEF Initialize, InitializeFails
    <2>3. CASE Crash \/ ShutdownJoins
      <3>1. ring' = EmptyRing
        BY <2>3 DEF Crash, ShutdownJoins, Lost
      <3>2. \A k \in 0 .. MaxMem - 1 : ~ring'[k].erased
        BY <3>1 DEF EmptyRing, EmptySlot
      <3> QED
        BY <3>2
    <2>4. CASE ShutdownStores \/ ShutdownNotifies \/ WorkerStep \/ SpuriousWakeup
      <3>1. ring' = ring
        BY <2>4, RingUntouched
      <3> QED
        BY <3>1
    <2>5. ASSUME NEW w \in Pushers, NEW c \in Comments, TakeSequence(w, c)
          PROVE  Right
      BY <2>5 DEF TakeSequence
    <2>6. ASSUME NEW w \in Pushers, StoreComment(w)
          PROVE  Right
      BY <2>0, <2>6, StoreRing
    <2>7. ASSUME NEW k \in 0 .. MaxMem - 1, AgentLooks(k)
          PROVE  Right
      BY <2>7 DEF AgentLooks, memoryVars
    <2> HIDE DEF Right
    <2> QED
      BY <1>1, <2>1, <2>2, <2>3, <2>4, <2>5, <2>6, <2>7 DEF Next, ShutdownStep
  <1>2. [][Right]_vars => ErasesWhatWasSeen
    BY PTL DEF ErasesWhatWasSeen
  <1> QED
    BY <1>1, <1>2, RepositoryInvariant, PTL DEF Spec
=============================================================================
