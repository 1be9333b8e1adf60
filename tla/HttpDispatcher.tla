--------------------------- MODULE HttpDispatcher ---------------------------
(***************************************************************************)
(* The application: what the handlers of HttpDispatcher do to the comments,*)
(* the blacklist and the breaker's flag.  The sub loops run handlers at    *)
(* the same time; a handler's calls are steps of their own.  A refused     *)
(* request and one that only reads (monitor, comments, telemetry, stress,  *)
(* static files) change nothing.  Comments are kept by CommentRepository;  *)
(* here they are those that were pushed, and an erased one has its author  *)
(* overwritten.  The breaker is SysMetricsDaemon's; here its flag changes  *)
(* at any time.                                                            *)
(***************************************************************************)
EXTENDS BlacklistManager

CONSTANTS
    Comments,     \* what clients may post: [nick, ip, words]
    Anonymous,    \* the nickname of those who give none
    Intercepted,  \* the nickname that EraseComment writes over the author's
    MaxPosts,     \* bound: comments posted
    MaxEdits      \* bound: edits of the blacklist file

\* What a comment says may become a rule.
ASSUME DispatcherAssumption ==
    /\ Comments \subseteq [nick : DOMAIN Written, words : SUBSET DOMAIN Written,
                           ip : {""} \cup DOMAIN Written]
    /\ Intercepted \in DOMAIN Written
    /\ MaxPosts \in Nat /\ MaxEdits \in Nat

VARIABLES
    cooldown,     \* g_agent_cooldown_mode
    posts,        \* the comments in the repository, by sequence number
    job,          \* job[t]: what thread t is doing between two steps
    edits         \* edits made so far

dispatcherVars == <<blacklistVars, cooldown, posts, job, edits>>

Idle == [op |-> "idle"]

DispatcherInit ==
    /\ InitBlacklist
    /\ cooldown = FALSE
    /\ posts = <<>>
    /\ job = [t \in Threads |-> Idle]
    /\ edits = 0

Does(t, op) == job[t].op = op
Becomes(t, j) == job' = [job EXCEPT ![t] = j]

-----------------------------------------------------------------------------
(* HandlePostComment: the breaker, the blacklist, and then the repository. *)

CheckPost(t, c) ==
    /\ Does(t, "idle")
    /\ ~cooldown
    /\ CanRead
    /\ CheckComment(m_rules, c) = "none"
    /\ Len(posts) + Cardinality({u \in Threads : Does(u, "push")}) < MaxPosts
    /\ Becomes(t, [op |-> "push", comment |-> c])
    /\ UNCHANGED <<blacklistVars, cooldown, posts, edits>>

PushComment(t) ==
    /\ Does(t, "push")
    /\ posts' = Append(posts, job[t].comment)
    /\ Becomes(t, Idle)
    /\ UNCHANGED <<blacklistVars, cooldown, edits>>

-----------------------------------------------------------------------------
(* HandleAgentControl.                                                     *)

\* The agent's command, or the daemon.
CooldownChanges ==
    /\ cooldown' = ~cooldown
    /\ UNCHANGED <<blacklistVars, posts, job, edits>>

AgentBlocks(t, seqs) ==
    /\ Does(t, "idle")
    /\ Becomes(t, [op |-> "erase", todo |-> seqs, due |-> {}, rules |-> {}])
    /\ UNCHANGED <<blacklistVars, cooldown, posts, edits>>

\* The rules an erased comment leads to: its author unless anonymous, and the
\* address if it is known.
BannedBy(c) ==
    {Rule("nick", n) : n \in {c.nick} \ {"", Anonymous}}
    \cup {Rule("ip", a) : a \in {c.ip} \ {""}}

\* Variant: the comments of a batch replace one another's rules.
CollectLast(rules, c) == BannedBy(c)

Collect(rules, c) == rules \cup BannedBy(c)

\* EraseComment of one of the numbers: the author and the address are handed
\* back and the author is overwritten, also when that has happened before; or
\* the comment has left the ring.
EraseComment(t) ==
    /\ Does(t, "erase")
    /\ \E seq \in job[t].todo :
        LET rest == [job[t] EXCEPT !.todo = @ \ {seq}]
        IN  \/ /\ posts' = [posts EXCEPT ![seq].nick = Intercepted, ![seq].words = {}]
               /\ Becomes(t, [rest EXCEPT !.due = @ \cup BannedBy(posts[seq]),
                                          !.rules = Collect(@, posts[seq])])
            \/ Becomes(t, rest) /\ UNCHANGED posts
    /\ UNCHANGED <<blacklistVars, cooldown, edits>>

BanAuthors(t) ==
    /\ Does(t, "erase")
    /\ job[t].todo = {}
    /\ AddBatch(t, job[t].rules)
    /\ Becomes(t, IF writer' = t THEN [job[t] EXCEPT !.op = "persist"] ELSE Idle)
    /\ UNCHANGED <<cooldown, posts, edits>>

WriteBan(t) ==
    /\ Does(t, "persist")
    /\ PersistToFile(t, job[t].due)
    /\ Becomes(t, Idle)
    /\ UNCHANGED <<cooldown, posts, edits>>

-----------------------------------------------------------------------------
(* HandleAdminReloadBlacklist and the SIGHUP thread.                       *)

Reload(t) ==
    /\ Does(t, "idle")
    /\ ReloadReads(t) \/ ReloadSwaps(t)
    /\ UNCHANGED <<cooldown, posts, job, edits>>

Operator ==
    /\ edits < MaxEdits
    /\ edits' = edits + 1
    /\ \E rules \in Edits : OperatorEdits(rules)
    /\ UNCHANGED <<cooldown, posts, job>>

\* A thread in the middle of a Reload does nothing else.
Handler(t) ==
    \/ Reload(t)
    \/ /\ ~Reloading(t)
       /\ \/ \E c \in Comments : CheckPost(t, c)
          \/ PushComment(t)
          \/ \E seqs \in (SUBSET DOMAIN posts) \ {{}} : AgentBlocks(t, seqs)
          \/ EraseComment(t)
          \/ BanAuthors(t)
          \/ WriteBan(t)

DispatcherNext ==
    \/ \E t \in Threads : Handler(t)
    \/ Operator
    \/ CooldownChanges

DispatcherSpec == DispatcherInit /\ [][DispatcherNext]_dispatcherVars

-----------------------------------------------------------------------------
(* Properties.                                                             *)

Matches(r, c) ==
    CASE r.dim = "nick" -> c.nick = r.name
      [] r.dim = "ip"   -> c.ip = r.name
      [] r.dim = "kw"   -> r.name \in c.words

\* The author and the address of a comment that the agent has had erased stay
\* blocked: once AddBatch has written them back with no Reload under way, no
\* later ban, Reload, or edit of the file that keeps them lets a comment of
\* theirs pass CheckComment again, as long as no Reload reads the file while
\* PersistToFile is rewriting it and no name with a line in brackets has been
\* written among the rules of its dimension.
BannedStaysBlocked ==
    \A r \in durable, c \in Comments :
        Matches(r, c) /\ r.dim \notin tagged => CheckComment(m_rules, c) # "none"

\* The comment on BlacklistManager: what has been banned and written back stays
\* banned after a Reload.
BansAreKept ==
    \A r \in durable, c \in Comments :
        Matches(r, c) => CheckComment(m_rules, c) # "none"
=============================================================================
