-------------------------- MODULE BlacklistManager --------------------------
(***************************************************************************)
(* The blacklist: rules in memory, guarded by a readers/writer lock, and   *)
(* the file they come from and are written back to.  A rule has a          *)
(* dimension and a name (keywords in lower case, as ToLower leaves them).  *)
(* Several threads use it: the sub loops through HttpDispatcher (posting,  *)
(* banning, reloading) and the SIGHUP thread (reloading); an operator      *)
(* edits the file.                                                         *)
(*                                                                         *)
(* What runs under the lock is one step, except AddBatch, which truncates  *)
(* and writes the file while it holds the write lock: Reload reads the     *)
(* file without any lock.                                                  *)
(***************************************************************************)
EXTENDS Integers, SequencesExt

CONSTANTS
    Threads,
    Nobody,         \* no thread holds the write lock
    Written,        \* Written[n]: the lines that getline and Trim give for a name n
                    \* that was written to the file
    CommentLike,    \* lines that are empty or start with '#'
    TagLike,        \* lines in brackets that are no section's tag
    Edits           \* sets of rules an operator may write to the file

VARIABLES
    m_rules,        \* m_nick_blacklist, m_ip_blacklist and m_keyword_blacklist
    file,           \* the lines of the file
    writer,         \* holder of m_rw_mtx while it writes the file
    fetched,        \* fetched[t]: {} or {what Reload has read and not swapped in}
    durable,        \* history: rules that nothing has endangered, see below
    tagged          \* history: the dimensions in which a name with a line in
                    \* brackets has been written

blacklistVars == <<m_rules, file, writer, fetched, durable, tagged>>

Dims == {"nick", "ip", "kw"}
Tags == [nick |-> "[nick]", ip |-> "[ip]", kw |-> "[kw]"]
Rule(dim, name) == [dim |-> dim, name |-> name]

\* A line in brackets; a line that stands for a rule.
Bracketed(line) == line \in TagLike \cup {Tags[d] : d \in Dims}
IsName(line) == line \notin CommentLike /\ ~Bracketed(line)

\* A name that the file gives back: one line, no blanks at its ends, neither
\* empty nor a comment nor in brackets.
Plain(name) == name \in DOMAIN Written /\ Written[name] = <<name>> /\ IsName(name)

\* A line that was read may be written again; an operator writes rules that are
\* read as such.
ASSUME BlacklistAssumption ==
    /\ Nobody \notin Threads
    /\ \A n \in DOMAIN Written :
          /\ Written[n] \in Seq(Range(Written[n]))
          /\ Range(Written[n]) \subseteq DOMAIN Written
    /\ "" \in CommentLike
    /\ \A line \in CommentLike : ~Bracketed(line)
    /\ \A rules \in Edits :
          /\ IsFiniteSet(rules)
          /\ \A r \in rules : r \in [dim : Dims, name : {n \in DOMAIN Written : Plain(n)}]

-----------------------------------------------------------------------------
(* The file.                                                               *)

\* One section: its tag and the names of its rules, in the order in which the
\* unordered_set yields them.
Sections(rules, dim) ==
    {<<Tags[dim]>> \o FlattenSeq([i \in DOMAIN names |-> Written[names[i]]]) :
        names \in SetToSeqs({r.name : r \in {q \in rules : q.dim = dim}})}

\* Variant: the addresses are not written.
FilesWithoutIps(rules) ==
    {nick \o kw : nick \in Sections(rules, "nick"), kw \in Sections(rules, "kw")}

\* What PersistToFile may write.
Files(rules) ==
    {nick \o ip \o kw : nick \in Sections(rules, "nick"), ip \in Sections(rules, "ip"),
                       kw \in Sections(rules, "kw")}

\* What the loop over the lines yields: a line that is no comment and not in
\* brackets is a rule of the section that the last line in brackets before it
\* has begun, and no rule if that line is no known tag or there is none.
FetchLatestBlackList(lines) ==
    {r \in [dim : Dims, name : Range(lines)] :
        \E tag, at \in DOMAIN lines :
            /\ tag < at /\ lines[tag] = Tags[r.dim]
            /\ lines[at] = r.name /\ IsName(r.name)
            /\ \A i \in (tag + 1)..at : ~Bracketed(lines[i])}

-----------------------------------------------------------------------------
(* Checking.  A comment is [nick, ip, words].                              *)

\* The first dimension that blocks the comment.
CheckComment(rules, c) ==
    IF Rule("nick", c.nick) \in rules THEN "nick"
    ELSE IF c.ip # "" /\ Rule("ip", c.ip) \in rules THEN "ip"
    ELSE IF \E w \in c.words : Rule("kw", w) \in rules THEN "kw"
    ELSE "none"

CanRead == writer = Nobody
Reloading(t) == fetched[t] # {}

-----------------------------------------------------------------------------
(* What the properties keep track of: a rule is durable once it has been   *)
(* added and written back while no Reload was between its read and its     *)
(* swap.  It stops being so when an operator takes it out, and all stop    *)
(* when a Reload reads the file while it is being written or cannot open   *)
(* it.  A name that the file does not give back never is.                  *)

Undisturbed == \A t \in Threads : ~Reloading(t)

MakeDurable(rules) ==
    durable' = durable \cup (IF Undisturbed THEN {r \in rules : Plain(r.name)} ELSE {})

-----------------------------------------------------------------------------
(* Operations.                                                             *)

\* Initialize: the file exists or its template is written, then Reload.
InitBlacklist ==
    /\ \E rules \in Edits : file \in Files(rules)
    /\ m_rules = FetchLatestBlackList(file)
    /\ writer = Nobody
    /\ fetched = [t \in Threads |-> {}]
    /\ durable = {r \in m_rules : Plain(r.name)}
    /\ tagged = {}

\* Reload reads the file; it may find it truncated, or fail to open it.
ReloadReads(t) ==
    /\ ~Reloading(t)
    /\ \/ /\ fetched' = [fetched EXCEPT ![t] = {FetchLatestBlackList(file)}]
          /\ durable' = IF writer = Nobody THEN durable ELSE {}
       \/ /\ fetched' = [fetched EXCEPT ![t] = {{}}]
          /\ durable' = {}
    /\ UNCHANGED <<m_rules, file, writer, tagged>>

\* Reload takes the write lock and swaps the containers.
ReloadSwaps(t) ==
    /\ Reloading(t)
    /\ CanRead
    /\ m_rules' \in fetched[t]
    /\ fetched' = [fetched EXCEPT ![t] = {}]
    /\ UNCHANGED <<file, writer, durable, tagged>>

\* AddBatch: insert the rules; when one is new, open the file, which truncates
\* it, or fail to, and then the rules are in memory only.
AddBatch(t, rules) ==
    /\ CanRead
    /\ m_rules' = m_rules \cup rules
    /\ \/ /\ ~(rules \subseteq m_rules)
          /\ file' = <<>>
          /\ writer' = t
       \/ UNCHANGED <<file, writer>>
    /\ UNCHANGED <<fetched, durable, tagged>>

\* PersistToFile writes all rules, and AddBatch unlocks.  `due' are the rules
\* that the caller wanted in the batch.
PersistToFile(t, due) ==
    /\ writer = t
    /\ file' \in Files(m_rules)
    /\ writer' = Nobody
    /\ MakeDurable(due)
    /\ tagged' = tagged \cup
         {r.dim : r \in {q \in m_rules : \E line \in Range(Written[q.name]) : Bracketed(line)}}
    /\ UNCHANGED <<m_rules, fetched>>

\* An operator replaces the file, not in the middle of a write.
OperatorEdits(rules) ==
    /\ writer = Nobody
    /\ file' \in Files(rules)
    /\ durable' = durable \cap rules
    /\ UNCHANGED <<m_rules, writer, fetched, tagged>>
=============================================================================
