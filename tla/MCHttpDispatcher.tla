--------------------------- MODULE MCHttpDispatcher ---------------------------
(* Model-checking instances of HttpDispatcher.                             *)
EXTENDS HttpDispatcher

\* A named author, one without a name, one with an odd name and a banned word.
MCComments ==
    { [nick |-> "ann",  ip |-> "ip1", words |-> {}],
      [nick |-> "anon", ip |-> "ip2", words |-> {}],
      [nick |-> " #eve", ip |-> "",    words |-> {"spam"}] }

\* Every name is one line, of which Trim leaves a comment if it is the odd one.
MCWritten ==
    [n \in {"ann", "anon", " #eve", "#eve", "ip1", "ip2", "spam", "[AI]"} |->
        IF n = " #eve" THEN <<"#eve">> ELSE <<n>>]

MCEdits == { {}, {Rule("kw", "spam"), Rule("nick", "ann")} }

\* One author who writes from two addresses.
Wanderer ==
    { [nick |-> "ann", ip |-> "ip1", words |-> {}],
      [nick |-> "ann", ip |-> "ip2", words |-> {}] }

NoEdits == { {} }

Symmetry == Permutations(Threads)
===============================================================================
