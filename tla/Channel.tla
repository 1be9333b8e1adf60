------------------------------- MODULE Channel -------------------------------
(***************************************************************************)
(* Channel and its registration with epoll (Channel.cpp,                   *)
(* EventLoop::UpdateChannel and RemoveChannel), as operators on a record:  *)
(*   events  the mask events_: some of "IN" (EPOLLIN), "OUT" (EPOLLOUT) and *)
(*           "ET" (EPOLLET)                                                *)
(*   index   index_: -1 new, 1 on the tree, 2 silenced                     *)
(*   inTree  the descriptor has an entry in the epoll instance             *)
(*   mask    the mask the kernel holds for that entry                      *)
(* A channel belongs to one loop and only that loop's thread touches it.   *)
(***************************************************************************)
EXTENDS Integers

EventBits == {"IN", "OUT", "ET"}

ChannelType ==
    [events : SUBSET EventBits, index : {-1, 1, 2},
     inTree : BOOLEAN, mask : SUBSET EventBits]

NewChannel == [events |-> {}, index |-> -1, inTree |-> FALSE, mask |-> {}]

\* EPOLL_CTL_ADD: it fails (EEXIST) for a descriptor already on the tree.
EpollAdd(ch) ==
    IF ch.inTree
    THEN ch
    ELSE [ch EXCEPT !.inTree = TRUE, !.mask = ch.events, !.index = 1]

\* EPOLL_CTL_MOD: it fails (ENOENT) for a descriptor that is not.
EpollMod(ch) ==
    IF ch.inTree
    THEN [ch EXCEPT !.mask = ch.events,
                    !.index = IF ch.events = {} THEN 2 ELSE 1]
    ELSE ch

UpdateChannel(ch) ==
    IF ch.index \in {-1, 2} THEN EpollAdd(ch) ELSE EpollMod(ch)

RemoveChannel(ch) ==
    [ch EXCEPT !.inTree = IF ch.index \in {1, 2} THEN FALSE ELSE @,
               !.index = -1]

EnableReading(ch)  == UpdateChannel([ch EXCEPT !.events = @ \cup {"IN", "ET"}])
DisableReading(ch) == UpdateChannel([ch EXCEPT !.events = @ \ {"IN"}])
EnableWriting(ch)  == UpdateChannel([ch EXCEPT !.events = @ \cup {"OUT"}])
DisableWriting(ch) == UpdateChannel([ch EXCEPT !.events = @ \ {"OUT"}])
DisableAll(ch)     == UpdateChannel([ch EXCEPT !.events = {}])

IsReading(ch) == "IN" \in ch.events
IsWriting(ch) == "OUT" \in ch.events
=============================================================================
