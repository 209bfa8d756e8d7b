----------------------------- MODULE PollerOps ------------------------------
(***************************************************************************)
(* mymuduo/Channel.h and EPollPoller.cc as functions on one channel: its   *)
(* events_ and index_, whether its fd is in the poller's channels_ map,    *)
(* and the event mask the kernel holds for the fd (NotPolled when epoll    *)
(* does not have it).  failed counts the epoll_ctl calls that would fail.  *)
(***************************************************************************)
EXTENDS Naturals

NotPolled == {"not polled"}

\* Channel::Channel
NewChannel == [events_ |-> {}, index_ |-> "kNew", mapped |-> FALSE,
               kernel |-> NotPolled, failed |-> FALSE]

\* epoll_ctl: ADD fails on a known fd, MOD and DEL on an unknown one.
CtlAdd(ch) == IF ch.kernel = NotPolled THEN [ch EXCEPT !.kernel = ch.events_]
                                       ELSE [ch EXCEPT !.failed = TRUE]
CtlMod(ch) == IF ch.kernel # NotPolled THEN [ch EXCEPT !.kernel = ch.events_]
                                       ELSE [ch EXCEPT !.failed = TRUE]
CtlDel(ch) == IF ch.kernel # NotPolled THEN [ch EXCEPT !.kernel = NotPolled]
                                       ELSE [ch EXCEPT !.failed = TRUE]

\* Mutant: a deleted channel is modified in place instead of added again.
UpdateChannelDeletedIsAdded(ch) ==
    IF ch.index_ = "kNew"
    THEN CtlAdd([ch EXCEPT !.index_ = "kAdded", !.mapped = TRUE])
    ELSE IF ch.events_ = {} THEN [CtlDel(ch) EXCEPT !.index_ = "kDeleted"]
                            ELSE CtlMod(ch)

UpdateChannel(ch) ==
    IF ch.index_ \in {"kNew", "kDeleted"}
    THEN CtlAdd([ch EXCEPT !.index_ = "kAdded",
                           !.mapped = (ch.index_ = "kNew") \/ ch.mapped])
    ELSE IF ch.events_ = {} THEN [CtlDel(ch) EXCEPT !.index_ = "kDeleted"]
                            ELSE CtlMod(ch)

RemoveChannel(ch) ==
    [(IF ch.index_ = "kAdded" THEN CtlDel(ch) ELSE ch)
        EXCEPT !.mapped = FALSE, !.index_ = "kNew"]

\* The public operations of Channel: set events_, then update().
Enable(ch, e) == UpdateChannel([ch EXCEPT !.events_ = @ \cup {e}])
Disable(ch, e) == UpdateChannel([ch EXCEPT !.events_ = @ \ {e}])
DisableAll(ch) == UpdateChannel([ch EXCEPT !.events_ = {}])

IsWriting(ch) == "write" \in ch.events_
=============================================================================
