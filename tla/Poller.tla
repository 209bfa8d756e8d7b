------------------------------- MODULE Poller -------------------------------
(***************************************************************************)
(* mymuduo/EPollPoller.cc: the channels of one loop, updated and removed   *)
(* in any order, and poll, which asks epoll_wait for at most               *)
(* events_.size() events and doubles the list when it comes back full.     *)
(***************************************************************************)
EXTENDS PollerOps, Integers, FiniteSets

CONSTANTS Channels,            \* the channels of the loop
          kInitEventListSize,  \* 16 in the code
          MaxListSize          \* bound: no poll doubles the list beyond it

VARIABLES ch,        \* ch[c]: the channel as PollerOps describes it
          listSize,  \* events_.size()
          ready,     \* the channels whose fd the kernel would report
          active     \* the activeChannels of the last poll, not yet handled

vars == <<ch, listSize, ready, active>>

Init ==
    /\ ch = [c \in Channels |-> NewChannel]
    /\ listSize = kInitEventListSize
    /\ ready = {}
    /\ active = {}

Set(c, new) == ch' = [ch EXCEPT ![c] = new] /\ UNCHANGED <<listSize, ready, active>>

EnableReading(c) == Set(c, Enable(ch[c], "read"))
DisableReading(c) == Set(c, Disable(ch[c], "read"))
EnableWriting(c) == Set(c, Enable(ch[c], "write"))
DisableWriting(c) == Set(c, Disable(ch[c], "write"))
DisableAllOf(c) == Set(c, DisableAll(ch[c]))

\* Connections remove their channel in a functor, when no event is pending.
Remove(c) == c \notin active /\ Set(c, RemoveChannel(ch[c]))

\* External: traffic on a polled fd.
BecomeReady(c) ==
    /\ ch[c].kernel # NotPolled /\ c \notin ready
    /\ ready' = ready \cup {c}
    /\ UNCHANGED <<ch, listSize, active>>

Reportable == {c \in ready : ch[c].kernel # NotPolled}

\* epoll_wait reports every ready channel, or as many as the list holds: the
\* kernel chooses which.
Report(got) ==
    /\ active = {}
    /\ got \subseteq Reportable
    /\ Cardinality(got) <= listSize
    /\ Cardinality(got) < listSize => got = Reportable
    /\ active' = got
    /\ ready' = ready \ got
    /\ UNCHANGED ch

Poll(got) ==
    /\ Report(got)
    /\ listSize' = IF Cardinality(got) = listSize /\ listSize < MaxListSize
                   THEN 2 * listSize ELSE listSize

\* The loop has called handleEvent on one of the active channels.
Handled(c) == c \in active /\ active' = active \ {c} /\ UNCHANGED <<ch, listSize, ready>>

Next ==
    \/ \E c \in Channels :
          \/ EnableReading(c) \/ DisableReading(c)
          \/ EnableWriting(c) \/ DisableWriting(c)
          \/ DisableAllOf(c) \/ Remove(c)
          \/ BecomeReady(c) \/ Handled(c)
    \/ \E got \in SUBSET Channels : Poll(got)

Spec == Init /\ [][Next]_vars

FairSpec == Spec /\ WF_vars(\E got \in SUBSET Channels : Poll(got))
                 /\ \A c \in Channels : WF_vars(Handled(c))

-----------------------------------------------------------------------------
\* No sequence of enable, disable and remove makes epoll_ctl fail (an ADD or
\* MOD failure is LOG_FATAL, the end of the process).
CtlNeverFails == \A c \in Channels : ~ch[c].failed

\* The three views of a channel agree: index_ says whether the kernel polls the
\* fd, the kernel's mask is the channel's own, and a polled channel is mapped.
ViewsAgree ==
    \A c \in Channels :
        /\ ch[c].index_ = "kAdded" <=> ch[c].kernel # NotPolled
        /\ ch[c].kernel # NotPolled => ch[c].kernel = ch[c].events_
        /\ ch[c].mapped <=> ch[c].index_ # "kNew"

\* So the channel, the poller and the kernel never disagree.
PollerAgrees == CtlNeverFails /\ ViewsAgree
=============================================================================
