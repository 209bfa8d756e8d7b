----------------------------- MODULE EventLoop ------------------------------
(***************************************************************************)
(* mymuduo/EventLoop.cc: one loop thread that polls, handles the active    *)
(* channels and runs the pending functors, and other threads that hand it  *)
(* functors (queueInLoop) or stop it (quit), waking it through an eventfd. *)
(***************************************************************************)
EXTENDS Naturals, Sequences

CONSTANTS Threads,   \* the threads other than the loop's own
          Functors   \* the functors that may be queued, each at most once

VARIABLES looping_, quit_, callingPendingFunctors_, pendingFunctors_,
          wakeupFd,         \* the counter of the eventfd
          activeChannels_,  \* what poll reported and is still to be handled
          functors,         \* the local vector of doPendingFunctors
          pc,               \* where the loop thread is in loop()
          waking,           \* threads between their update and their wakeup()
          queued, ran,      \* history: functors in the order queued, and run
          early             \* history: those its own thread queued before loop()

vars == <<looping_, quit_, callingPendingFunctors_, pendingFunctors_, wakeupFd,
          activeChannels_, functors, pc, waking, queued, ran, early>>

Channels == {"wakeup", "io"}

TypeOK ==
    /\ looping_ \in BOOLEAN /\ quit_ \in BOOLEAN
    /\ callingPendingFunctors_ \in BOOLEAN
    /\ pendingFunctors_ \in Seq(Functors)
    /\ wakeupFd \in Nat
    /\ activeChannels_ \subseteq Channels
    /\ functors \in Seq(Functors)
    /\ pc \in {"before", "check", "poll", "events", "swap", "run", "stopped"}
    /\ waking \subseteq Threads
    /\ queued \in Seq(Functors)
    /\ ran \in Seq(Functors)
    /\ early \subseteq Functors

Init ==
    /\ looping_ = FALSE /\ quit_ = FALSE /\ callingPendingFunctors_ = FALSE
    /\ pendingFunctors_ = <<>>
    /\ wakeupFd = 0
    /\ activeChannels_ = {}
    /\ functors = <<>>
    /\ pc = "before"
    /\ waking = {}
    /\ queued = <<>>
    /\ ran = <<>>
    /\ early = {}

Fresh(f) == \A i \in DOMAIN queued : queued[i] # f

\* The part of queueInLoop that is under mutex_.
PushFunctor(f) ==
    /\ Fresh(f)
    /\ pendingFunctors_' = Append(pendingFunctors_, f)
    /\ queued' = Append(queued, f)

-----------------------------------------------------------------------------
(* Other threads *)

\* queueInLoop, and runInLoop, from another thread: push, then wake the loop.
QueueInLoop(t, f) ==
    /\ t \notin waking /\ pc # "stopped"
    /\ PushFunctor(f)
    /\ waking' = waking \cup {t}
    /\ UNCHANGED <<looping_, quit_, callingPendingFunctors_, wakeupFd,
                   activeChannels_, functors, pc, ran, early>>

Quit(t) ==
    /\ t \notin waking
    /\ quit_' = TRUE
    /\ waking' = waking \cup {t}
    /\ UNCHANGED <<looping_, callingPendingFunctors_, pendingFunctors_, wakeupFd,
                   activeChannels_, functors, pc, queued, ran, early>>

Wakeup(t) ==
    /\ t \in waking
    /\ waking' = waking \ {t}
    /\ wakeupFd' = wakeupFd + 1
    /\ UNCHANGED <<looping_, quit_, callingPendingFunctors_, pendingFunctors_,
                   activeChannels_, functors, pc, queued, ran, early>>

-----------------------------------------------------------------------------
(* The loop thread *)

\* Mutant of UserCode: the test of callingPendingFunctors_ is dropped.
UserCodeNoSelfWakeup ==
    \/ UNCHANGED <<quit_, pendingFunctors_, queued, wakeupFd>>
    \/ quit_' = TRUE /\ UNCHANGED <<pendingFunctors_, queued, wakeupFd>>
    \/ (\E f \in Functors : PushFunctor(f)) /\ UNCHANGED <<quit_, wakeupFd>>

\* What user code run by the loop thread may do to its own loop: nothing,
\* quit() (no wakeup from the own thread), or queueInLoop, which wakes the
\* loop only if it is running the pending functors.
UserCode ==
    \/ UNCHANGED <<quit_, pendingFunctors_, queued, wakeupFd>>
    \/ quit_' = TRUE /\ UNCHANGED <<pendingFunctors_, queued, wakeupFd>>
    \/ /\ \E f \in Functors : PushFunctor(f)
       /\ wakeupFd' = IF callingPendingFunctors_ THEN wakeupFd + 1 ELSE wakeupFd
       /\ UNCHANGED quit_

\* What its own thread does with the loop before loop(): a thread-init callback,
\* or main(), may call queueInLoop, and wakes nobody by it.
BeforeLoop ==
    /\ pc = "before"
    /\ UserCode
    /\ early' = early \cup ({queued'[i] : i \in DOMAIN queued'} \ {queued[i] : i \in DOMAIN queued})
    /\ UNCHANGED <<looping_, callingPendingFunctors_, activeChannels_, functors, pc,
                   waking, ran>>

LoopStart ==
    /\ pc = "before"
    /\ looping_' = TRUE /\ quit_' = FALSE
    /\ pc' = "check"
    /\ UNCHANGED <<callingPendingFunctors_, pendingFunctors_, wakeupFd,
                   activeChannels_, functors, waking, queued, ran, early>>

LoopCheck ==
    /\ pc = "check"
    /\ pc' = IF quit_ THEN "stopped" ELSE "poll"
    /\ looping_' = ~quit_
    /\ UNCHANGED <<quit_, callingPendingFunctors_, pendingFunctors_, wakeupFd,
                   activeChannels_, functors, waking, queued, ran, early>>

\* poll reports the wakeup channel when the eventfd is readable, and any other
\* channel when it likes; it reports nothing after kPollTimeMs or a signal.
Poll(active) ==
    /\ pc = "poll"
    /\ active \subseteq Channels
    /\ "wakeup" \in active <=> wakeupFd > 0
    /\ activeChannels_' = active
    /\ pc' = "events"
    /\ UNCHANGED <<looping_, quit_, callingPendingFunctors_, pendingFunctors_,
                   wakeupFd, functors, waking, queued, ran, early>>

\* handleRead of the wakeup channel: the eventfd is read, and so reset.
HandleRead ==
    /\ pc = "events" /\ "wakeup" \in activeChannels_
    /\ wakeupFd' = 0
    /\ activeChannels_' = activeChannels_ \ {"wakeup"}
    /\ UNCHANGED <<looping_, quit_, callingPendingFunctors_, pendingFunctors_,
                   functors, pc, waking, queued, ran, early>>

\* handleEvent of any other channel: user code in the loop thread.
HandleEvent ==
    /\ pc = "events" /\ "io" \in activeChannels_
    /\ activeChannels_' = activeChannels_ \ {"io"}
    /\ UserCode
    /\ UNCHANGED <<looping_, callingPendingFunctors_, functors, pc, waking,
                   ran, early>>

\* doPendingFunctors: raise the flag, swap under mutex_, run, lower the flag.
DoPendingFunctors ==
    /\ pc = "events" /\ activeChannels_ = {}
    /\ callingPendingFunctors_' = TRUE
    /\ pc' = "swap"
    /\ UNCHANGED <<looping_, quit_, pendingFunctors_, wakeupFd, activeChannels_,
                   functors, waking, queued, ran, early>>

SwapPending ==
    /\ pc = "swap"
    /\ functors' = pendingFunctors_
    /\ pendingFunctors_' = <<>>
    /\ pc' = "run"
    /\ UNCHANGED <<looping_, quit_, callingPendingFunctors_, wakeupFd,
                   activeChannels_, waking, queued, ran, early>>

RunFunctor ==
    /\ pc = "run" /\ functors # <<>>
    /\ functors' = Tail(functors)
    /\ ran' = Append(ran, Head(functors))
    /\ UserCode
    /\ UNCHANGED <<looping_, callingPendingFunctors_, activeChannels_, pc, waking,
                   early>>

DoneCalling ==
    /\ pc = "run" /\ functors = <<>>
    /\ callingPendingFunctors_' = FALSE
    /\ pc' = "check"
    /\ UNCHANGED <<looping_, quit_, pendingFunctors_, wakeupFd, activeChannels_,
                   functors, waking, queued, ran, early>>

LoopThread ==
    \/ LoopStart \/ LoopCheck
    \/ \E active \in SUBSET Channels : Poll(active)
    \/ HandleRead \/ HandleEvent
    \/ DoPendingFunctors \/ SwapPending \/ RunFunctor \/ DoneCalling

Next ==
    \/ BeforeLoop
    \/ LoopThread
    \/ \E t \in Threads :
          \/ \E f \in Functors : QueueInLoop(t, f)
          \/ Quit(t)
          \/ Wakeup(t)

Spec == Init /\ [][Next]_vars

\* The loop thread runs, and poll returns, when the eventfd is readable; the
\* timeout of poll is not relied on.  A thread that has begun a call ends it.
FairSpec ==
    /\ Spec
    /\ WF_vars(LoopThread /\ (pc = "poll" => wakeupFd > 0))
    /\ \A t \in Threads : WF_vars(Wakeup(t))

-----------------------------------------------------------------------------
\* The functors whose queueInLoop came when somebody must wake the loop for it.
Owed(s) == {s[i] : i \in DOMAIN s} \ early

\* The loop never sleeps over work: while it is in poll with a functor pending
\* or its quit_ flag raised, the eventfd is readable or about to be.  This is
\* what queueInLoop's test "not in the loop thread, or calling functors" is for.
\* The test misses one case, which is excused here: a functor that the loop's
\* own thread queued before loop() waits for another wakeup or for kPollTimeMs.
NeverSleepsOverWork ==
    pc = "poll" /\ (Owed(pendingFunctors_) # {} \/ quit_) =>
        wakeupFd > 0 \/ waking # {}

\* Functors run in the order they were queued, each at most once and none
\* skipped, whatever threads queue while a batch runs.
FifoOrder == queued = ran \o functors \o pendingFunctors_

=============================================================================
