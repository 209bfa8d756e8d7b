--------------------------- MODULE EventLoopThread --------------------------
(***************************************************************************)
(* mymuduo/EventLoopThread.cc and Thread.cc: a creator thread starts a     *)
(* thread that owns an EventLoop, waits for the loop's address, uses it    *)
(* and destroys the EventLoopThread.  The loop is that of EventLoop; the   *)
(* creator is one of the threads that use it.                              *)
(***************************************************************************)
EXTENDS EventLoop

CONSTANT Creator

ASSUME CreatorAssumption == Creator \in Threads

VARIABLES loop_,    \* EventLoopThread::loop_ # nullptr
          creator,  \* where the creator is
          child     \* where the new thread is in threadFunc

tvars == <<loop_, creator, child>>
allvars == <<vars, tvars>>

ThreadInit ==
    /\ Init
    /\ loop_ = FALSE
    /\ creator = "new"
    /\ child = "none"

-----------------------------------------------------------------------------
(* startLoop *)

\* Thread::start creates the thread and waits until it has posted its tid.
ThreadStart ==
    /\ creator = "new"
    /\ creator' = "semWait"
    /\ child' = "tid"
    /\ UNCHANGED <<vars, loop_>>

SemWait ==
    /\ creator = "semWait" /\ child # "tid"
    /\ creator' = "condWait"
    /\ UNCHANGED <<vars, loop_, child>>

StartLoopReturns ==
    /\ creator = "condWait" /\ loop_
    /\ creator' = "started"
    /\ UNCHANGED <<vars, loop_, child>>

\* ~EventLoopThread: quit and join if the loop is there.
Destroy ==
    /\ creator = "started" /\ Creator \notin waking
    /\ creator' = IF loop_ THEN "quit" ELSE "destroyed"
    /\ UNCHANGED <<vars, loop_, child>>

QuitLoop ==
    /\ creator = "quit"
    /\ creator' = "join"
    /\ Quit(Creator)
    /\ UNCHANGED <<loop_, child>>

Join ==
    /\ creator = "join" /\ child = "exited" /\ Creator \notin waking
    /\ creator' = "destroyed"
    /\ UNCHANGED <<vars, loop_, child>>

\* The creator, and threads it passes the pointer to, hand functors to the loop.
UseLoop ==
    /\ creator = "started"
    /\ \E t \in Threads, f \in Functors : QueueInLoop(t, f)
    /\ UNCHANGED tvars

WakeLoop == (\E t \in Threads : Wakeup(t)) /\ UNCHANGED tvars

-----------------------------------------------------------------------------
(* threadFunc *)

PostTid ==
    /\ child = "tid"
    /\ child' = "construct"
    /\ UNCHANGED <<vars, loop_, creator>>

\* EventLoop loop: constructed on the thread's stack.
ConstructLoop ==
    /\ child = "construct"
    /\ child' = "publish"
    /\ UNCHANGED <<vars, loop_, creator>>

\* callback_(&loop), which may use the loop before it is published and runs.
InitCallback ==
    /\ child = "publish"
    /\ BeforeLoop
    /\ UNCHANGED tvars

\* loop_ = &loop under mutex_, and notify_one.
PublishLoop ==
    /\ child = "publish"
    /\ loop_' = TRUE
    /\ child' = "loop"
    /\ UNCHANGED <<vars, creator>>

\* loop.loop().
RunLoop ==
    /\ child = "loop"
    /\ LoopThread
    /\ UNCHANGED tvars

\* loop_ = nullptr under mutex_, which is released when threadFunc returns.
ClearLoop ==
    /\ child = "loop" /\ pc = "stopped"
    /\ loop_' = FALSE
    /\ child' = "unlock"
    /\ UNCHANGED <<vars, creator>>

ExitThread ==
    /\ child = "unlock"
    /\ child' = "exited"
    /\ UNCHANGED <<vars, creator, loop_>>

Finish == /\ creator = "destroyed" /\ child = "exited" /\ waking = {}
          /\ UNCHANGED allvars

ThreadNext ==
    \/ ThreadStart \/ SemWait \/ StartLoopReturns \/ Destroy
    \/ QuitLoop \/ Join \/ UseLoop \/ WakeLoop
    \/ PostTid \/ ConstructLoop \/ InitCallback \/ PublishLoop \/ RunLoop
    \/ ClearLoop \/ ExitThread
    \/ Finish

ThreadSpec == ThreadInit /\ [][ThreadNext]_allvars

\* Both threads run; poll returns when the eventfd is readable.
ThreadFairSpec ==
    /\ ThreadSpec
    /\ WF_allvars(RunLoop /\ (pc = "poll" => wakeupFd > 0))
    /\ WF_allvars(PostTid \/ ConstructLoop \/ PublishLoop \/ ClearLoop \/ ExitThread)
    /\ WF_allvars(ThreadStart \/ SemWait \/ StartLoopReturns)
    /\ WF_allvars(QuitLoop \/ Join)
    /\ WF_allvars(WakeLoop)

-----------------------------------------------------------------------------
\* startLoop hands out a loop that has been constructed, and loop_ is set
\* exactly while threadFunc may use the loop on its stack.
HandedOutLoopExists ==
    /\ creator = "started" => child \in {"loop", "unlock", "exited"}
    /\ loop_ <=> child = "loop"

\* The comment on quit(): it ends the loop from a thread other than the loop's
\* own as well.  So ~EventLoopThread, which calls it and joins, always returns.
QuitFromOtherThreadExits == (creator = "quit") ~> (creator = "destroyed")

\* So the loop of the new thread exists while it is handed out, runs what it is
\* given in order, and never sleeps over what it must be woken for.
LoopIsSafe == NeverSleepsOverWork /\ FifoOrder /\ HandedOutLoopExists
=============================================================================
