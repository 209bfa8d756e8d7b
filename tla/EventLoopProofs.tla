-------------------------- MODULE EventLoopProofs ---------------------------
(***************************************************************************)
(* Proofs about EventLoop and EventLoopThread for any sets of threads and  *)
(* functors: the loop never sleeps over work, functors run in the order    *)
(* they were queued, and a loop in its thread is such a loop, handed out   *)
(* only while it exists.                                                   *)
(***************************************************************************)
EXTENDS EventLoopThread, SequenceTheorems, TLAPS

\* The flag that queueInLoop reads is up exactly while functors are swapped
\* out and run, and there is a batch only while it is run.
FlagFollowsPc ==
    /\ callingPendingFunctors_ <=> pc \in {"swap", "run"}
    /\ functors # <<>> => pc = "run"

\* From the moment a batch was swapped out until the next poll has returned,
\* whoever queued a functor has woken the loop or is about to; and whoever
\* raised quit_ after the loop looked at it.  Only what the loop's own thread
\* queued before loop() is not announced to anybody.
WokenForWork ==
    /\ pc \in {"before", "run", "check", "poll"} /\ Owed(pendingFunctors_) # {} =>
          wakeupFd > 0 \/ waking # {}
    /\ pc = "poll" /\ quit_ => wakeupFd > 0 \/ waking # {}

WakeInv == TypeOK /\ FlagFollowsPc /\ WokenForWork

LEMMA InitWakeInv == Init => WakeInv
<1> SUFFICES ASSUME Init PROVE WakeInv
  OBVIOUS
<1>1. <<>> \in Seq(Functors)
  BY EmptySeq
<1>2. TypeOK
  BY Zenon, <1>1 DEF Init, TypeOK, Channels
<1>3. Owed(<<>>) = {}
  BY DEF Owed
<1> QED BY <1>2, <1>3 DEF Init, WakeInv, FlagFollowsPc, WokenForWork

LEMMA PushTyped ==
  ASSUME TypeOK, NEW f \in Functors, PushFunctor(f)
  PROVE  /\ pendingFunctors_' \in Seq(Functors) /\ queued' \in Seq(Functors)
         /\ pendingFunctors_' # <<>>
  BY SMTT(60), AppendProperties DEF TypeOK, PushFunctor

\* What user code leaves behind: it has woken the loop if it queued a functor
\* while the flag was up, and it never takes a wakeup away.
LEMMA UserCodeTyped ==
  ASSUME TypeOK, UserCode
  PROVE  /\ quit_' \in BOOLEAN /\ pendingFunctors_' \in Seq(Functors)
         /\ queued' \in Seq(Functors) /\ wakeupFd' \in Nat
         /\ wakeupFd' >= wakeupFd
         /\ callingPendingFunctors_ /\ pendingFunctors_' # pendingFunctors_ => wakeupFd' > 0
<1>1. CASE UNCHANGED <<quit_, pendingFunctors_, queued, wakeupFd>>
  BY <1>1 DEF TypeOK
<1>2. CASE quit_' = TRUE /\ UNCHANGED <<pendingFunctors_, queued, wakeupFd>>
  BY <1>2 DEF TypeOK
<1>3. CASE /\ \E f \in Functors : PushFunctor(f)
           /\ wakeupFd' = IF callingPendingFunctors_ THEN wakeupFd + 1 ELSE wakeupFd
           /\ UNCHANGED quit_
  BY <1>3, PushTyped DEF TypeOK
<1> QED BY Zenon, <1>1, <1>2, <1>3 DEF UserCode

\* What its own thread queues before loop() is early, and so owes no wakeup.
LEMMA EarlyIsNotOwed ==
  ASSUME TypeOK, BeforeLoop
  PROVE  early' \subseteq Functors /\ Owed(pendingFunctors_)' \subseteq Owed(pendingFunctors_)
<1> DEFINE New == {queued'[i] : i \in DOMAIN queued'} \ {queued[i] : i \in DOMAIN queued}
<1>1. early' = early \cup New
  BY DEF BeforeLoop
<1>2. CASE UNCHANGED <<pendingFunctors_, queued>>
  <2>1. early' = early
    BY <1>1, <1>2
  <2> QED BY <1>2, <2>1 DEF Owed, TypeOK
<1>3. ASSUME NEW f \in Functors, PushFunctor(f)
      PROVE  early' \subseteq Functors /\ Owed(pendingFunctors_)' \subseteq Owed(pendingFunctors_)
  <2> DEFINE p == pendingFunctors_
             q == queued
  <2>1. /\ p' = Append(p, f) /\ q' = Append(q, f)
        /\ \A i \in DOMAIN q : q[i] # f
        /\ p \in Seq(Functors) /\ q \in Seq(Functors)
    BY <1>3 DEF PushFunctor, Fresh, TypeOK
  <2>2. /\ Len(p) \in Nat /\ DOMAIN p = 1..Len(p) /\ DOMAIN p' = 1..(Len(p) + 1)
        /\ \A i \in 1..Len(p) : p'[i] = p[i]
        /\ p'[Len(p) + 1] = f
        /\ Len(q) \in Nat /\ DOMAIN q = 1..Len(q) /\ DOMAIN q' = 1..(Len(q) + 1)
        /\ \A i \in 1..Len(q) : q'[i] = q[i]
        /\ q'[Len(q) + 1] = f
    BY SMTT(60), <2>1, AppendProperties, LenProperties
  <2> HIDE DEF p, q
  <2>3. {q'[i] : i \in DOMAIN q'} \ {q[i] : i \in DOMAIN q} = {f}
    BY SMTT(60), <2>1, <2>2
  <2>4. {p'[i] : i \in DOMAIN p'} = {p[i] : i \in DOMAIN p} \cup {f}
    BY SMTT(60), <2>2
  <2>5. early' = early \cup {f}
    BY <1>1, <2>3 DEF q
  <2> QED BY <2>4, <2>5 DEF Owed, TypeOK, p
<1> QED BY Zenon, <1>2, <1>3 DEF BeforeLoop, UserCode

LEMMA NextWakeInv == WakeInv /\ [Next]_vars => WakeInv'
<1> SUFFICES ASSUME WakeInv, [Next]_vars PROVE WakeInv'
  OBVIOUS
<1> USE DEF WakeInv
<1>1. ASSUME NEW t \in Threads, NEW f \in Functors, QueueInLoop(t, f) PROVE WakeInv'
  BY SMTT(60), <1>1, PushTyped DEF QueueInLoop, TypeOK, FlagFollowsPc, WokenForWork
<1>2. ASSUME NEW t \in Threads, Quit(t) PROVE WakeInv'
  BY <1>2 DEF Quit, TypeOK, FlagFollowsPc, WokenForWork, Owed
<1>3. ASSUME NEW t \in Threads, Wakeup(t) PROVE WakeInv'
  BY <1>3 DEF Wakeup, TypeOK, FlagFollowsPc, WokenForWork, Owed
<1>4. CASE LoopStart
  BY Zenon, <1>4 DEF LoopStart, TypeOK, FlagFollowsPc, WokenForWork, Owed
<1>5. CASE LoopCheck
  BY <1>5 DEF LoopCheck, TypeOK, FlagFollowsPc, WokenForWork, Owed
<1>6. ASSUME NEW active \in SUBSET Channels, Poll(active) PROVE WakeInv'
  BY <1>6 DEF Poll, TypeOK, FlagFollowsPc, WokenForWork
<1>7. CASE HandleRead
  BY <1>7 DEF HandleRead, TypeOK, FlagFollowsPc, WokenForWork
<1>14. CASE BeforeLoop
  <2>1. TypeOK'
    BY SMTT(60), <1>14, UserCodeTyped, EarlyIsNotOwed DEF BeforeLoop, TypeOK
  <2>2. FlagFollowsPc'
    BY <1>14 DEF BeforeLoop, FlagFollowsPc
  <2>3. WokenForWork'
    BY SMTT(60), <1>14, UserCodeTyped, EarlyIsNotOwed DEF BeforeLoop, TypeOK, WokenForWork
  <2> QED BY <2>1, <2>2, <2>3
<1>8. CASE HandleEvent
  BY <1>8, UserCodeTyped DEF HandleEvent, TypeOK, FlagFollowsPc, WokenForWork
<1>9. CASE DoPendingFunctors
  BY <1>9 DEF DoPendingFunctors, TypeOK, FlagFollowsPc, WokenForWork
<1>10. CASE SwapPending
  BY <1>10 DEF SwapPending, TypeOK, FlagFollowsPc, WokenForWork, Owed
<1>11. CASE RunFunctor
  <2>1. TypeOK'
    BY SMTT(60), <1>11, UserCodeTyped DEF RunFunctor, TypeOK
  <2>2. FlagFollowsPc'
    BY <1>11 DEF RunFunctor, FlagFollowsPc
  <2>3. WokenForWork'
    BY SMTT(60), <1>11, UserCodeTyped DEF RunFunctor, TypeOK, FlagFollowsPc, WokenForWork, Owed
  <2> QED BY <2>1, <2>2, <2>3
<1>12. CASE DoneCalling
  BY Zenon, <1>12 DEF DoneCalling, TypeOK, FlagFollowsPc, WokenForWork, Owed
<1>13. CASE UNCHANGED vars
  BY <1>13 DEF vars, TypeOK, FlagFollowsPc, WokenForWork, Owed
<1> QED BY <1>1, <1>2, <1>3, <1>4, <1>5, <1>6, <1>7, <1>8, <1>9, <1>10, <1>11,
           <1>12, <1>13, <1>14 DEF Next, LoopThread

\* EventLoop: while the loop thread is in poll with quit_ raised or a functor
\* pending, other than one its own thread queued before loop(), the eventfd is
\* readable or a thread is about to write to it.
THEOREM NeverSleepsOverWorkHolds == Spec => []NeverSleepsOverWork
<1>1. WakeInv => NeverSleepsOverWork
  BY DEF WakeInv, WokenForWork, NeverSleepsOverWork
<1> QED BY <1>1, InitWakeInv, NextWakeInv, PTL DEF Spec

-----------------------------------------------------------------------------
(* The order of the functors *)

LEMMA AppendAfterConcat ==
  ASSUME NEW s \in Seq(Functors), NEW t \in Seq(Functors), NEW e \in Functors
  PROVE  Append(s \o t, e) = s \o Append(t, e)
<1>1. /\ Append(s \o t, e) = (s \o t) \o <<e>>
      /\ Append(t, e) = t \o <<e>>
      /\ <<e>> \in Seq(Functors)
  BY AppendIsConcat, ConcatProperties
<1> QED BY SMTT(60), <1>1, ConcatAssociative

\* Moving the head of a batch to the end of ran leaves their concatenation.
LEMMA MoveHead ==
  ASSUME NEW S, NEW s \in Seq(S), NEW t \in Seq(S), t # <<>>
  PROVE  Append(s, Head(t)) \o Tail(t) = s \o t
<1> DEFINE h == <<Head(t)>>
           u == Tail(t)
<1>1. /\ Head(t) \in S /\ u \in Seq(S) /\ Len(u) = Len(t) - 1
      /\ Len(t) \in Nat \ {0}
      /\ h \in Seq(S) /\ Len(h) = 1 /\ h[1] = t[1]
      /\ \A i \in 1..Len(u) : u[i] = t[i + 1]
  BY HeadTailProperties, EmptySeq, LenProperties
<1>t. h \in Seq(S) /\ u \in Seq(S)
  BY <1>1
<1>2. Append(s, Head(t)) = s \o h
  BY <1>1, AppendIsConcat
<1> HIDE DEF h, u
<1>3. h \o u = t
  <2> DEFINE l == h \o u
  <2>0. /\ l \in Seq(S) /\ Len(l) = Len(h) + Len(u)
        /\ \A i \in 1..Len(l) : l[i] = IF i <= Len(h) THEN h[i] ELSE u[i - Len(h)]
    BY <1>t, ConcatProperties
  <2>1. /\ l \in Seq(S) /\ Len(l) = Len(t)
        /\ \A i \in 1..Len(l) : l[i] = IF i <= 1 THEN h[i] ELSE u[i - 1]
    <3> HIDE DEF l
    <3> QED BY SMTT(60), <1>1, <2>0
  <2> HIDE DEF l
  <2>2. ASSUME NEW i \in 1..Len(l) PROVE l[i] = t[i]
    <3>1. CASE i = 1
      BY <1>1, <2>1, <3>1
    <3>2. CASE i # 1
      <4> DEFINE k == i - 1
      <4>1. k \in 1..Len(u) /\ k + 1 = i /\ ~(i <= 1)
        BY <1>1, <2>1, <3>2
      <4>2. l[i] = u[k]
        BY <2>1, <4>1
      <4> HIDE DEF k
      <4> QED BY SMTT(60), <1>1, <4>1, <4>2
    <3> QED BY <3>1, <3>2
  <2>3. l = t
    BY <2>1, <2>2, SeqEqual
  <2> QED BY <2>3 DEF l
<1>4. (s \o h) \o u = s \o (h \o u)
  BY SMTT(60), <1>t, ConcatAssociative
<1> QED BY SMTT(60), <1>2, <1>3, <1>4 DEF u

\* Queueing appends to both sides of FifoOrder; user code does that or nothing.
LEMMA PushKeepsOrder ==
  ASSUME TypeOK, FifoOrder, NEW f \in Functors, PushFunctor(f)
  PROVE  queued' = (ran \o functors) \o pendingFunctors_'
<1> DEFINE before == ran \o functors
           q == pendingFunctors_
<1>1. before \in Seq(Functors) /\ q \in Seq(Functors)
  BY ConcatProperties DEF TypeOK
<1>2. queued = before \o q /\ queued' = Append(queued, f) /\ pendingFunctors_' = Append(q, f)
  BY DEF FifoOrder, PushFunctor
<1> HIDE DEF before, q
<1>3. Append(before \o q, f) = before \o Append(q, f)
  BY Zenon, <1>1, AppendAfterConcat
<1>4. queued' = before \o pendingFunctors_'
  BY <1>2, <1>3
<1> QED BY <1>4 DEF before

LEMMA UserCodeKeepsOrder ==
  ASSUME TypeOK, FifoOrder, UserCode
  PROVE  queued' = (ran \o functors) \o pendingFunctors_'
  BY Zenon, PushKeepsOrder DEF UserCode, FifoOrder

LEMMA NextFifoOrder == FifoOrder /\ WakeInv /\ [Next]_vars => FifoOrder'
<1> SUFFICES ASSUME FifoOrder, WakeInv, [Next]_vars PROVE FifoOrder'
  OBVIOUS
<1> USE DEF WakeInv
<1>1. ASSUME NEW t \in Threads, NEW f \in Functors, QueueInLoop(t, f) PROVE FifoOrder'
  BY <1>1, PushKeepsOrder DEF QueueInLoop, FifoOrder
<1>2. CASE HandleEvent
  BY SMTT(60), <1>2, UserCodeKeepsOrder DEF HandleEvent, FifoOrder
<1>7. CASE BeforeLoop
  BY SMTT(60), <1>7, UserCodeKeepsOrder DEF BeforeLoop, FifoOrder
<1>3. CASE SwapPending
  <2>1. functors = <<>>
    BY <1>3 DEF SwapPending, FlagFollowsPc
  <2>2. ran \o <<>> = ran /\ (ran \o pendingFunctors_) \o <<>> = ran \o pendingFunctors_
    BY ConcatEmptySeq, ConcatProperties DEF TypeOK
  <2> QED BY <1>3, <2>1, <2>2 DEF SwapPending, FifoOrder
<1>4. CASE RunFunctor
  <2>1. ran' \o functors' = ran \o functors
    BY SMTT(60), <1>4, MoveHead DEF RunFunctor, TypeOK
  <2> QED BY Zenon, <1>4, <2>1, UserCodeKeepsOrder DEF RunFunctor, FifoOrder
<1>5. CASE UNCHANGED <<queued, ran, functors, pendingFunctors_>>
  BY <1>5 DEF FifoOrder
<1>6. \/ LoopStart \/ LoopCheck \/ (\E active \in SUBSET Channels : Poll(active))
      \/ HandleRead \/ DoPendingFunctors \/ DoneCalling \/ UNCHANGED vars
      \/ (\E t \in Threads : Quit(t) \/ Wakeup(t))
      => UNCHANGED <<queued, ran, functors, pendingFunctors_>>
  BY DEF LoopStart, LoopCheck, Poll, HandleRead, DoPendingFunctors, DoneCalling, vars,
         Quit, Wakeup
<1> QED BY <1>1, <1>2, <1>3, <1>4, <1>5, <1>6, <1>7 DEF Next, LoopThread

\* doPendingFunctors runs functors in the order queueInLoop received them, each
\* once and none skipped, whichever thread queued them and whenever.
THEOREM FifoOrderHolds == Spec => []FifoOrder
<1>1. Init => FifoOrder
  <2> SUFFICES ASSUME Init PROVE FifoOrder
    OBVIOUS
  <2>1. (<<>> \o <<>>) \o <<>> = <<>>
    BY EmptySeq, ConcatEmptySeq
  <2> QED BY <2>1 DEF Init, FifoOrder
<1> QED BY <1>1, InitWakeInv, NextWakeInv, NextFifoOrder, PTL DEF Spec

-----------------------------------------------------------------------------
\* The creator and the thread function touch the loop only through the actions
\* of EventLoop.
LEMMA ThreadStepIsLoopStep == [ThreadNext]_allvars => [Next]_vars
<1> SUFFICES ASSUME [ThreadNext]_allvars PROVE [Next]_vars
  OBVIOUS
<1>1. CASE RunLoop
  BY <1>1 DEF RunLoop, Next
<1>2. CASE UseLoop
  BY <1>2 DEF UseLoop, Next
<1>3. CASE QuitLoop
  BY <1>3, CreatorAssumption DEF QuitLoop, Next
<1>4. CASE WakeLoop
  BY <1>4 DEF WakeLoop, Next
<1>6. CASE InitCallback
  BY <1>6 DEF InitCallback, Next
<1>5. ThreadStart \/ SemWait \/ StartLoopReturns \/ Destroy \/ Join \/ PostTid
      \/ ConstructLoop \/ PublishLoop \/ ClearLoop \/ ExitThread \/ Finish
      \/ UNCHANGED allvars => UNCHANGED vars
  BY DEF ThreadStart, SemWait, StartLoopReturns, Destroy, Join, PostTid, ConstructLoop,
         PublishLoop, ClearLoop, ExitThread, Finish, allvars
<1> QED BY <1>1, <1>2, <1>3, <1>4, <1>5, <1>6 DEF ThreadNext

\* An EventLoopThread implements the loop: what startLoop hands out behaves as
\* EventLoop says, from before the thread runs until after it has been joined.
THEOREM ThreadImplementsLoop == ThreadSpec => Spec
<1>1. ThreadInit => Init
  BY DEF ThreadInit
<1> QED BY <1>1, ThreadStepIsLoopStep, PTL DEF ThreadSpec, Spec

-----------------------------------------------------------------------------
\* What keeps the pointer honest: the creator passes the semaphore only once the
\* thread has posted, and the loop's address only once it is published.
HandoverInv ==
    /\ HandedOutLoopExists
    /\ creator \in {"new", "semWait", "condWait", "started", "quit", "join", "destroyed"}
    /\ child \in {"none", "tid", "construct", "publish", "loop", "unlock", "exited"}
    /\ creator = "new" <=> child = "none"
    /\ creator \in {"quit", "join", "destroyed"} => child \in {"loop", "unlock", "exited"}

\* startLoop hands out a loop that exists, and loop_ is set exactly while
\* threadFunc runs it, however the creator and the thread interleave.
THEOREM HandedOutLoopExistsHolds == ThreadSpec => []HandedOutLoopExists
<1>1. ThreadInit => HandoverInv
  BY DEF ThreadInit, HandoverInv, HandedOutLoopExists
<1>2. HandoverInv /\ [ThreadNext]_allvars => HandoverInv'
  <2> SUFFICES ASSUME HandoverInv, [ThreadNext]_allvars PROVE HandoverInv'
    OBVIOUS
  <2> USE DEF HandoverInv, HandedOutLoopExists
  <2>1. CASE ThreadStart \/ SemWait \/ StartLoopReturns \/ Destroy \/ QuitLoop \/ Join
    BY <2>1 DEF ThreadStart, SemWait, StartLoopReturns, Destroy, QuitLoop, Join
  <2>2. CASE PostTid \/ ConstructLoop \/ PublishLoop \/ ClearLoop \/ ExitThread
    BY <2>2 DEF PostTid, ConstructLoop, PublishLoop, ClearLoop, ExitThread
  <2>3. UseLoop \/ WakeLoop \/ RunLoop \/ InitCallback \/ Finish \/ UNCHANGED allvars => UNCHANGED tvars
    BY DEF UseLoop, WakeLoop, RunLoop, InitCallback, Finish, allvars, tvars
  <2>4. CASE UNCHANGED tvars
    BY <2>4 DEF tvars
  <2> QED BY <2>1, <2>2, <2>3, <2>4 DEF ThreadNext
<1>3. HandoverInv => HandedOutLoopExists
  BY DEF HandoverInv
<1> QED BY <1>1, <1>2, <1>3, PTL DEF ThreadSpec

\* So the loop of an EventLoopThread exists while it is handed out, keeps the
\* order of its functors, and does not sleep over the quit() of the destructor
\* or over a functor, unless its thread-init callback queued it.
THEOREM ThreadLoopIsSafe == ThreadSpec => []LoopIsSafe
<1>1. NeverSleepsOverWork /\ FifoOrder /\ HandedOutLoopExists => LoopIsSafe
  BY DEF LoopIsSafe
<1> QED BY <1>1, ThreadImplementsLoop, NeverSleepsOverWorkHolds, FifoOrderHolds,
           HandedOutLoopExistsHolds, PTL
=============================================================================
