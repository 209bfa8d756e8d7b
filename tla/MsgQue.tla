------------------------------- MODULE MsgQue -------------------------------
(***************************************************************************)
(* msg_queue/msg_que.cpp: message queues between threads.  The semaphore   *)
(* that counts messages and the mutex are static members, one for all      *)
(* queues.  A message with a destination is taken only by the receiver of  *)
(* that name; one with dest "any" was sent by the one-to-one send_msg and  *)
(* is received by the one-to-one recv_msg.                                 *)
(***************************************************************************)
EXTENDS Integers, Sequences, FiniteSets, SequencesExt

CONSTANTS Queues, Receivers,
          Home,       \* Home[r]: the queue receiver r reads
          Name,       \* Name[r]: the name it receives under
          ByName,     \* the receivers call recv_msg(this_name, msg)
          Blocking,   \* the queues constructed with block = 1
          Messages, Dest, Target,  \* Dest[m]: a name, or "any"; Target[m]: a queue
          Senders

VARIABLES m_queue, m_sem,
          sending,    \* sending[s]: between m_queue.push_back and sem_post
          pc,         \* the receivers: "idle", "lock", "repost"
          result,     \* what the last recv_msg of r returned, and why
          sent,       \* the messages, in the order of their push_back
          received    \* received[r]: what the calls of r returned, in order

vars == <<m_queue, m_sem, sending, pc, result, sent, received>>

\* The queues have been constructed; each constructor's sem_init(0) came first.
Init ==
    /\ m_queue = [q \in Queues |-> <<>>]
    /\ m_sem = 0
    /\ sending = [s \in Senders |-> FALSE]
    /\ pc = [r \in Receivers |-> "idle"]
    /\ result = [r \in Receivers |-> "none"]
    /\ sent = <<>>
    /\ received = [r \in Receivers |-> <<>>]

SendMsg(s, m) ==
    /\ ~sending[s] /\ ~Contains(sent, m)
    /\ sent' = Append(sent, m)
    /\ m_queue' = [m_queue EXCEPT ![Target[m]] = Append(@, m)]
    /\ sending' = [sending EXCEPT ![s] = TRUE]
    /\ UNCHANGED <<m_sem, pc, result, received>>

SemPost(s) ==
    /\ sending[s]
    /\ m_sem' = m_sem + 1
    /\ sending' = [sending EXCEPT ![s] = FALSE]
    /\ UNCHANGED <<m_queue, pc, result, sent, received>>

\* sem_wait blocks while m_sem is 0; sem_trywait makes recv_msg return false.
SemWait(r) ==
    /\ pc[r] = "idle" /\ m_sem > 0
    /\ m_sem' = m_sem - 1
    /\ pc' = [pc EXCEPT ![r] = "lock"]
    /\ UNCHANGED <<m_queue, sending, result, sent, received>>

SemTryWaitFails(r) ==
    /\ pc[r] = "idle" /\ m_sem = 0 /\ Home[r] \notin Blocking
    /\ result' = [result EXCEPT ![r] = "would block"]
    /\ UNCHANGED <<m_queue, m_sem, sending, pc, sent, received>>

Foremost(r) == Head(m_queue[Home[r]])

\* The part of recv_msg under m_mutex.
RecvMsg(r) ==
    /\ pc[r] = "lock"
    /\ \/ /\ m_queue[Home[r]] = <<>>
          /\ result' = [result EXCEPT ![r] = "empty"]
          /\ pc' = [pc EXCEPT ![r] = "idle"]
          /\ UNCHANGED <<m_queue, received>>
       \/ /\ m_queue[Home[r]] # <<>> /\ ByName /\ Dest[Foremost(r)] # Name[r]
          /\ result' = [result EXCEPT ![r] = "other"]
          /\ pc' = [pc EXCEPT ![r] = "repost"]
          /\ UNCHANGED <<m_queue, received>>
       \/ /\ m_queue[Home[r]] # <<>> /\ (ByName => Dest[Foremost(r)] = Name[r])
          /\ received' = [received EXCEPT ![r] = Append(@, Foremost(r))]
          /\ m_queue' = [m_queue EXCEPT ![Home[r]] = Tail(@)]
          /\ result' = [result EXCEPT ![r] = "true"]
          /\ pc' = [pc EXCEPT ![r] = "idle"]
    /\ UNCHANGED <<m_sem, sending, sent>>

\* Mutant: the count of a message left for another receiver is given back
\* twice.
RepostTwice(r) ==
    /\ pc[r] = "repost"
    /\ m_sem' = m_sem + 2
    /\ pc' = [pc EXCEPT ![r] = "idle"]
    /\ UNCHANGED <<m_queue, sending, result, sent, received>>

Repost(r) ==
    /\ pc[r] = "repost"
    /\ m_sem' = m_sem + 1
    /\ pc' = [pc EXCEPT ![r] = "idle"]
    /\ UNCHANGED <<m_queue, sending, result, sent, received>>

Next ==
    \/ \E s \in Senders : SemPost(s) \/ \E m \in Messages : SendMsg(s, m)
    \/ \E r \in Receivers : SemWait(r) \/ SemTryWaitFails(r) \/ RecvMsg(r) \/ Repost(r)

Spec == Init /\ [][Next]_vars

\* Threads run; each receiver calls recv_msg again and again, and a receiver
\* that finds the semaphore positive again and again gets through sem_wait.
FairSpec ==
    /\ Spec
    /\ \A s \in Senders : WF_vars(SemPost(s))
    /\ \A r \in Receivers : SF_vars(SemWait(r)) /\ WF_vars(RecvMsg(r)) /\ WF_vars(Repost(r))

-----------------------------------------------------------------------------
Sending == Cardinality({s \in Senders : sending[s]})
Inside == Cardinality({r \in Receivers : pc[r] # "idle"})
Got == UNION {ToSet(received[r]) : r \in Receivers}

\* With one queue the semaphore, the calls on their way and the queue agree, so
\* that a receiver that got through sem_wait never finds the queue empty.
SemCountsMessages ==
    /\ \A q \in Queues : m_sem + Sending + Inside = Len(m_queue[q])
    /\ \A r \in Receivers : result[r] # "empty"

\* With several queues on the one semaphore, calls still never count a message
\* twice: no count without a message behind it.
NoPhantomCount ==
    m_sem + Sending <= Len(sent) - Cardinality(Got)

SentTo(q) == SelectSeq(sent, LAMBDA m : Target[m] = q)
IndexIn(seq, m) == CHOOSE i \in DOMAIN seq : seq[i] = m

\* A message goes to its addressee and to nobody else, and no receiver gets two
\* messages in another order than send_msg queued them.  A queue gives them out
\* first in, first out, and none is lost or duplicated while receivers put counts
\* back: what it holds is the end of what was sent to it, what it no longer holds
\* has been received once.
AddressedDelivery ==
    /\ \A r \in Receivers : \A i \in DOMAIN received[r] :
          /\ ByName => Dest[received[r][i]] = Name[r]
          /\ \A j \in 1..(i - 1) : IndexIn(sent, received[r][j]) < IndexIn(sent, received[r][i])
    /\ \A q \in Queues :
          LET left == Len(SentTo(q)) - Len(m_queue[q])
          IN /\ IsSuffix(m_queue[q], SentTo(q))
             /\ {m \in Got : Target[m] = q} = ToSet(SubSeq(SentTo(q), 1, left))
    /\ \A r1, r2 \in Receivers : r1 # r2 => ToSet(received[r1]) \cap ToSet(received[r2]) = {}

\* So one queue keeps its semaphore exact, and several never over-count it.
MessagesAccounted == AddressedDelivery /\ (IF Cardinality(Queues) = 1 THEN SemCountsMessages ELSE NoPhantomCount)
=============================================================================
