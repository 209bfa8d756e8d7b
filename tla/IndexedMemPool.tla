--------------------------- MODULE IndexedMemPool ---------------------------
(***************************************************************************)
(* StdMemPool/StdIndexedMemPool.h: a lock-free pool of numbered slots.     *)
(* Free slots are in one local list per stripe, linked by localNext, or in *)
(* the global list of whole local lists, linked by globalNext.  Every load *)
(* store and compare-exchange is a step of its own; the compare-exchanges  *)
(* compare a tag too, which counts the changes of a head.                  *)
(***************************************************************************)
EXTENDS Integers, FiniteSets

CONSTANTS Threads, Lists,   \* threads; local lists (stripes)
          Stripe,           \* the list of each thread
          Capacity,         \* the argument of the constructor
          LocalListLimit,
          MaxOps            \* bound: calls of allocIndex and recycleIndex

NumLocalLists == Cardinality(Lists)

MaxIndexForCapacity == Capacity + (NumLocalLists - 1) * LocalListLimit

Slots == 1..MaxIndexForCapacity
Allocated == -1   \* uint32_t(-1) in localNext

VARIABLES size_, localNext, globalNext, local_, globalHead_,
          pc, h, gh, next, idx,   \* the registers of each thread
          owned,                  \* the slots the callers hold
          ops                     \* the bound

vars == <<size_, localNext, globalNext, local_, globalHead_, pc, h, gh, next, idx, owned, ops>>

Init ==
    /\ size_ = 0
    /\ localNext = [s \in Slots |-> 0] /\ globalNext = [s \in Slots |-> 0]
    /\ local_ = [l \in Lists |-> [idx |-> 0, tag |-> 0, size |-> 0]]
    /\ globalHead_ = [idx |-> 0, tag |-> 0, size |-> 0]
    /\ pc = [t \in Threads |-> "idle"]
    /\ h = [t \in Threads |-> [idx |-> 0, tag |-> 0, size |-> 0]] /\ gh = h
    /\ next = [t \in Threads |-> 0] /\ idx = [t \in Threads |-> 0]
    /\ owned = [t \in Threads |-> {}]
    /\ ops = 0

\* A pool whose slots have been used: t has allocated all of them and recycled
\* all but the last.
UsedInit(t) ==
    LET n == MaxIndexForCapacity IN
    /\ size_ = n
    /\ localNext = [s \in Slots |-> IF s = n THEN Allocated ELSE IF s = n - 1 THEN 0 ELSE s + 1]
    /\ globalNext = [s \in Slots |-> 0]
    /\ local_ = [l \in Lists |-> [idx |-> 1, tag |-> n - 1, size |-> n - 1]]
    /\ globalHead_ = [idx |-> 0, tag |-> 0, size |-> 0]
    /\ pc = [u \in Threads |-> "idle"]
    /\ h = [u \in Threads |-> [idx |-> 0, tag |-> 0, size |-> 0]] /\ gh = h
    /\ next = [u \in Threads |-> 0] /\ idx = [u \in Threads |-> 0]
    /\ owned = [u \in Threads |-> IF u = t THEN {n} ELSE {}]
    /\ ops = 0

-----------------------------------------------------------------------------
(* TaggedPtr *)

\* Mutant: the tag is not counted.
WithIdxNoTag(p, i) == [idx |-> i, tag |-> p.tag, size |-> p.size]

WithIdx(p, i) == [idx |-> i, tag |-> p.tag + 1, size |-> p.size]
WithSize(p, n) == [idx |-> p.idx, tag |-> p.tag, size |-> n]
WithEmpty(p) == WithSize(WithIdx(p, 0), 0)

Goto(t, from, to) == pc[t] = from /\ pc' = [pc EXCEPT ![t] = to]
Head(t) == local_[Stripe[t]]

memory == <<size_, localNext, globalNext, local_, globalHead_>>
registers == <<h, gh, next, idx>>
ghost == <<owned, ops>>

\* compare_exchange_strong on the local head of t, from h[t] to p.
CasLocal(t, p) == Head(t) = h[t] /\ local_' = [local_ EXCEPT ![Stripe[t]] = p]

-----------------------------------------------------------------------------
(* localPop *)

CallAlloc(t) ==
    /\ ops < MaxOps /\ ops' = ops + 1 /\ Goto(t, "idle", "pop")
    /\ UNCHANGED <<memory, registers, owned>>

PopLoad(t) ==
    /\ Goto(t, "pop", IF Head(t).idx # 0 THEN "popnext" ELSE "gpop")
    /\ h' = [h EXCEPT ![t] = Head(t)]
    /\ UNCHANGED <<memory, gh, next, idx, ghost>>

PopNext(t) ==
    /\ Goto(t, "popnext", "popcas")
    /\ next' = [next EXCEPT ![t] = localNext[h[t].idx]]
    /\ UNCHANGED <<memory, h, gh, idx, ghost>>

PopCas(t) ==
    /\ \/ /\ Goto(t, "popcas", "mark")
          /\ CasLocal(t, WithSize(WithIdx(h[t], next[t]), h[t].size - 1))
          /\ idx' = [idx EXCEPT ![t] = h[t].idx]
       \/ /\ Goto(t, "popcas", "pop") /\ Head(t) # h[t]
          /\ UNCHANGED <<local_, idx>>
    /\ UNCHANGED <<size_, localNext, globalNext, globalHead_, h, gh, next, ghost>>

\* globalPop
GPopLoad(t) ==
    /\ Goto(t, "gpop", IF globalHead_.idx # 0 THEN "gpopnext" ELSE "grow")
    /\ gh' = [gh EXCEPT ![t] = globalHead_]
    /\ UNCHANGED <<memory, h, next, idx, ghost>>

GPopNext(t) ==
    /\ Goto(t, "gpopnext", "gpopcas")
    /\ next' = [next EXCEPT ![t] = globalNext[gh[t].idx]]
    /\ UNCHANGED <<memory, h, gh, idx, ghost>>

GPopCas(t) ==
    /\ \/ /\ Goto(t, "gpopcas", "refill") /\ globalHead_ = gh[t]
          /\ globalHead_' = WithIdx(gh[t], next[t])
          /\ idx' = [idx EXCEPT ![t] = gh[t].idx]
       \/ /\ Goto(t, "gpopcas", "gpop") /\ globalHead_ # gh[t]
          /\ UNCHANGED <<globalHead_, idx>>
    /\ UNCHANGED <<size_, localNext, globalNext, local_, h, gh, next, ghost>>

MovedSize == LocalListLimit

RefillNext(t) ==
    /\ Goto(t, "refill", "refillcas")
    /\ next' = [next EXCEPT ![t] = localNext[idx[t]]]
    /\ UNCHANGED <<memory, h, gh, idx, ghost>>

\* The rest of the list becomes the local list; if that has changed meanwhile
\* the whole goes back to the global list.
RefillCas(t) ==
    /\ \/ /\ Goto(t, "refillcas", "mark")
          /\ CasLocal(t, WithSize(WithIdx(h[t], next[t]), MovedSize))
       \/ /\ Goto(t, "refillcas", "giveback") /\ Head(t) # h[t]
          /\ UNCHANGED local_
    /\ UNCHANGED <<size_, localNext, globalNext, globalHead_, registers, ghost>>

AllocFails(t) == idx' = [idx EXCEPT ![t] = 0]

\* A new slot: the load of size_, then its increment, which may pass the limit.
Grow(t) ==
    /\ \/ /\ Goto(t, "grow", "grow2") /\ size_ < MaxIndexForCapacity
          /\ UNCHANGED idx
       \/ Goto(t, "grow", "idle") /\ size_ >= MaxIndexForCapacity /\ AllocFails(t)
    /\ UNCHANGED <<memory, h, gh, next, owned, ops>>

GrowFits(n) == n <= MaxIndexForCapacity

GrowCount(t) ==
    /\ size_' = size_ + 1
    /\ \/ /\ Goto(t, "grow2", "mark") /\ GrowFits(size_')
          /\ idx' = [idx EXCEPT ![t] = size_']
       \/ Goto(t, "grow2", "idle") /\ ~GrowFits(size_') /\ AllocFails(t)
    /\ UNCHANGED <<localNext, globalNext, local_, globalHead_, h, gh, next, owned, ops>>

MarkAllocated(i) == localNext' = [localNext EXCEPT ![i] = Allocated]

\* allocIndex: markAllocated, and the slot is the caller's.
Mark(t) ==
    /\ Goto(t, "mark", "idle")
    /\ MarkAllocated(idx[t])
    /\ owned' = [owned EXCEPT ![t] = @ \cup {idx[t]}]
    /\ UNCHANGED <<size_, globalNext, local_, globalHead_, registers, ops>>

-----------------------------------------------------------------------------
(* localPush *)

\* Any thread that knows the index may recycle it; here the one that got it.
CallRecycle(t) ==
    /\ ops < MaxOps /\ ops' = ops + 1 /\ Goto(t, "idle", "pushstore")
    /\ \E i \in owned[t] : /\ idx' = [idx EXCEPT ![t] = i]
                           /\ owned' = [owned EXCEPT ![t] = @ \ {i}]
    /\ h' = [h EXCEPT ![t] = Head(t)]
    /\ UNCHANGED <<memory, gh, next>>

PushStore(t) ==
    /\ Goto(t, "pushstore", "pushcas")
    /\ localNext' = [localNext EXCEPT ![idx[t]] = h[t].idx]
    /\ UNCHANGED <<size_, globalNext, local_, globalHead_, registers, ghost>>

\* A full local list is stolen, with the slot as its new head, for the global
\* list; otherwise the slot becomes the head.
PushCas(t) ==
    /\ \/ /\ h[t].size = LocalListLimit /\ Goto(t, "pushcas", "gpush")
          /\ CasLocal(t, WithEmpty(h[t])) /\ UNCHANGED h
       \/ /\ h[t].size < LocalListLimit /\ Goto(t, "pushcas", "idle")
          /\ CasLocal(t, WithSize(WithIdx(h[t], idx[t]), h[t].size + 1)) /\ UNCHANGED h
       \/ /\ Head(t) # h[t] /\ Goto(t, "pushcas", "pushstore")
          /\ h' = [h EXCEPT ![t] = Head(t)] /\ UNCHANGED local_
    /\ UNCHANGED <<size_, localNext, globalNext, globalHead_, gh, next, idx, ghost>>

\* globalPush, for a stolen list ("gpush") and for one given back ("giveback").
Then == [gpush |-> "gpushcas", giveback |-> "givebackcas",
         gpushcas |-> "idle", givebackcas |-> "pop"]
Again == [gpushcas |-> "gpush", givebackcas |-> "giveback"]

GPushStore(t) ==
    /\ pc[t] \in {"gpush", "giveback"} /\ Goto(t, pc[t], Then[pc[t]])
    /\ gh' = [gh EXCEPT ![t] = globalHead_]
    /\ globalNext' = [globalNext EXCEPT ![idx[t]] = globalHead_.idx]
    /\ UNCHANGED <<size_, localNext, local_, globalHead_, h, next, idx, ghost>>

GPushCas(t) ==
    /\ pc[t] \in {"gpushcas", "givebackcas"}
    /\ \/ /\ globalHead_ = gh[t] /\ Goto(t, pc[t], Then[pc[t]])
          /\ globalHead_' = WithIdx(gh[t], idx[t])
       \/ /\ globalHead_ # gh[t] /\ Goto(t, pc[t], Again[pc[t]])
          /\ UNCHANGED globalHead_
    /\ UNCHANGED <<size_, localNext, globalNext, local_, registers, ghost>>

-----------------------------------------------------------------------------
Step(t) ==
    \/ CallAlloc(t) \/ PopLoad(t) \/ PopNext(t) \/ PopCas(t)
    \/ GPopLoad(t) \/ GPopNext(t) \/ GPopCas(t) \/ RefillNext(t) \/ RefillCas(t)
    \/ Grow(t) \/ GrowCount(t) \/ Mark(t)
    \/ CallRecycle(t) \/ PushStore(t) \/ PushCas(t) \/ GPushStore(t) \/ GPushCas(t)

Next == \E t \in Threads : Step(t)

Spec == Init /\ [][Next]_vars

-----------------------------------------------------------------------------
Taken == UNION {owned[t] : t \in Threads}

(* The slots a chain of localNext or globalNext visits from i on, to a bound   *)
(* of one more than there are slots.                                           *)
Walk(i, link) ==
    LET visit[n \in 0..(MaxIndexForCapacity + 1)] ==
            IF n = 0 THEN i
            ELSE IF visit[n - 1] \in Slots THEN link[visit[n - 1]] ELSE 0
    IN  [n \in 1..(MaxIndexForCapacity + 1) |-> visit[n - 1]]

Members(i, link) == {Walk(i, link)[n] : n \in 1..(MaxIndexForCapacity + 1)} \ {0}
Length(i, link) == Cardinality(Members(i, link))

\* The heads of the lists of free slots: the local ones, those on the global
\* list, and the ones a thread is moving.
Moving == {t \in Threads : pc[t] \in {"refill", "refillcas", "giveback", "givebackcas",
                                      "gpush", "gpushcas"}}
Stealing(t) == pc[t] \in {"pushstore", "pushcas"}
GlobalLists == Members(globalHead_.idx, globalNext)
FreeHeads == {local_[l].idx : l \in Lists} \cup GlobalLists \cup {idx[t] : t \in Moving}
Single == {idx[t] : t \in {u \in Threads : pc[u] = "mark" \/ Stealing(u)}}

\* The size kept in a local head is the length of its list, and every list on
\* the global list, or on its way, is a full one and a head.
SizesAreLengths ==
    /\ \A l \in Lists : Length(local_[l].idx, localNext) = local_[l].size
    /\ \A i \in GlobalLists \cup {idx[t] : t \in Moving} :
          Length(i, localNext) = LocalListLimit + 1

\* Every constructed slot is in exactly one place: with one caller, in the
\* hands of one thread, or in one list of free slots.  So no index is given out
\* twice and none is lost.
ExactlyOnePlace ==
    LET constructed == IF size_ < MaxIndexForCapacity THEN size_ ELSE MaxIndexForCapacity
        inLists == UNION {Members(i, localNext) : i \in FreeHeads \ {0}}
    IN  /\ Taken \cup Single \cup inLists = 1..constructed
        /\ Taken \cap (Single \cup inLists) = {} /\ Single \cap inLists = {}
        /\ \A t, u \in Threads : t # u => owned[t] \cap owned[u] = {}
        /\ \A i, j \in FreeHeads \ {0} :
              i # j => Members(i, localNext) \cap Members(j, localNext) = {}

\* So the lock-free lists never give a slot out twice, lose one or miscount.
SlotsAccounted == SizesAreLengths /\ ExactlyOnePlace
=============================================================================
