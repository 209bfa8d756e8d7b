------------------------------ MODULE SmartPtr ------------------------------
(***************************************************************************)
(* mystl/memory: MySharedPtr (shared_ptr.cpp), my_shared_ptr with           *)
(* my_weak_ptr (weak_ptr.cpp) and UniquePtr (unique_ptr.cpp).  A pointer    *)
(* operation is a list of steps, one per atomic operation on the control    *)
(* block, per delete and per store; the steps of two threads interleave.    *)
(* Threads share objects, not pointers: each has its own.  An object is a   *)
(* node with a pointer to the next one, released with it; only the first    *)
(* thread touches those.                                                    *)
(***************************************************************************)
EXTENDS Integers, Sequences, FiniteSets, SequencesExt

CONSTANTS PtrKinds,       \* of "shared", "weak", "unique" and its specialisation "array"
          PtrThreads,     \* 1..n
          Objects         \* 1..n; object 1 exists at the start

VARIABLES ptrKind,
          strongAt,  \* slot -> object or 0; <<t, k>> is thread t's k-th, <<0, x>> the next of x
          weakAt,    \* the weak pointer of each thread
          count,     \* object -> [strong, weak], its control block
          object, block,  \* object -> "none", "live", "deleted"
          todo       \* the rest of each thread's operation
ptrVars == <<ptrKind, strongAt, weakAt, count, object, block, todo>>

\* The first thread has two pointers, the others one.
Local(t) == {t} \X (IF t = 1 THEN {1, 2} ELSE {1})
Slots == UNION {Local(t) : t \in PtrThreads} \cup ({0} \X Objects)
Step(op, slot, x) == [op |-> op, slot |-> slot, x |-> x]
\* Nothing is done for a null control block.
Steps(list) == SelectSeq(list, LAMBDA m : m.x # 0 \/ m.op \in {"store", "storeWeak"})
Begins(t, list) == todo[t] = << >> /\ todo' = [todo EXCEPT ![t] = Steps(list)]
Now(t, op) == todo[t] # << >> /\ Head(todo[t]).op = op
Then(t, list) == todo' = [todo EXCEPT ![t] = Steps(list) \o Tail(@)]
Target(t) == Head(todo[t]).x

Owned == ptrKind \in {"unique", "array"}  \* no control block
\* The control block is made with one strong reference; that of weak_ptr.cpp
\* counts all of them as one weak reference more.
ControlBlock_shared == [strong |-> 1, weak |-> 0]
ControlBlock_weak == [strong |-> 1, weak |-> 1]
ControlBlock == IF ptrKind = "weak" THEN ControlBlock_weak ELSE ControlBlock_shared
PtrInit ==
  /\ ptrKind \in PtrKinds
  /\ LET sharers == IF Owned THEN {1} ELSE PtrThreads
         watchers == IF ptrKind = "weak" THEN PtrThreads ELSE {}
     IN /\ strongAt = [s \in Slots |-> IF s[1] \in sharers /\ s[2] = 1 THEN 1 ELSE 0]
        /\ weakAt = [t \in PtrThreads |-> IF t \in watchers THEN 1 ELSE 0]
        /\ count = [x \in Objects |-> IF x # 1 THEN [strong |-> 0, weak |-> 0]
                     ELSE [strong |-> Cardinality(sharers), weak |-> ControlBlock.weak + Cardinality(watchers)]]
  /\ object = [x \in Objects |-> IF x = 1 THEN "live" ELSE "none"] 
  /\ block = [x \in Objects |-> IF x = 1 /\ ~Owned THEN "live" ELSE "none"]
  /\ todo = [t \in PtrThreads |-> << >>]

(***************************************************************************)
(* The control block.                                                      *)
(***************************************************************************)
add_strong_ref(t) ==
  /\ Now(t, "addStrong") /\ Then(t, << >>)
  /\ count' = [count EXCEPT ![Target(t)].strong = @ + 1]
  /\ UNCHANGED <<ptrKind, strongAt, weakAt, object, block>>
\* The last one deletes the object, and then lets the control block go.
release_strong(t) ==
  LET x == Target(t) IN
  /\ Now(t, "releaseStrong") /\ count' = [count EXCEPT ![x].strong = @ - 1]
  /\ Then(t, IF count[x].strong = 1
             THEN <<Step("destroy", <<0, x>>, x), Step("releaseBlock", <<0, x>>, x)>> ELSE << >>)
  /\ UNCHANGED <<ptrKind, strongAt, weakAt, object, block>>
\* A pointer that held x holds it no more: its deleter, or its control block.
DefaultDeleter(x) == Step("destroy", <<0, 1>>, x)
LetGo(x) == IF Owned THEN DefaultDeleter(x) ELSE Step("releaseStrong", <<0, 1>>, x)
\* delete ptr_: the node's next pointer is released first.
destroy_object(t) ==
  LET x == Target(t)
      next == strongAt[<<0, x>>]
  IN /\ Now(t, "destroy") /\ object' = [object EXCEPT ![x] = "deleted"]
     /\ strongAt' = [strongAt EXCEPT ![<<0, x>>] = 0]
     /\ Then(t, <<LetGo(next)>>)
     /\ UNCHANGED <<ptrKind, weakAt, count, block>>
add_weak_ref(t) ==
  /\ Now(t, "addWeak") /\ Then(t, << >>)
  /\ count' = [count EXCEPT ![Target(t)].weak = @ + 1]
  /\ UNCHANGED <<ptrKind, strongAt, weakAt, object, block>>
\* weak_ptr.cpp: the weak reference of the strong ones.  shared_ptr.cpp: the
\* block goes if nobody watches it, which nobody does: MyWeakPtr is declared
\* and never defined.
release_strong_shared(x) == IF count[x].weak = 0 THEN <<Step("delete", <<0, x>>, x)>> ELSE << >>
release_strong_weak(x) == <<Step("releaseWeak", <<0, x>>, x)>>
releaseBlock(t) ==
  /\ Now(t, "releaseBlock")
  /\ Then(t, IF ptrKind = "weak" THEN release_strong_weak(Target(t)) ELSE release_strong_shared(Target(t)))
  /\ UNCHANGED <<ptrKind, strongAt, weakAt, count, object, block>>
release_weak(t) ==
  LET x == Target(t) IN
  /\ Now(t, "releaseWeak") /\ count' = [count EXCEPT ![x].weak = @ - 1]
  /\ Then(t, IF count[x].weak = 1 THEN <<Step("delete", <<0, x>>, x)>> ELSE << >>)
  /\ UNCHANGED <<ptrKind, strongAt, weakAt, object, block>>
deleteBlock(t) ==
  /\ Now(t, "delete") /\ block' = [block EXCEPT ![Target(t)] = "deleted"] /\ Then(t, << >>)
  /\ UNCHANGED <<ptrKind, strongAt, weakAt, count, object>>
\* try_lock: a load, and a compare-exchange that fails if the count was changed.
\* MUTANT: it adds to what it loaded, without comparing.
try_lockAdds(t) ==
  LET m == Head(todo[t]) IN
  /\ Now(t, "tryLock")
  /\ IF count[m.x].strong = 0 THEN Then(t, << >>) ELSE Then(t, <<Step("addStrong", m.slot, m.x), Step("store", m.slot, m.x)>>)
  /\ UNCHANGED <<ptrKind, strongAt, weakAt, count, object, block>>
try_lock(t) ==
  LET m == Head(todo[t]) IN
  /\ Now(t, "tryLock")
  /\ IF count[m.x].strong = 0 THEN Then(t, << >>) /\ UNCHANGED count
     ELSE /\ count' = [count EXCEPT ![m.x].strong = @ + 1]
          /\ Then(t, <<Step("store", m.slot, m.x)>>)
  /\ UNCHANGED <<ptrKind, strongAt, weakAt, object, block>>
\* new T and, but for a UniquePtr, its control block.
make(t) ==
  LET x == Target(t) IN
  /\ Now(t, "make") /\ Then(t, << >>) /\ object' = [object EXCEPT ![x] = "live"]
  /\ IF Owned THEN UNCHANGED <<count, block>>
     ELSE block' = [block EXCEPT ![x] = "live"] /\ count' = [count EXCEPT ![x] = ControlBlock]
  /\ UNCHANGED <<ptrKind, strongAt, weakAt>>
store(t) ==
  LET m == Head(todo[t]) IN
  /\ todo[t] # << >> /\ m.op \in {"store", "storeWeak"} /\ Then(t, << >>)
  /\ IF m.op = "store" THEN strongAt' = [strongAt EXCEPT ![m.slot] = m.x] /\ UNCHANGED weakAt
     ELSE weakAt' = [weakAt EXCEPT ![t] = m.x] /\ UNCHANGED strongAt
  /\ UNCHANGED <<ptrKind, count, object, block>>

(***************************************************************************)
(* The pointers' operations, by what they do in which order.               *)
(***************************************************************************)
Begun(t, list) == Begins(t, list) /\ UNCHANGED <<ptrKind, strongAt, weakAt, count, object, block>>
\* Copy assignment of s to d: MySharedPtr copies into a temporary and swaps,
\* my_shared_ptr releases first.
MySharedPtr_copy(d, s) == <<Step("addStrong", d, strongAt[s]), Step("store", d, strongAt[s]), LetGo(strongAt[d])>>
my_shared_ptr_copy(d, s) == <<LetGo(strongAt[d]), Step("store", d, strongAt[s]), Step("addStrong", d, strongAt[s])>>
copyAssign(t, d, s) == Begun(t, IF ptrKind = "shared" THEN MySharedPtr_copy(d, s) ELSE my_shared_ptr_copy(d, s))
\* Move assignment: reset(other.release()) in a UniquePtr.
MySharedPtr_move(d, s) == <<Step("store", s, 0), Step("store", d, strongAt[s]), LetGo(strongAt[d])>>
my_shared_ptr_move(d, s) == <<LetGo(strongAt[d]), Step("store", d, strongAt[s]), Step("store", s, 0)>>
UniquePtr_reset(d, x) == <<Step("store", d, x), LetGo(strongAt[d])>>
UniquePtr_release(s) == <<Step("store", s, 0)>>
UniquePtr_move(d, s) == UniquePtr_release(s) \o UniquePtr_reset(d, strongAt[s])
UniquePtrArray_reset(d, x) == <<Step("store", d, x), LetGo(strongAt[d])>>
UniquePtrArray_release(s) == <<Step("store", s, 0)>>
UniquePtrArray_move(d, s) == UniquePtrArray_release(s) \o UniquePtrArray_reset(d, strongAt[s])
moveAssign(t, d, s) ==
  Begun(t, CASE ptrKind = "shared" -> MySharedPtr_move(d, s) [] ptrKind = "weak" -> my_shared_ptr_move(d, s)
             [] ptrKind = "unique" -> UniquePtr_move(d, s) [] ptrKind = "array" -> UniquePtrArray_move(d, s))
\* reset(), the nullptr assignment and the destructor.
MySharedPtr_reset(d) == <<Step("store", d, 0), LetGo(strongAt[d])>>
my_shared_ptr_reset(d) == <<LetGo(strongAt[d]), Step("store", d, 0)>>
reset(t, d) ==
  Begun(t, CASE ptrKind = "shared" -> MySharedPtr_reset(d) [] ptrKind = "weak" -> my_shared_ptr_reset(d)
             [] ptrKind = "unique" -> UniquePtr_reset(d, 0) [] ptrKind = "array" -> UniquePtrArray_reset(d, 0))
\* reset(new T), for the shared pointers a constructor and a swap.
MySharedPtr_resetTo(d, n) == <<Step("make", d, n), Step("store", d, n), LetGo(strongAt[d])>>
my_shared_ptr_resetTo(d, n) == <<LetGo(strongAt[d]), Step("make", d, n), Step("store", d, n)>>
\* make_unique and move assignment.
make_unique(d, n) == <<Step("make", d, n)>> \o UniquePtr_reset(d, n)
make_uniqueArray(d, n) == <<Step("make", d, n)>> \o UniquePtrArray_reset(d, n)
resetTo(t, d, n) ==
  Begun(t, CASE ptrKind = "shared" -> MySharedPtr_resetTo(d, n) [] ptrKind = "weak" -> my_shared_ptr_resetTo(d, n)
             [] ptrKind = "unique" -> make_unique(d, n) [] ptrKind = "array" -> make_uniqueArray(d, n))
swap(t, d, s) == ptrKind # "weak" /\ Begun(t, <<Step("store", d, strongAt[s]), Step("store", s, strongAt[d])>>)

\* my_weak_ptr: w = p, w.reset() and p = w.lock() into an empty pointer.
observe(t, s) ==
  /\ ptrKind = "weak" /\ strongAt[s] # 0
  /\ Begun(t, <<Step("addWeak", s, strongAt[s]), Step("releaseWeak", s, weakAt[t]), Step("storeWeak", s, strongAt[s])>>)
weakReset(t) == weakAt[t] # 0 /\ Begun(t, <<Step("releaseWeak", <<t, 1>>, weakAt[t]), Step("storeWeak", <<t, 1>>, 0)>>)
lock(t, d) == weakAt[t] # 0 /\ strongAt[d] = 0 /\ Begun(t, <<Step("tryLock", d, weakAt[t])>>)

\* A thread uses its pointers; the first one the next pointers of what they
\* point to as well, but a my_shared_ptr is not assigned from inside the
\* object that it may be about to delete.
Reached(t, d) == {<<0, strongAt[s]>> : s \in {q \in Local(t) : t = 1 /\ strongAt[q] # 0 /\ q # d}}
Sources(t, d) == Local(t) \cup Reached(t, IF ptrKind = "weak" THEN d ELSE <<0, 0>>)
Targets(t) == Local(t) \cup Reached(t, <<0, 0>>)
Unmade(n) == object[n] = "none" /\ \A u \in PtrThreads : \A i \in DOMAIN todo[u] : todo[u][i].x # n
Use(t) ==
  \/ \E d \in Targets(t) :
       \/ \E s \in Sources(t, d) \ {d} :
            (~Owned /\ copyAssign(t, d, s)) \/ moveAssign(t, d, s) \/ swap(t, d, s)
       \/ strongAt[d] # 0 /\ reset(t, d)
       \/ \E n \in Objects : Unmade(n) /\ resetTo(t, d, n)
       \/ lock(t, d)
  \/ \E s \in Local(t) : observe(t, s)
  \/ weakReset(t)
PtrNext ==
  \E t \in PtrThreads :
    \/ Use(t)
    \/ add_strong_ref(t) \/ release_strong(t) \/ destroy_object(t) \/ releaseBlock(t)
    \/ add_weak_ref(t) \/ release_weak(t) \/ deleteBlock(t) \/ try_lock(t) \/ make(t) \/ store(t)
PtrSpec == PtrInit /\ [][PtrNext]_ptrVars

(***************************************************************************)
(* Properties.                                                             *)
(***************************************************************************)
\* Whatever the threads do to pointers that share an object: no step counts
\* in a control block that is gone, deletes an object twice or stores into an
\* object that is gone.
TouchesOnlyLive ==
  \A t \in PtrThreads : todo[t] # << >> =>
    LET m == Head(todo[t]) IN
    CASE m.op = "destroy" -> object[m.x] = "live"
      [] m.op = "store" -> m.slot[1] = 0 => object[m.slot[2]] = "live"
      [] m.op \in {"make", "storeWeak"} -> TRUE
      [] OTHER -> block[m.x] = "live"

\* When no operation is under way, the counts are the pointers there are, an
\* object lives exactly while a strong pointer holds it, and its control
\* block while any pointer does: nothing leaks and nothing dangles.
ReclaimedExactly ==
  (\A t \in PtrThreads : todo[t] = << >>) =>
    \A x \in {o \in Objects : object[o] # "none"} :
      LET owners == Cardinality({s \in Slots : strongAt[s] = x})
          watchers == Cardinality({t \in PtrThreads : weakAt[t] = x})
      IN /\ (object[x] = "live") = (owners > 0)
         /\ ~Owned => /\ (block[x] = "live") = (owners + watchers > 0)
                      /\ block[x] = "live" => count[x].strong = owners

\* So objects and control blocks are deleted once, by the last that needs them.
DeletedByTheLast == TouchesOnlyLive /\ ReclaimedExactly
=============================================================================
