------------------------------ MODULE MCMemory ------------------------------
(***************************************************************************)
(* The libraries that own memory or threads, one of them at a time: the    *)
(* network Buffer, the lock-free IndexedMemPool, the memory pools, the     *)
(* smart pointers, the containers and the managed thread pool.  `member'   *)
(* says which one a behaviour is about; the others stay as they began.     *)
(***************************************************************************)
EXTENDS Buffer

VARIABLES member,
          size_, localNext, globalNext, local_, globalHead_, slotPc, h, gh, next, idx, owned, ops,
          poolKind, lists, chain, index, usedSize, held, lost,
          ptrKind, strongAt, weakAt, count, object, block, todo,
          container, rep, wanted, misused,
          m_task_queue, m_queue_mutex, waiting, busy, idle, exit, m_is_shutdown, m_workers,
          m_thread_ids, pc, task, manager, seen, owner, added

\* Two threads on one stripe; new, or all slots used once.
Slot == INSTANCE IndexedMemPool WITH
          pc <- slotPc, Threads <- {"t1", "t2"}, Lists <- {"l1"}, Stripe <- [t \in {"t1", "t2"} |-> "l1"],
          Capacity <- 3, LocalListLimit <- 2, MaxOps <- 7
Pool == INSTANCE Pools WITH
          Kinds <- {"fixed", "fixedV2", "threadsafe", "mystl", "fixedSize", "allocator", "stdmem", "variable", "indexed"},
          PoolThreads <- {1, 2}, MainThread <- 1, BlockCount <- 3, Initial <- 2, Expansion <- 2, MaxTotal <- 5,
          MaxHeap <- 2, TotalSize <- 256, Header <- 32, Alignment <- 16, Requests <- {1, 40, 64}
Ptr == INSTANCE SmartPtr WITH
          PtrKinds <- {"shared", "weak", "unique", "array"}, PtrThreads <- {1, 2}, Objects <- {1, 2}
Cont == INSTANCE Containers WITH
          Containers <- {"ring", "list", "vector", "array", "chunked", "bst"}, Values <- 1..4, MaxLength <- 4,
          InitialCapacity <- 2, CHUNK_SIZE <- 2, MaxChunks <- 3
Managed == INSTANCE ManagedPool WITH
          Threads <- {"w1", "w2", "w3"}, Tasks <- {"t1", "t2"}, m_min_thread_num <- 1, m_max_thread_num <- 2

slotVars == <<size_, localNext, globalNext, local_, globalHead_, slotPc, h, gh, next, idx, owned, ops>>
poolVars == <<poolKind, lists, chain, index, usedSize, held, lost>>
ptrVars == <<ptrKind, strongAt, weakAt, count, object, block, todo>>
contVars == <<container, rep, wanted, misused>>
managedVars == <<m_task_queue, m_queue_mutex, waiting, busy, idle, exit, m_is_shutdown, m_workers,
                 m_thread_ids, pc, task, manager, seen, owner, added>>

MemoryInit ==
  /\ member \in {"buffer", "slots", "pool", "pointer", "container", "managed"}
  /\ Init
  /\ Slot!Init \/ (member = "slots" /\ Slot!UsedInit("t1"))
  /\ member # "pool" => poolKind = "fixed"
  /\ Pool!PoolsInit
  /\ member # "pointer" => ptrKind = "shared"
  /\ Ptr!PtrInit
  /\ member # "container" => container = "ring"
  /\ Cont!ContainerInit
  /\ Managed!Init

MemoryNext ==
  /\ UNCHANGED member
  /\ \/ member = "buffer" /\ Next /\ UNCHANGED <<slotVars, poolVars, ptrVars, contVars, managedVars>>
     \/ member = "slots" /\ Slot!Next /\ UNCHANGED <<vars, poolVars, ptrVars, contVars, managedVars>>
     \/ member = "pool" /\ Pool!PoolsNext /\ UNCHANGED <<vars, slotVars, ptrVars, contVars, managedVars>>
     \/ member = "pointer" /\ Ptr!PtrNext /\ UNCHANGED <<vars, slotVars, poolVars, contVars, managedVars>>
     \/ member = "container" /\ Cont!ContainerNext /\ UNCHANGED <<vars, slotVars, poolVars, ptrVars, managedVars>>
     \/ member = "managed" /\ Managed!Next /\ UNCHANGED <<vars, slotVars, poolVars, ptrVars, contVars>>

MemorySpec == MemoryInit /\ [][MemoryNext]_<<member, vars, slotVars, poolVars, ptrVars, contVars, managedVars>>

\* Between its compare-exchanges the lock-free pool of StdIndexedMemPool.h
\* never gives an index out twice or loses one, and its sizes are exact.
SlotsAccounted == member = "slots" => Slot!SlotsAccounted
\* Every block of the fixed-size pools, and of malloc, is free or out, once.
BlocksAccounted == member = "pool" => Pool!BlocksAccounted
\* The variable-size pools split, merge and index their blocks without missing
\* one that fits; free() takes every block back but a last one whose payload
\* begins where owns() says the area ends.
ChainIsSound == member = "pool" => Pool!ChainIsSound
\* The smart pointers delete object and control block once, by the last that
\* needs them, whatever two threads do with theirs.
DeletedByTheLast == member = "pointer" => Ptr!DeletedByTheLast
\* A container shows exactly the elements that its calls have put into it, but
\* for the chunked Deque once it has grown at its front and DynamicArray once
\* reserve has asked for less than its size.
ShowsItsElements == member = "container" => Cont!ShowsItsElements
\* The managed pool's unlocked counters, maximum and thread map stay true, and
\* its destructor leaves at most one worker unjoined.
WorkersAccounted == member = "managed" => Managed!WorkersAccounted
=============================================================================
