------------------------------- MODULE Pools -------------------------------
(***************************************************************************)
(* The memory pools of MemoryPool/core, StdMem and mystl/memory.  Two kinds *)
(* of bookkeeping: pools of equal blocks with a free list, and pools of one *)
(* area cut into a chain of blocks with headers, with or without an index  *)
(* by size.  Every operation is sequential or under the pool's mutex, so it *)
(* is one step; only the thread that calls it matters, and only to          *)
(* ThreadSafeMemoryPool, whose pools are per thread.  An allocation that    *)
(* fails changes nothing.  Callers free what they hold, once, and hold      *)
(* nothing after a reset; another thread may free what one allocated.       *)
(***************************************************************************)
EXTENDS Integers, Sequences, FiniteSets, FiniteSetsExt, SequencesExt, TLC

CONSTANTS Kinds,         \* which pools: FreeListKinds and ChainKinds
          PoolThreads, MainThread,  \* numbers of threads
          BlockCount,
          Initial, Expansion, MaxTotal,  \* StdMem: block counts
          MaxHeap,                       \* bound on blocks from malloc
          TotalSize, Header, Alignment, Requests  \* bytes

FreeListKinds == {"fixed", "fixedV2", "threadsafe", "mystl", "fixedSize", "allocator", "stdmem"}
ChainKinds == {"variable", "indexed"}

VARIABLES poolKind,
          lists,   \* the free lists: pool -> [free, n, used]; free starts with the next block
          chain,   \* the blocks in address order: [at, size, free]
          index,   \* m_size_index: class -> addresses of blocks
          usedSize,
          held,    \* [by, pool, at, n], what the callers have
          lost     \* the same, freed by a call that did nothing
poolsVars == <<poolKind, lists, chain, index, usedSize, held, lost>>
chainVars == <<chain, index, usedSize>>

Callers == IF poolKind \in {"threadsafe", "mystl", "stdmem"} THEN PoolThreads ELSE {MainThread}
Gets(t, p, b, n) == held' = held \cup {[by |-> t, pool |-> p, at |-> b, n |-> n]}
Listed(free) == [free |-> free, n |-> Len(free), used |-> 0]

(***************************************************************************)
(* Pools of equal blocks.                                                  *)
(***************************************************************************)
Ascending(n) == [i \in 1..n |-> i - 1]
\* The constructors link the blocks in address order; FixedMemoryPoolV2 takes
\* from the back of its vector; PoolAllocator links at the first allocation.
FixedMemoryPool == Listed(Ascending(BlockCount))
FixedMemoryPoolV2 == Listed(Reverse(Ascending(BlockCount)))
MemoryPool == Listed(Ascending(BlockCount))
FixedSizePool == Listed(Ascending(BlockCount))
MemoryBlock(n) == Listed(Ascending(n))
StdMem == <<MemoryBlock(Initial)>>
initialize_pool(p) == IF p.n = 0 THEN Listed(Ascending(BlockCount)) ELSE p
NoPool == Listed(<< >>)
\* get_local_pool: the pool of the calling thread, made at its first call.
get_local_pool(p) == IF p.n = 0 THEN FixedMemoryPool ELSE p

Constructed == CASE poolKind = "fixed" -> <<FixedMemoryPool>>
                 [] poolKind = "fixedV2" -> <<FixedMemoryPoolV2>>
                 [] poolKind = "threadsafe" -> [t \in PoolThreads |-> NoPool]
                 [] poolKind = "mystl" -> <<MemoryPool>>
                 [] poolKind = "fixedSize" -> <<FixedSizePool>>
                 [] poolKind = "allocator" -> <<NoPool>>
                 [] poolKind = "stdmem" -> StdMem
                 [] OTHER -> <<NoPool>>

Pop(p) == [p EXCEPT !.free = Tail(@), !.used = @ + 1]
Push(p, b) == [p EXCEPT !.free = <<b>> \o @, !.used = @ - 1]
Takes(t, i, p) ==
  /\ p.free # << >> /\ lists' = [lists EXCEPT ![i] = Pop(p)]
  /\ Gets(t, i, Head(p.free), 1) /\ UNCHANGED <<poolKind, chainVars, lost>>

FixedMemoryPool_allocate(t) == poolKind = "fixed" /\ Takes(t, 1, lists[1])
FixedMemoryPoolV2_allocate(t) == poolKind = "fixedV2" /\ Takes(t, 1, lists[1])
ThreadSafe_allocate(t) == poolKind = "threadsafe" /\ Takes(t, t, get_local_pool(lists[t]))
MemoryPool_allocate(t) == poolKind = "mystl" /\ Takes(t, 1, lists[1])
FixedSizePool_allocate(t) == poolKind = "fixedSize" /\ Takes(t, 1, lists[1])

\* PoolAllocator of mystl/memory: what is not one object, or does not fit, is
\* from MyAllocator, that is malloc, with its statistics in usedSize.
FreshHeap == CHOOSE a \in 1..MaxHeap : \A h \in held : h.pool = 0 => h.at # a
MyAllocator_allocate(t, n) ==
  /\ Cardinality({h \in held : h.pool = 0}) < MaxHeap
  /\ Gets(t, 0, FreshHeap, n) /\ usedSize' = usedSize + n
PoolAllocator_allocate(t, n) ==
  /\ poolKind = "allocator"
  /\ LET p == initialize_pool(lists[1])
     IN \/ n # 1 /\ MyAllocator_allocate(t, n) /\ UNCHANGED <<poolKind, lists, chain, index, lost>>
        \/ n = 1 /\ Takes(t, 1, p)
        \/ /\ n = 1 /\ (p.used >= BlockCount \/ p.free = << >>) /\ MyAllocator_allocate(t, n)
           /\ lists' = [lists EXCEPT ![1] = p] /\ UNCHANGED <<poolKind, chain, index, lost>>

\* MemoryPool of StdMem: the first MemoryBlock with a free block, or a new one.
Total == MapThenSumSet(LAMBDA i : lists[i].n, DOMAIN lists)
FreeTotal == MapThenSumSet(LAMBDA i : Len(lists[i].free), DOMAIN lists)
Fewer(a, b) == IF a < b THEN a ELSE b
additional(n) == Fewer(n, MaxTotal - Total)
expandPool(n) == Append(lists, MemoryBlock(additional(n)))
StdMem_allocate(t) ==
  /\ poolKind = "stdmem"
  /\ \/ \E i \in DOMAIN lists : (\A j \in 1..(i - 1) : lists[j].free = << >>) /\ Takes(t, i, lists[i])
     \/ /\ FreeTotal = 0 /\ Len(lists) < MaxTotal /\ additional(Expansion) > 0
        /\ LET grown == expandPool(Expansion)
               k == Len(grown)
           IN lists' = [grown EXCEPT ![k] = Pop(@)] /\ Gets(t, k, 0, 1)
        /\ UNCHANGED <<poolKind, chainVars, lost>>
preallocate(n) ==
  /\ poolKind = "stdmem" /\ FreeTotal < n /\ additional(n - FreeTotal) > 0
  /\ lists' = expandPool(n - FreeTotal)
  /\ UNCHANGED <<poolKind, chainVars, held, lost>>
\* isEmpty, as the callers see it.
isEmpty == \A i \in DOMAIN lists : Len(lists[i].free) = lists[i].n

\* deallocate, by thread u, of what h says.  A pool ignores a pointer that is
\* not its own, which is what another thread's block is to a local pool.
\* MUTANT: without the test.
owns_anything(i, h) == TRUE
owns(i, h) == h.pool = i
Returns(i, p, h) ==
  /\ IF owns(i, h) THEN lists' = [lists EXCEPT ![i] = Push(p, h.at)] /\ UNCHANGED lost
     ELSE lists' = [lists EXCEPT ![i] = p] /\ lost' = lost \cup {h}
  /\ UNCHANGED chainVars
FixedMemoryPool_deallocate(h) == poolKind = "fixed" /\ Returns(1, lists[1], h)
FixedMemoryPoolV2_deallocate(h) == poolKind = "fixedV2" /\ Returns(1, lists[1], h)
ThreadSafe_deallocate(u, h) == poolKind = "threadsafe" /\ Returns(u, get_local_pool(lists[u]), h)
MemoryPool_deallocate(h) == poolKind = "mystl" /\ Returns(1, lists[1], h)
FixedSizePool_deallocate(h) == poolKind = "fixedSize" /\ Returns(1, lists[1], h)
MyAllocator_deallocate(h) == usedSize' = usedSize - h.n /\ UNCHANGED <<lists, chain, index, lost>>
PoolAllocator_deallocate(h) ==
  poolKind = "allocator" /\ IF h.pool = 0 THEN MyAllocator_deallocate(h) ELSE Returns(1, lists[1], h)
findBlockContaining(h) == CHOOSE i \in DOMAIN lists : i = h.pool
MemoryBlock_deallocate(i, h) == Returns(i, lists[i], h)
StdMem_deallocate(h) == poolKind = "stdmem" /\ MemoryBlock_deallocate(findBlockContaining(h), h)

(***************************************************************************)
(* A chain of blocks.  The first block is the whole area, and its header   *)
(* comes on top: the payloads go to TotalSize + Header.                    *)
(***************************************************************************)
Whole == <<[at |-> 0, size |-> TotalSize, free |-> TRUE]>>
align_up(n) == ((n + Alignment - 1) \div Alignment) * Alignment
Payload(b) == b.at + Header
Splits(b, size) == b.size >= size + Header + Alignment
Split(b, size) == <<[b EXCEPT !.size = size],
                    [at |-> b.at + Header + size, size |-> b.size - size - Header, free |-> TRUE]>>
Replace(i, j, blocks) == SubSeq(chain, 1, i - 1) \o blocks \o SubSeq(chain, j + 1, Len(chain))
Joined(i, j) == [chain[i] EXCEPT !.free = TRUE,
                   !.size = MapThenSumSet(LAMBDA k : chain[k].size, i..j) + (j - i) * Header]
Position(at) == CHOOSE i \in DOMAIN chain : chain[i].at = at

\* Block i of the chain becomes the caller's, cut if it is large enough.
Cuts(t, i, size) ==
  LET b == chain[i]
      blocks == IF Splits(b, size) THEN Split(b, size) ELSE <<b>>
  IN /\ chain' = Replace(i, i, [blocks EXCEPT ![1].free = FALSE])
     /\ usedSize' = usedSize + blocks[1].size
     /\ Gets(t, 1, b.at, blocks[1].size) /\ UNCHANGED <<poolKind, lists, lost>>
\* The first block that fits.
VariableMemoryPool_allocate(t, n) ==
  /\ poolKind = "variable"
  /\ LET fitting == {i \in DOMAIN chain : chain[i].free /\ chain[i].size >= align_up(n)}
     IN fitting # {} /\ Cuts(t, Min(fitting), align_up(n))
  /\ UNCHANGED index
\* merge: with the block before, then with the one after.
\* MUTANT: not with the one before.
merge_forward(i) == <<i, IF i < Len(chain) /\ chain[i + 1].free THEN i + 1 ELSE i>>
merge(i) == <<IF i > 1 /\ chain[i - 1].free THEN i - 1 ELSE i,
              IF i < Len(chain) /\ chain[i + 1].free THEN i + 1 ELSE i>>
\* owns: the payload must start inside the area.
InArea(b) == Payload(b) < TotalSize
VariableMemoryPool_deallocate(h) ==
  /\ poolKind = "variable"
  /\ LET i == Position(h.at)
         m == merge(i)
     IN IF ~InArea(chain[i]) THEN lost' = lost \cup {h} /\ UNCHANGED <<chain, usedSize>>
        ELSE /\ chain' = Replace(m[1], m[2], <<Joined(m[1], m[2])>>)
             /\ usedSize' = usedSize - chain[i].size /\ UNCHANGED lost
  /\ UNCHANGED <<lists, index>>

\* IndexedMemoryPool: 8, 16 and so on to 1 MB; above, a class of its own.
SizeClasses == {2^i : i \in 3..20}
get_size_class(size) == LET fit == {c \in SizeClasses : c >= size} IN IF fit = {} THEN size ELSE Min(fit)
NoIndex == << >>
add_to_free_index(ix, b) ==
  LET c == get_size_class(b.size)
  IN (c :> ({b.at} \cup IF c \in DOMAIN ix THEN ix[c] ELSE {})) @@ ix
remove_from_free_index(ix, b) ==
  LET c == get_size_class(b.size)
      left == ix[c] \ {b.at}
  IN [d \in {e \in DOMAIN ix : e # c \/ left # {}} |-> IF d = c THEN left ELSE ix[d]]
\* The first class from the one of the size on with a block that fits, and in
\* it the block with the lowest address; 0 for none, else a position.
find_best_fit(size) ==
  LET fits(c) == {i \in DOMAIN chain : chain[i].at \in index[c] /\ chain[i].size >= size}
      classes == {c \in DOMAIN index : c >= get_size_class(size) /\ fits(c) # {}}
  IN IF classes = {} THEN 0 ELSE Min(fits(Min(classes)))
split_block(ix, b, size) == IF Splits(b, size) THEN add_to_free_index(ix, Split(b, size)[2]) ELSE ix
IndexedMemoryPool_allocate(t, n) ==
  LET size == align_up(n)
      i == find_best_fit(size)
  IN /\ poolKind = "indexed" /\ i # 0 /\ Cuts(t, i, size)
     /\ index' = split_block(remove_from_free_index(index, chain[i]), chain[i], size)
\* The run of free blocks around i.
merge_with_neighbors(i) ==
  <<Min({j \in 1..i : \A k \in j..(i - 1) : chain[k].free}),
    Max({j \in i..Len(chain) : \A k \in (i + 1)..j : chain[k].free})>>
merged_index(i, m) == FoldSeq(LAMBDA b, ix : remove_from_free_index(ix, b), index,
                              SubSeq(chain, m[1], i - 1) \o SubSeq(chain, i + 1, m[2]))
IndexedMemoryPool_deallocate(h) ==
  /\ poolKind = "indexed"
  /\ LET i == Position(h.at)
         m == merge_with_neighbors(i)
     IN IF ~InArea(chain[i]) THEN lost' = lost \cup {h} /\ UNCHANGED chainVars
        ELSE /\ chain' = Replace(m[1], m[2], <<Joined(m[1], m[2])>>)
             /\ index' = add_to_free_index(merged_index(i, m), Joined(m[1], m[2]))
             /\ usedSize' = usedSize - chain[i].size /\ UNCHANGED lost
  /\ UNCHANGED lists

\* defragment: every run of free blocks becomes one; the index is made anew.
Squeezed == FoldLeft(LAMBDA done, b : IF done # << >> /\ Last(done).free /\ b.free
                                      THEN Append(Front(done), [Last(done) EXCEPT !.size = @ + Header + b.size])
                                      ELSE Append(done, b), << >>, chain)
Rebuilt(blocks) == FoldLeft(LAMBDA ix, b : IF b.free THEN add_to_free_index(ix, b) ELSE ix, NoIndex, blocks)
VariableMemoryPool_defragment ==
  poolKind = "variable" /\ chain' = Squeezed /\ UNCHANGED <<poolKind, lists, index, usedSize, held, lost>>
IndexedMemoryPool_defragment ==
  /\ poolKind = "indexed" /\ chain' = Squeezed /\ index' = Rebuilt(Squeezed)
  /\ UNCHANGED <<poolKind, lists, usedSize, held, lost>>

(***************************************************************************)
(* reset, where a pool has it: all blocks are free again.                  *)
(***************************************************************************)
Forgotten == held' = {} /\ lost' = {} /\ UNCHANGED poolKind
FixedMemoryPool_reset == poolKind = "fixed" /\ lists' = <<FixedMemoryPool>> /\ UNCHANGED chainVars
FixedMemoryPoolV2_reset == poolKind = "fixedV2" /\ lists' = <<FixedMemoryPoolV2>> /\ UNCHANGED chainVars
ThreadSafe_reset == /\ poolKind = "threadsafe" /\ UNCHANGED chainVars
                    /\ lists' = [t \in PoolThreads |-> IF lists[t].n = 0 THEN NoPool ELSE FixedMemoryPool]
MemoryBlock_reset(block) == Listed(Ascending(block.n))
StdMem_reset == /\ poolKind = "stdmem" /\ UNCHANGED chainVars
                /\ lists' = [i \in DOMAIN lists |-> MemoryBlock_reset(lists[i])]
VariableMemoryPool_reset == /\ poolKind = "variable" /\ chain' = Whole /\ usedSize' = 0
                            /\ UNCHANGED <<lists, index>>
IndexedMemoryPool_reset == /\ poolKind = "indexed" /\ chain' = Whole /\ usedSize' = 0
                           /\ index' = add_to_free_index(NoIndex, Whole[1]) /\ UNCHANGED lists
reset == /\ Forgotten
         /\ \/ FixedMemoryPool_reset \/ FixedMemoryPoolV2_reset \/ ThreadSafe_reset
            \/ StdMem_reset \/ VariableMemoryPool_reset \/ IndexedMemoryPool_reset

PoolsInit ==
  /\ poolKind \in Kinds /\ lists = Constructed
  /\ chain = IF poolKind \in ChainKinds THEN Whole ELSE << >>
  /\ index = IF poolKind = "indexed" THEN add_to_free_index(NoIndex, Whole[1]) ELSE NoIndex
  /\ usedSize = 0 /\ held = {} /\ lost = {}

allocate(t) ==
  \/ FixedMemoryPool_allocate(t) \/ FixedMemoryPoolV2_allocate(t) \/ ThreadSafe_allocate(t)
  \/ MemoryPool_allocate(t) \/ FixedSizePool_allocate(t) \/ StdMem_allocate(t)
  \/ \E n \in 1..2 : PoolAllocator_allocate(t, n)
  \/ \E n \in Requests : VariableMemoryPool_allocate(t, n) \/ IndexedMemoryPool_allocate(t, n)
deallocate(u, h) ==
  /\ held' = held \ {h} /\ UNCHANGED poolKind
  /\ \/ FixedMemoryPool_deallocate(h) \/ FixedMemoryPoolV2_deallocate(h) \/ ThreadSafe_deallocate(u, h)
     \/ MemoryPool_deallocate(h) \/ FixedSizePool_deallocate(h) \/ StdMem_deallocate(h)
     \/ PoolAllocator_deallocate(h) \/ VariableMemoryPool_deallocate(h) \/ IndexedMemoryPool_deallocate(h)
PoolsNext ==
  \/ \E t \in Callers : allocate(t) \/ \E h \in held : deallocate(t, h)
  \/ \E n \in 1..MaxTotal : preallocate(n)
  \/ reset \/ VariableMemoryPool_defragment \/ IndexedMemoryPool_defragment
PoolsSpec == PoolsInit /\ [][PoolsNext]_poolsVars

(***************************************************************************)
(* Properties.                                                             *)
(***************************************************************************)
Out(i) == {h.at : h \in {g \in held \cup lost : g.pool = i}}
\* A block of a free list is in one place: once on the list, or with one
\* caller, or freed where nobody took it back; the counters say so too, StdMem
\* never has more blocks than its limit, and malloc's bytes are accounted for.
BlocksAccounted == poolKind \in FreeListKinds =>
  /\ \A i \in DOMAIN lists : LET p == lists[i] IN
       /\ IsInjective(p.free) /\ ToSet(p.free) \cap Out(i) = {}
       /\ ToSet(p.free) \cup Out(i) = 0..(p.n - 1) /\ p.used = Cardinality(Out(i))
       /\ Cardinality({h \in held \cup lost : h.pool = i}) = Cardinality(Out(i))
  /\ poolKind = "stdmem" => Total <= MaxTotal /\ (isEmpty <=> held = {})
  /\ poolKind = "allocator" => usedSize = MapThenSumSet(LAMBDA h : h.n, {h \in held : h.pool = 0})

\* The blocks of a chain lie side by side from the start of the area, no two
\* free ones together; the others are the callers', with the size they were
\* given; and the index has exactly the free blocks, each in its class.
BlocksTile == poolKind \in ChainKinds =>
  /\ chain[1].at = 0 /\ Payload(Last(chain)) + Last(chain).size = TotalSize + Header
  /\ \A i \in 1..(Len(chain) - 1) : /\ chain[i + 1].at = Payload(chain[i]) + chain[i].size
                                    /\ ~(chain[i].free /\ chain[i + 1].free)
  /\ {<<b.at, b.size>> : b \in {c \in ToSet(chain) : ~c.free}} = {<<h.at, h.n>> : h \in held \cup lost}
  /\ usedSize = MapThenSumSet(LAMBDA h : h.n, held \cup lost)
  /\ poolKind = "indexed" => index = Rebuilt(chain)

\* The indexed pool refuses a request only when no free block is large enough,
\* and otherwise finds a free block that is.
FitIsFound == poolKind = "indexed" => \A n \in Requests :
  LET i == find_best_fit(align_up(n))
      fits == {k \in DOMAIN chain : chain[k].free /\ chain[k].size >= align_up(n)}
  IN IF fits = {} THEN i = 0 ELSE i \in fits

\* The area has room for TotalSize bytes after its first header, but owns()
\* ends it at TotalSize: of what is freed, only the last block can be refused,
\* when its payload begins there or later, and then it is out until reset.
OnlyTheTailIsLost == poolKind \in ChainKinds =>
  \A h \in lost : h.at = Last(chain).at /\ h.at + Header >= TotalSize

\* Splitting, merging and indexing keep the area tiled and every block that
\* would serve a request findable; freeing loses no block but that last one.
ChainIsSound == BlocksTile /\ FitIsFound /\ OnlyTheTailIsLost
=============================================================================
