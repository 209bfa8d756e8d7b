----------------------------- MODULE Containers -----------------------------
(***************************************************************************)
(* mystl/containers: the ring-buffer Deque (deque.cpp), the chunked Deque   *)
(* (deque_v2.cpp), the List (list.cpp), MyVector (vector_v2.cpp),           *)
(* DynamicArray (dynamic_array.cpp) and BST (bst.cpp), each as it lays its  *)
(* elements out, beside the sequence its calls ask for.                     *)
(***************************************************************************)
EXTENDS Integers, Sequences, FiniteSets, SequencesExt

CONSTANTS Containers,       \* of "ring", "chunked", "list", "vector", "array", "bst"
          Values,           \* element values and keys, numbers
          MaxLength,        \* elements at a time
          InitialCapacity,  \* of the ring buffer
          CHUNK_SIZE, MaxChunks

VARIABLES container, rep, wanted,
          misused  \* history: a call has been made that the container does not survive
containerVars == <<container, rep, wanted, misused>>
(***************************************************************************)
(* Deque on a ring buffer: [buffer, capacity, front, back, count].         *)
(***************************************************************************)
NewRing == [buffer |-> [i \in 0..InitialCapacity - 1 |-> 0], capacity |-> InitialCapacity, front |-> 0, back |-> 0, count |-> 0]
At(r, pos) == r.buffer[(r.front + pos) % r.capacity]
resizeRing(r, n) ==
  [r EXCEPT !.buffer = [i \in 0..n - 1 |-> IF i < r.count THEN At(r, i) ELSE 0],
            !.capacity = n, !.front = 0, !.back = r.count]
roomy(r) == IF r.count = r.capacity THEN resizeRing(r, r.capacity * 2) ELSE r
Before(r, i) == IF i = 0 THEN r.capacity - 1 ELSE i - 1
ring_push_front(r0, v) ==
  LET r == roomy(r0)
      i == Before(r, r.front)
  IN [r EXCEPT !.front = i, !.buffer[i] = v, !.count = @ + 1]
\* MUTANT: the full buffer is not unrolled when it grows.
ring_push_back_in_place(r0, v) ==
  LET grown == [r0 EXCEPT !.buffer = [i \in 0..2 * r0.capacity - 1 |-> IF i < r0.capacity THEN r0.buffer[i] ELSE 0],
                          !.capacity = 2 * @, !.back = r0.capacity]
      r == IF r0.count = r0.capacity THEN grown ELSE r0
  IN [r EXCEPT !.buffer[r.back] = v, !.back = (@ + 1) % r.capacity, !.count = @ + 1]
ring_push_back(r0, v) ==
  LET r == roomy(r0)
  IN [r EXCEPT !.buffer[r.back] = v, !.back = (@ + 1) % r.capacity, !.count = @ + 1]
\* A cell given up is cleared: its old value is not told apart.
ring_pop_front(r) == [r EXCEPT !.buffer[r.front] = 0, !.front = (@ + 1) % r.capacity, !.count = @ - 1]
ring_pop_back(r) == [r EXCEPT !.buffer[Before(r, r.back)] = 0, !.back = Before(r, @), !.count = @ - 1]
\* What the iterators, front() and back() show.
ring_shows(r, s) ==
  /\ r.count = Len(s) /\ \A i \in 1..r.count : At(r, i - 1) = s[i]
  /\ r.count > 0 => r.buffer[r.front] = s[1] /\ r.buffer[Before(r, r.back)] = Last(s)

(***************************************************************************)
(* Deque on chunks: [chunks, frontChunk, frontOffset, backChunk,           *)
(* backOffset, count].                                                     *)
(***************************************************************************)
Chunk == [i \in 0..CHUNK_SIZE - 1 |-> 0]
NewChunked == [chunks |-> <<Chunk>>, frontChunk |-> 0, frontOffset |-> CHUNK_SIZE \div 2,
               backChunk |-> 0, backOffset |-> CHUNK_SIZE \div 2, count |-> 0]
\* The index of the last chunk is kept although the chunks behind the new one
\* have moved, and the last place of the new one stays empty.
expand_front(r) == [r EXCEPT !.chunks = InsertAt(@, r.frontChunk + 1, Chunk), !.frontOffset = CHUNK_SIZE - 1]
expand_back(r) == [r EXCEPT !.chunks = InsertAt(@, r.backChunk + 2, Chunk), !.backChunk = @ + 1, !.backOffset = 0]
chunked_push_front(r0, v) ==
  LET r == IF r0.frontOffset = 0 THEN expand_front(r0) ELSE r0
  IN [r EXCEPT !.frontOffset = @ - 1, !.chunks[r.frontChunk + 1][r.frontOffset - 1] = v, !.count = @ + 1]
chunked_push_back(r0, v) ==
  LET r == IF r0.backOffset = CHUNK_SIZE THEN expand_back(r0) ELSE r0
  IN [r EXCEPT !.backOffset = @ + 1, !.chunks[r.backChunk + 1][r.backOffset] = v, !.count = @ + 1]
chunked_pop_front(r0) ==
  LET r == [r0 EXCEPT !.chunks[r0.frontChunk + 1][r0.frontOffset] = 0, !.count = @ - 1]
  IN IF r.frontOffset + 1 = CHUNK_SIZE THEN [r EXCEPT !.frontOffset = 0, !.frontChunk = @ + 1]
     ELSE [r EXCEPT !.frontOffset = @ + 1]
chunked_pop_back(r0) ==
  LET r == IF r0.backOffset = 0 THEN [r0 EXCEPT !.backChunk = @ - 1, !.backOffset = CHUNK_SIZE - 1]
           ELSE [r0 EXCEPT !.backOffset = @ - 1]
  IN [r EXCEPT !.chunks[r.backChunk + 1][r.backOffset] = 0, !.count = @ - 1]
\* operator[], and the Iterator, which goes from begin() to end() unless the last
\* chunk is full: ++ then steps over end() to the start of a next chunk.
Absolute(chunk, offset) == chunk * CHUNK_SIZE + offset
chunked_shows(r, s) ==
  LET begin == Absolute(r.frontChunk, r.frontOffset)
  IN /\ r.count = Len(s)
     /\ \A i \in 1..r.count : LET at == r.frontOffset + i - 1
                                  chunk == r.frontChunk + at \div CHUNK_SIZE
                              IN chunk < Len(r.chunks) /\ r.chunks[chunk + 1][at % CHUNK_SIZE] = s[i]
     /\ r.backOffset < CHUNK_SIZE => begin + r.count = Absolute(r.backChunk, r.backOffset)

(***************************************************************************)
(* List: a circle of nodes through the dummy node 0; a node is new if it   *)
(* is linked to nothing.                                                   *)
(***************************************************************************)
Nodes == 1..MaxLength
NewList == [prev |-> [n \in {0} \cup Nodes |-> IF n = 0 THEN 0 ELSE -1], next |-> [n \in {0} \cup Nodes |-> IF n = 0 THEN 0 ELSE -1],
            data |-> [n \in Nodes |-> 0], size |-> 0]
list_insert(r, p, v) ==
  LET n == CHOOSE m \in Nodes : r.next[m] = -1
      before == r.prev[p]
  IN [r EXCEPT !.data[n] = v, !.prev[n] = before, !.next[n] = p, !.next[before] = n, !.prev[p] = n, !.size = @ + 1]
list_erase(r, p) ==
  IF p = 0 THEN r
  ELSE [r EXCEPT !.next = [@ EXCEPT ![r.prev[p]] = r.next[p], ![p] = -1],
                 !.prev = [@ EXCEPT ![r.next[p]] = r.prev[p], ![p] = -1], !.data[p] = 0, !.size = @ - 1]
list_push_front(r, v) == list_insert(r, r.next[0], v)
list_push_back(r, v) == list_insert(r, 0, v)
list_pop_front(r) == list_erase(r, r.next[0])
list_pop_back(r) == list_erase(r, r.prev[0])
RECURSIVE Follow(_, _, _)
Follow(step, n, k) == IF k = 0 THEN n ELSE Follow(step, step[n], k - 1)
\* Iterators forward and backward, each once around the circle.
list_shows(r, s) ==
  /\ r.size = Len(s) /\ Follow(r.next, 0, r.size + 1) = 0 /\ Follow(r.prev, 0, r.size + 1) = 0
  /\ \A i \in 1..r.size : r.data[Follow(r.next, 0, i)] = s[i] /\ r.data[Follow(r.prev, 0, i)] = s[r.size + 1 - i]

(***************************************************************************)
(* MyVector and DynamicArray: [data, size, capacity], data as allocated.   *)
(***************************************************************************)
Allocated(data, n) == [i \in 0..n - 1 |-> IF i \in DOMAIN data THEN data[i] ELSE 0]
NewVector == [data |-> Allocated(<< >>, 0), size |-> 0, capacity |-> 0]
vector_reserve(r, n) == IF n > r.capacity THEN [r EXCEPT !.data = Allocated(@, n), !.capacity = n] ELSE r
vector_push_back(r0, v) ==
  LET r == IF r0.size = r0.capacity THEN vector_reserve(r0, IF r0.capacity = 0 THEN 1 ELSE 2 * r0.capacity) ELSE r0
  IN [r EXCEPT !.data[r.size] = v, !.size = @ + 1]
vector_pop_back(r) == IF r.size > 0 THEN [r EXCEPT !.size = @ - 1] ELSE r

NewArray == [data |-> Allocated(<< >>, 2), size |-> 0, capacity |-> 2]
array_resize(r, n) == IF n > r.capacity THEN [r EXCEPT !.data = Allocated(@, n), !.capacity = n] ELSE r
fitting(r) == IF r.size = r.capacity THEN array_resize(r, 2 * r.capacity) ELSE r
array_add(r0, v) == LET r == fitting(r0) IN [r EXCEPT !.data[r.size] = v, !.size = @ + 1]
array_insert(r0, index, v) ==
  LET r == fitting(r0)
  IN [r EXCEPT !.data = [i \in DOMAIN @ |-> CASE i = index -> v [] i > index /\ i <= r.size -> @[i - 1] [] OTHER -> @[i]],
               !.size = @ + 1]
array_erase(r, index) ==
  [r EXCEPT !.data = [i \in DOMAIN @ |-> IF i >= index /\ i < r.size - 1 THEN @[i + 1] ELSE @[i]], !.size = @ - 1]
array_remove(r, index) == array_erase(r, index)
array_set(r, index, v) == [r EXCEPT !.data[index] = v]
array_clear(r) == [r EXCEPT !.size = 0]
\* The capacity is set to what was asked for even if it was larger.
array_reserve(r, n) == [array_resize(r, n) EXCEPT !.capacity = n]
array_shows(r, s) == r.size = Len(s) /\ \A i \in 1..r.size : i - 1 \in DOMAIN r.data /\ r.data[i - 1] = s[i]

(***************************************************************************)
(* BST: << >>, or <<left, key, right>>.                                    *)
(***************************************************************************)
RECURSIVE insert(_, _)
insert(node, key) ==
  IF node = << >> THEN << << >>, key, << >> >>
  ELSE CASE key < node[2] -> [node EXCEPT ![1] = insert(@, key)]
         [] key > node[2] -> [node EXCEPT ![3] = insert(@, key)]
         [] OTHER -> node
RECURSIVE leftmost(_)
leftmost(node) == IF node[1] = << >> THEN node[2] ELSE leftmost(node[1])
RECURSIVE deleteNode(_, _)
deleteNode(node, key) ==
  IF node = << >> THEN node
  ELSE CASE key < node[2] -> [node EXCEPT ![1] = deleteNode(@, key)]
         [] key > node[2] -> [node EXCEPT ![3] = deleteNode(@, key)]
         [] OTHER -> CASE node[1] = << >> -> node[3]
                       [] node[3] = << >> -> node[1]
                       [] OTHER -> LET successor == leftmost(node[3])
                                   IN <<node[1], successor, deleteNode(node[3], successor)>>
RECURSIVE search(_, _)
search(node, key) ==
  node # << >> /\ (key = node[2] \/ search(IF key < node[2] THEN node[1] ELSE node[3], key))
bst_shows(node, s) == \A key \in Values : search(node, key) = Contains(s, key)

(***************************************************************************)
(* The calls, each with the sequence it asks for.                          *)
(***************************************************************************)
ContainerInit ==
  /\ container \in Containers /\ wanted = << >> /\ misused = FALSE
  /\ rep = CASE container = "ring" -> NewRing [] container = "chunked" -> NewChunked [] container = "list" -> NewList
             [] container = "vector" -> NewVector [] container = "array" -> NewArray [] container = "bst" -> << >>
Turns(r, s, wrong) == rep' = r /\ wanted' = s /\ misused' = (misused \/ wrong) /\ UNCHANGED container
Becomes(r, s) == Turns(r, s, FALSE)
Room == Len(wanted) < MaxLength
Ring(v) ==
  /\ container = "ring"
  /\ \/ Room /\ (Becomes(ring_push_front(rep, v), <<v>> \o wanted) \/ Becomes(ring_push_back(rep, v), Append(wanted, v)))
     \/ wanted # << >> /\ (Becomes(ring_pop_front(rep), Tail(wanted)) \/ Becomes(ring_pop_back(rep), Front(wanted)))
\* What the calls do to a container that was misused is not followed.
Chunked(v) ==
  /\ container = "chunked" /\ ~misused
  /\ \/ /\ Room /\ (rep.frontOffset = 0 => Len(rep.chunks) < MaxChunks)
        /\ Turns(chunked_push_front(rep, v), <<v>> \o wanted, rep.frontOffset = 0)
     \/ Room /\ Len(rep.chunks) < MaxChunks /\ Becomes(chunked_push_back(rep, v), Append(wanted, v))
     \/ wanted # << >> /\ (Becomes(chunked_pop_front(rep), Tail(wanted)) \/ Becomes(chunked_pop_back(rep), Front(wanted)))
Listed(v) ==
  /\ container = "list"
  /\ \/ Room /\ (Becomes(list_push_front(rep, v), <<v>> \o wanted) \/ Becomes(list_push_back(rep, v), Append(wanted, v)))
     \/ wanted # << >> /\ (Becomes(list_pop_front(rep), Tail(wanted)) \/ Becomes(list_pop_back(rep), Front(wanted)))
     \/ \E i \in 1..Len(wanted) :
          LET p == Follow(rep.next, 0, i)
          IN (Room /\ Becomes(list_insert(rep, p, v), InsertAt(wanted, i, v))) \/ Becomes(list_erase(rep, p), RemoveAt(wanted, i))
Vector(v) ==
  /\ container = "vector"
  /\ (Room /\ Becomes(vector_push_back(rep, v), Append(wanted, v)))
     \/ Becomes(vector_pop_back(rep), IF wanted = << >> THEN wanted ELSE Front(wanted))
Array(v) ==
  /\ container = "array" /\ ~misused
  /\ \/ Room /\ Becomes(array_add(rep, v), Append(wanted, v))
     \/ \E i \in 1..Len(wanted) + 1 : Room /\ Becomes(array_insert(rep, i - 1, v), InsertAt(wanted, i, v))
     \/ \E i \in 1..Len(wanted) : \/ Becomes(array_remove(rep, i - 1), RemoveAt(wanted, i))
                                  \/ Becomes(array_set(rep, i - 1, v), [wanted EXCEPT ![i] = v])
     \/ Becomes(array_clear(rep), << >>)
     \/ \E n \in 1..MaxLength : Turns(array_reserve(rep, n), wanted, n < Len(wanted))
Tree(v) ==
  /\ container = "bst"
  /\ Becomes(insert(rep, v), IF Contains(wanted, v) THEN wanted ELSE Append(wanted, v))
     \/ Becomes(deleteNode(rep, v), Remove(wanted, v))
ContainerNext == \E v \in Values : Ring(v) \/ Chunked(v) \/ Listed(v) \/ Vector(v) \/ Array(v) \/ Tree(v)
ContainerSpec == ContainerInit /\ [][ContainerNext]_containerVars

\* After any calls but two, growing and wrapping around included, a container's
\* accessors and iterators show exactly the elements that are in it, in their
\* order.  The two it does not survive: push_front on the chunked Deque when its
\* first chunk is full at the front (expand_front leaves a gap and a stale
\* back_chunk), and DynamicArray's reserve below its size (add then writes
\* behind the memory that reserve says there is).
ShowsItsElements == ~misused =>
  CASE container = "ring" -> ring_shows(rep, wanted) [] container = "chunked" -> chunked_shows(rep, wanted)
    [] container = "list" -> list_shows(rep, wanted) [] container \in {"vector", "array"} -> array_shows(rep, wanted)
    [] container = "bst" -> bst_shows(rep, wanted)
=============================================================================
