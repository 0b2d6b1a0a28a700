-------------------------------- MODULE Vector --------------------------------
(***************************************************************************)
(* Vectors of objects of any size, in a buffer of bytes:                   *)
(* src/reactor/vector.c and buffer.c.  Streams read into and write from    *)
(* such buffers; a vector turns positions of objects into offsets.         *)
(***************************************************************************)
EXTENDS Memory, SequencesExt

CONSTANTS
  Objects,
  ObjectSizes,  (* bytes of an object                                         *)
  MaxObjects,   (* bound: objects in the vector                               *)
  MaxReserved   (* bound: the capacity that vector_reserve is asked for       *)

(* vector_size divides by the size of an object.                              *)
ASSUME ObjectsOK ==
  ObjectSizes \subseteq Nat \ {0} /\ MaxObjects \in Nat /\ MaxReserved \in Nat

VARIABLES
  buffer,       (* data, of which the length is the capacity, and size        *)
  object_size,
  freed         (* the objects handed to the release function by the latest   *)
                (* operation                                                  *)

vector_vars == <<buffer, object_size, freed>>

NewBuffer == [data |-> <<>>, size |-> 0]

-----------------------------------------------------------------------------
(* src/reactor/buffer.c *)

(* The next power of two: all bits below the highest of size - 1 are set.     *)
buffer_roundup(size) == Min({2 ^ k : k \in {k \in 0..size : 2 ^ k >= size}})

buffer_capacity(b) == Len(b.data)

buffer_reserve(b, capacity) ==
  IF capacity > buffer_capacity(b)
  THEN [b EXCEPT !.data = realloc(@, buffer_roundup(capacity))] ELSE b

buffer_resize(b, size) == [buffer_reserve(b, size) EXCEPT !.size = size]

buffer_compact(b) ==
  IF buffer_capacity(b) > b.size THEN [b EXCEPT !.data = realloc(@, b.size)] ELSE b

(* A gap of n bytes at position.                                              *)
Opened(b, position, n) ==
  LET r == buffer_reserve(b, b.size + n)
  IN  [data |-> IF position < b.size
                THEN memmove(r.data, position + n, position, b.size - position) ELSE r.data,
       size |-> b.size + n]

buffer_insert(b, position, data) ==
  [Opened(b, position, Len(data)) EXCEPT !.data = memcpy(@, position, data)]

buffer_insert_fill(b, position, count, data) ==
  [Opened(b, position, count * Len(data)) EXCEPT
     !.data = memcpy(@, position, FlattenSeq([i \in 1..count |-> data]))]

(* Slip: the bytes behind those that are erased stay where they are.          *)
EraseInPlace(b, position, size) == [b EXCEPT !.size = @ - size]

buffer_erase(b, position, size) ==
  [data |-> memmove(b.data, position, position + size, b.size - position - size),
   size |-> b.size - size]

buffer_clear == NewBuffer

-----------------------------------------------------------------------------
(* src/reactor/vector.c *)

Bytes(o) == [i \in 1..object_size |-> <<o, i>>]

(* The object at a position; Junk if the bytes there are not those of one.    *)
vector_at(position) ==
  LET bytes == Read(buffer.data, position * object_size, object_size)
  IN  IF \E o \in Objects : bytes = Bytes(o)
      THEN CHOOSE o \in Objects : bytes = Bytes(o) ELSE Junk

vector_size == buffer.size \div object_size
vector_capacity == buffer_capacity(buffer) \div object_size
Between(first, last) == [i \in 1..last - first |-> vector_at(first + i - 1)]
Held == Between(0, vector_size)

VectorInit ==
  /\ buffer = NewBuffer
  /\ object_size \in ObjectSizes
  /\ freed = <<>>

Stores(b) ==
  /\ buffer' = b
  /\ freed' = <<>>
  /\ UNCHANGED object_size

vector_reserve(capacity) == Stores(buffer_reserve(buffer, capacity * object_size))
vector_shrink_to_fit == Stores(buffer_compact(buffer))

(* vector_insert, vector_insert_range and, at the end, vector_push_back; the  *)
(* objects are not those of the vector itself.                                *)
vector_insert_range(position, objects) ==
  /\ position <= vector_size /\ vector_size + Len(objects) <= MaxObjects
  /\ Stores(buffer_insert(buffer, position * object_size,
                          FlattenSeq([i \in DOMAIN objects |-> Bytes(objects[i])])))

vector_insert_fill(position, count, o) ==
  /\ position <= vector_size /\ vector_size + count <= MaxObjects
  /\ Stores(buffer_insert_fill(buffer, position * object_size, count, Bytes(o)))

(* stream_allocate, and what its caller writes there.                         *)
AllocateObject(o) ==
  /\ vector_size < MaxObjects
  /\ LET b == buffer_resize(buffer, buffer.size + object_size)
     IN  Stores([b EXCEPT !.data = memcpy(@, buffer.size, Bytes(o))])

(* vector_erase, and vector_pop_back of the last.                             *)
vector_erase_range(first, last) ==
  /\ first <= last /\ last <= vector_size
  /\ freed' = Between(first, last)
  /\ buffer' = buffer_erase(buffer, first * object_size, (last - first) * object_size)
  /\ UNCHANGED object_size

(* vector_clear, vector_destruct                                              *)
vector_clear ==
  /\ freed' = Held
  /\ buffer' = buffer_clear
  /\ UNCHANGED object_size

VectorNext ==
  \/ \E capacity \in 0..MaxReserved : vector_reserve(capacity)
  \/ vector_shrink_to_fit \/ vector_clear
  \/ \E position \in 0..vector_size, a, b \in Objects : vector_insert_range(position, <<a, b>>)
  \/ \E position \in 0..vector_size, count \in 0..2, o \in Objects :
       vector_insert_fill(position, count, o)
  \/ \E o \in Objects : AllocateObject(o)
  \/ \E first, last \in 0..vector_size : vector_erase_range(first, last)

VectorSpec == VectorInit /\ [][VectorNext]_vector_vars

-----------------------------------------------------------------------------
RowOf == INSTANCE Row WITH row <- Held, returned <- freed, Parts <- BoundedSeq(Objects, 2)

(* Each operation puts in and takes out the objects it names, whole, and      *)
(* moves the others as they are, across any reallocation; those taken out are *)
(* released before they are gone, each once and in order.                     *)
RowStep ==
  \/ UNCHANGED vector_vars
  \/ /\ RowOf!Next
     /\ \A p \in 0..MaxObjects, a, b \in Objects :
          vector_insert_range(p, <<a, b>>) => RowOf!Splice(p, 0, <<a, b>>)
     /\ \A p, count \in 0..MaxObjects, o \in Objects :
          vector_insert_fill(p, count, o) => RowOf!Splice(p, 0, [i \in 1..count |-> o])
     /\ \A o \in Objects : AllocateObject(o) => RowOf!Splice(Len(Held), 0, <<o>>)
     /\ \A i, j \in 0..MaxObjects :
          vector_erase_range(i, j) => RowOf!Splice(i, j - i, <<>>)
     /\ vector_clear => RowOf!Splice(0, Len(Held), <<>>)

VectorIsRow == RowOf!Init /\ [][RowStep]_vector_vars
======
