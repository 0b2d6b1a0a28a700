--------------------------------- MODULE Map ---------------------------------
(***************************************************************************)
(* The hash map: src/reactor/map.c, and mapi.c and maps.c, which give it   *)
(* their elements, keys and hash functions.                                *)
(*                                                                         *)
(* An open-addressing table with linear probing.  Erasing an element moves *)
(* later ones back into the hole, around the end of the table, so that     *)
(* every search may end at the first empty slot.                           *)
(***************************************************************************)
EXTENDS Naturals, FiniteSets

CONSTANTS
  Elements,
  KeyOf(_),      (* the key of an element: what map_equal compares            *)
  Empty,         (* an element that is equal to NULL                          *)
  MaxHash,       (* hash values are 0..MaxHash                                *)
  MinCapacity,   (* MAP_ELEMENTS_CAPACITY_MIN                                 *)
  MaxReserve     (* bound: how much map_reserve is asked for                  *)

Keys == {KeyOf(e) : e \in Elements}
IsPowerOfTwo(n) == \E i \in 0..n : n = 2 ^ i

ASSUME MapOK ==
  /\ Empty \notin Elements
  /\ MaxHash \in Nat /\ MaxReserve \in Nat
  /\ MinCapacity \in Nat \ {0, 1} /\ IsPowerOfTwo(MinCapacity)

VARIABLES
  m,             (* the map: its slots, elements_count and elements_capacity  *)
  released,      (* the elements released by the latest operation             *)
  hash           (* the hash function                                         *)

map_vars == <<m, released, hash>>

-----------------------------------------------------------------------------
MinOf(S) == CHOOSE x \in S : \A y \in S : x <= y

map_roundup(size) == 2 ^ MinOf({i \in 0..size : 2 ^ i >= size})

NewMap(capacity) ==
  [slot |-> [i \in 0..capacity - 1 |-> Empty], count |-> 0, capacity |-> capacity]

Home(t, k) == hash[k] % t.capacity

(* map_at: the first slot from the home position on that is empty or has key  *)
(* k.  The search does not end if there is none.                              *)
Probe(t, k, d) == (Home(t, k) + d) % t.capacity
Stops(t, k) ==
  {d \in 0..t.capacity - 1 :
     LET e == t.slot[Probe(t, k, d)] IN e = Empty \/ KeyOf(e) = k}
map_at(t, k) == Probe(t, k, MinOf(Stops(t, k)))

Has(t, k) == t.slot[map_at(t, k)] # Empty

(* map_insert when there is room.                                             *)
Place(t, e) ==
  IF Has(t, KeyOf(e)) THEN t
  ELSE [t EXCEPT !.slot[map_at(t, KeyOf(e))] = e, !.count = t.count + 1]

(* map_rehash: the elements are inserted in the order of their old slots, in  *)
(* a table so large that map_insert does not reserve.                         *)
map_rehash(t, size) ==
  LET capacity == map_roundup(size)
      filled[i \in 0..t.capacity] ==
        IF i = 0 THEN NewMap(capacity)
        ELSE IF t.slot[i - 1] = Empty THEN filled[i - 1]
        ELSE Place(filled[i - 1], t.slot[i - 1])
  IN  filled[t.capacity]

(* Slip: as many slots as elements.                                           *)
ReserveExactly(t, size) ==
  IF size > t.capacity THEN map_rehash(t, size) ELSE t

map_reserve(t, size) ==
  IF 2 * size > t.capacity THEN map_rehash(t, 2 * size) ELSE t

(* Slip: the end of the table is forgotten.                                   *)
MoveWithoutWrap(home, hole, j) == home <= hole \/ home > j

(* Whether map_erase may move the element at j, at home at home, to the hole: *)
(* home is not between the hole and j, going round.                           *)
Moves(home, hole, j) ==
  \/ hole < j /\ (home <= hole \/ home > j)
  \/ hole > j /\ (home <= hole /\ home > j)

(* map_erase, from the slot i of the element to the next empty one.           *)
Unplace(t, i) ==
  LET At(d) == (i + d) % t.capacity
      run == MinOf({d \in 1..t.capacity : t.slot[At(d)] = Empty})
      moved[d \in 0..run - 1] ==
        IF d = 0 THEN [slot |-> t.slot, hole |-> i]
        ELSE LET s == moved[d - 1]
                 e == t.slot[At(d)]
             IN  IF Moves(Home(t, KeyOf(e)), s.hole, At(d))
                 THEN [slot |-> [s.slot EXCEPT ![s.hole] = e], hole |-> At(d)]
                 ELSE s
      last == moved[run - 1]
  IN  [t EXCEPT !.slot = [last.slot EXCEPT ![last.hole] = Empty], !.count = t.count - 1]

InUse(t) == {t.slot[i] : i \in 0..t.capacity - 1} \ {Empty}

-----------------------------------------------------------------------------
(* map_construct, with any hash function.                                     *)
MapInit ==
  /\ m = NewMap(map_roundup(MinCapacity))
  /\ released = {}
  /\ hash \in [Keys -> 0..MaxHash]

(* Slip: an element that is there already is replaced.                        *)
InsertOver(e) ==
  LET t == map_reserve(m, m.count + 1)
  IN  /\ m' = IF Has(t, KeyOf(e)) THEN [t EXCEPT !.slot[map_at(t, KeyOf(e))] = e]
              ELSE Place(t, e)
      /\ released' = IF Has(t, KeyOf(e)) THEN {t.slot[map_at(t, KeyOf(e))]} ELSE {}
      /\ UNCHANGED hash

map_insert(e) ==
  LET t == map_reserve(m, m.count + 1)
  IN  /\ m' = Place(t, e)
      /\ released' = IF Has(t, KeyOf(e)) THEN {e} ELSE {}
      /\ UNCHANGED hash

map_erase(k) ==
  /\ IF Has(m, k)
     THEN /\ m' = Unplace(m, map_at(m, k))
          /\ released' = {m.slot[map_at(m, k)]}
     ELSE released' = {} /\ UNCHANGED m
  /\ UNCHANGED hash

reserve(size) ==
  /\ m' = map_reserve(m, size)
  /\ released' = {}
  /\ UNCHANGED hash

(* map_clear, or map_destruct and map_construct.                              *)
map_clear ==
  /\ m' = NewMap(map_roundup(MinCapacity))
  /\ released' = InUse(m)
  /\ UNCHANGED hash

MapNext ==
  \/ \E e \in Elements : map_insert(e)
  \/ \E k \in Keys : map_erase(k)
  \/ \E size \in 1..MaxReserve : reserve(size)
  \/ map_clear

MapSpec == MapInit /\ [][MapNext]_map_vars

-----------------------------------------------------------------------------
(* Every element in the table is where the search for its key ends: no empty  *)
(* slot lies between its home and its slot, whatever was erased and rehashed. *)
Findable ==
  \A i \in 0..m.capacity - 1 : m.slot[i] # Empty => map_at(m, KeyOf(m.slot[i])) = i

(* At least half of the slots are empty, so every search ends, and the        *)
(* capacity is a power of two, so that the masks of map.c are remainders.     *)
RoomLeft == IsPowerOfTwo(m.capacity) /\ 2 * m.count <= m.capacity

(* The map is a dictionary.                                                   *)
MapPromise == INSTANCE Dictionary WITH content <- InUse(m), size <- m.count
DictionaryStep == UNCHANGED MapPromise!vars \/ MapPromise!Next
ImplementsDictionary == MapPromise!Init /\ [][DictionaryStep]_map_vars
=============================================================================
