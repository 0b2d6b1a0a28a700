-------------------------------- MODULE String --------------------------------
(***************************************************************************)
(* Strings: src/reactor/string.c.  A string points into memory that begins *)
(* with its size and capacity and ends with a NUL.  All empty strings      *)
(* start as one null object, which is not allocated; an operation returns  *)
(* the string it leaves behind.  The model follows one string.             *)
(***************************************************************************)
EXTENDS Memory, SequencesExt

CONSTANTS
  Chars,
  Nul,
  MaxSize,        (* bound: characters of the string                          *)
  SizeWidth       (* bits of a size_t                                         *)

(* No object takes more than half of the sizes that there are.                *)
ASSUME SizesFit == MaxSize \in Nat /\ SizeWidth \in Nat /\ 2 * MaxSize <= 2 ^ SizeWidth

VARIABLES
  string,         (* the string: whether it is the null object, its memory    *)
                  (* with the NUL, and its size                               *)
  offset,         (* string_write: the size_t of this name, while it runs     *)
  file,           (* what has been written to the file                        *)
  short           (* whether a write took less than it was given              *)

string_vars == <<string, offset, file, short>>

NullObject == [null |-> TRUE, mem |-> <<Nul>>, size |-> 0]
NotWriting == 2 ^ SizeWidth
Idle == offset = NotWriting

(* The data arguments.                                                        *)
Data == BoundedSeq(Chars, 2)

-----------------------------------------------------------------------------
capacity(s) == Len(s.mem) - 1

(* calloc instead of realloc for the null object, which is left alone.        *)
string_allocate(s, n) ==
  IF n > capacity(s)
  THEN [s EXCEPT !.null = FALSE,
                 !.mem = IF s.null THEN [i \in 1..n + 1 |-> Nul] ELSE realloc(@, n + 1)]
  ELSE s

string_resize(s, n) ==
  [string_allocate(s, n) EXCEPT !.size = n, !.mem = [@ EXCEPT ![n + 1] = Nul]]

(* Slip: the data is written before what is there is moved away.              *)
InsertOverOld(s, at, data) ==
  LET r == string_resize(s, s.size + Len(data))
  IN  [r EXCEPT !.mem = memmove(memcpy(@, at, data), at + Len(data), at, s.size - at)]

string_insert_data(s, at, data) ==
  LET r == string_resize(s, s.size + Len(data))
  IN  [r EXCEPT !.mem = memcpy(memmove(@, at + Len(data), at, s.size - at), at, data)]

string_erase_data(s, at, n) ==
  IF n = 0 THEN s
  ELSE string_resize([s EXCEPT !.mem = memmove(@, at, at + n, s.size - at - n)], s.size - n)

(* The positions from at on where match is found.                             *)
Found(s, at, match) ==
  {i \in at..s.size - Len(match) : match # <<>> /\ Read(s.mem, i, Len(match)) = match}

Replaced(s, at, match, replace) ==
  string_insert_data(string_erase_data(s, at, Len(match)), at, replace)

string_replace_data(s, match, replace) ==
  IF Found(s, 0, match) = {} THEN s ELSE Replaced(s, Min(Found(s, 0, match)), match, replace)

(* Slip: the search goes on one character too far.                            *)
ReplaceFurther(search, match, replace) ==
  LET found == Found(search.string, search.at, match)
  IN  IF search.at >= search.string.size \/ found = {} THEN search
      ELSE [string |-> Replaced(search.string, Min(found), match, replace),
            at |-> Min(found) + Len(replace) + 1]

(* The next match is replaced; the search goes on behind what was put in.     *)
ReplaceNext(search, match, replace) ==
  LET found == Found(search.string, search.at, match)
  IN  IF search.at >= search.string.size \/ found = {} THEN search
      ELSE [string |-> Replaced(search.string, Min(found), match, replace),
            at |-> Min(found) + Len(replace)]

(* There are no more matches than characters.                                 *)
string_replace_all_data(s, match, replace) ==
  LET search[n \in 0..s.size] ==
        IF n = 0 THEN [string |-> s, at |-> 0] ELSE ReplaceNext(search[n - 1], match, replace)
  IN  search[s.size].string

-----------------------------------------------------------------------------
StringInit ==
  /\ string = NullObject
  /\ offset = NotWriting /\ file = <<>> /\ short = FALSE

Becomes(s) ==
  /\ Idle /\ s.size <= MaxSize
  /\ string' = s
  /\ UNCHANGED <<offset, file, short>>

(* string_prepend_data, string_append_data and all between them.              *)
Insert(at, data) == at <= string.size /\ Becomes(string_insert_data(string, at, data))
Erase(at, n) == at + n <= string.size /\ Becomes(string_erase_data(string, at, n))
Resize(n) == Becomes(string_resize(string, n))
Reserve(n) == Becomes(string_allocate(string, n))
Replace(match, replace) == Becomes(string_replace_data(string, match, replace))
ReplaceAllIn(match, replace) == Becomes(string_replace_all_data(string, match, replace))

(* What is read from a file, a piece at a time, is appended: string_load.     *)
Loaded(pieces) ==
  LET read[i \in 0..Len(pieces)] ==
        IF i = 0 THEN NullObject ELSE string_insert_data(read[i - 1], read[i - 1].size, pieces[i])
  IN  read[Len(pieces)]

(* string_free, and another string in its place: from a file, or none.        *)
Load(pieces) == Becomes(Loaded(pieces))

(* string_copy, and string_free of the first.                                 *)
Copy ==
  Becomes(IF string.size = 0 THEN NullObject
          ELSE string_insert_data(NullObject, 0, Read(string.mem, 0, string.size)))

(* string_save: string_write begins at offset 0 ...                           *)
string_write ==
  /\ Idle
  /\ offset' = 0
  /\ UNCHANGED <<string, file, short>>

(* Slip: the same part is written again.                                      *)
NoAdvance(from, n) == from

(* ... and is over once the offset is not below the size.  What a write took  *)
(* is subtracted from the offset.                                             *)
Advance(from, n) == (from - n) % 2 ^ SizeWidth

Write(n) ==
  /\ offset < string.size /\ n \in 1..string.size - offset
  /\ file' = file \o Read(string.mem, offset, n)
  /\ offset' = Advance(offset, n)
  /\ short' = (short \/ n < string.size - offset)
  /\ UNCHANGED string

Written ==
  /\ offset >= string.size /\ ~Idle
  /\ offset' = NotWriting /\ file' = <<>> /\ short' = FALSE
  /\ UNCHANGED string

StringNext ==
  \/ \E at \in 0..string.size, data \in Data : Insert(at, data)
  \/ \E at, n \in 0..string.size : Erase(at, n)
  \/ \E n \in 0..MaxSize : Resize(n) \/ Reserve(n)
  \/ \E match, replace \in Data : Replace(match, replace) \/ ReplaceAllIn(match, replace)
  \/ Copy \/ \E pieces \in BoundedSeq(Data, 2) : Load(pieces)
  \/ string_write \/ (\E n \in 1..MaxSize : Write(n)) \/ Written

StringSpec == StringInit /\ [][StringNext]_string_vars

-----------------------------------------------------------------------------
Text(s) == Read(s.mem, 0, s.size)

(* The matches in a text t that are replaced, by the positions before them:   *)
(* from left to right, those that do not overlap one before.                  *)
Matches(t, match) ==
  LET Is(i) == match # <<>> /\ IsPrefix(match, SubSeq(t, i + 1, Len(t)))
      end[i \in 0..Len(t)] ==      (* of the last match that begins before i   *)
        IF i = 0 THEN 0
        ELSE IF Is(i - 1) /\ end[i - 1] < i THEN i - 1 + Len(match) ELSE end[i - 1]
  IN  {i \in 0..Len(t) : Is(i) /\ end[i] <= i}

(* The text with new in place of the matches that begin at the positions P.   *)
With(t, P, n, new) ==
  FlattenSeq([i \in 1..Len(t) |->
                IF i - 1 \in P THEN new
                ELSE IF \E p \in P : p < i - 1 /\ i - 1 < p + n THEN <<>> ELSE <<t[i]>>])

Holds(s, t) == Text(s) = t /\ s.mem[s.size + 1] = Nul

EditsExactly ==
  LET t == Text(string)
  IN  /\ \A at \in 0..Len(t), data \in Data :
           Holds(string_insert_data(string, at, data),
                 SubSeq(t, 1, at) \o data \o SubSeq(t, at + 1, Len(t)))
      /\ \A at \in 0..Len(t) : \A n \in 0..Len(t) - at :
           Holds(string_erase_data(string, at, n),
                 SubSeq(t, 1, at) \o SubSeq(t, at + n + 1, Len(t)))
      /\ \A n \in 0..MaxSize : Holds(string_allocate(string, n), t)

ReplacesExactly ==
  LET t == Text(string)
  IN  \A match \in Data :
        LET found == Matches(t, match)
        IN  \A data \in Data :
              /\ Holds(string_replace_data(string, match, data),
                       With(t, IF found = {} THEN {} ELSE {Min(found)}, Len(match), data))
              /\ Holds(string_replace_all_data(string, match, data),
                       With(t, found, Len(match), data))

(* Whatever operations came before, each puts in, takes out and replaces the  *)
(* characters it names (the first match, or each match as the text was before *)
(* anything was replaced), keeps the others as they were across any           *)
(* reallocation, and ends with a NUL behind the last.                         *)
EditsAreExact == EditsExactly /\ ReplacesExactly

(* What string_save has written is what the string begins with, and in the    *)
(* end all of it, unless a write has taken less than it was given.            *)
SavedInOrder ==
  ~Idle => /\ IsPrefix(file, Text(string))
           /\ offset >= string.size => file = Text(string) \/ short
=============================================================================
