---------------------------- MODULE NotifyProofs ----------------------------
(***************************************************************************)
(* Proofs about Notify, for any files and sizes of the buffer and queue.   *)
(***************************************************************************)
EXTENDS Notify, SequenceTheorems, WellFoundedInduction, TLAPS

-----------------------------------------------------------------------------
(* The inductive invariant.                                                   *)

Events == Int          (* ids of watches, and Overflow                         *)
Watched == [id : Nat, path : Files]
Told == [wd : Events, path : Files]

TypeOK ==
  /\ notify \in {"none", "closed", "open"}
  /\ pc \in {"idle", "read", "dispatch", "callback"}
  /\ cancel \in BOOLEAN
  /\ instances \in Nat
  /\ entries \in Seq(Watched)
  /\ buf \in Seq(Events)
  /\ watches \in Seq(Files)
  /\ queue \in Seq(Events)
  /\ happened \in Seq(Events)
  /\ told_paths \in Seq(Told)

(* The buffer is empty when it is read into, and not when it is dispatched;   *)
(* a cancelled loop does neither.                                             *)
Phases ==
  /\ pc \in {"idle", "read"} => buf = <<>>
  /\ pc = "dispatch" => buf # <<>>
  /\ pc \in {"read", "dispatch"} => ~cancel
  /\ reported => Open
  /\ ~Open => queue = <<>>

(* Unless it is cancelled the loop has an object.                             *)
Alive == pc # "idle" /\ ~cancel => notify # "none"

Distinct == \A i, j \in 1..Len(watches) : watches[i] = watches[j] => i = j

(* Each event that may be dispatched has an entry, but for the overflow.      *)
Known(wd) == wd = Overflow \/ \E i \in 1..Len(entries) : entries[i].id = wd

EventsHaveEntries ==
  /\ notify # "none" /\ ~cancel => \A i \in 1..Len(buf) : Known(buf[i])
  /\ Open => /\ \A i \in 1..Len(queue) : Known(queue[i])
             /\ \A wd \in 1..Len(watches) : Known(wd)

(* The entries of an object with one instance are those of its watches.       *)
EntriesOfWatches ==
  /\ notify = "none" \/ instances = 0 => entries = <<>>
  /\ instances = 0 => ~Open /\ told_paths = <<>>
  /\ instances <= 1 =>
       /\ \A i \in 1..Len(entries) :
            entries[i].id \in 1..Len(watches) /\ watches[entries[i].id] = entries[i].path
       /\ \A i \in 1..Len(told_paths) :
            told_paths[i].wd \in 1..Len(watches) /\ watches[told_paths[i].wd] = told_paths[i].path

IInv ==
  /\ TypeOK
  /\ Phases
  /\ Alive
  /\ Distinct
  /\ EventsHaveEntries
  /\ EntriesOfWatches
  /\ ToldInOrder
  /\ WatcherAborts

-----------------------------------------------------------------------------
(* Sequences of events.                                                       *)
LEMMA IdsAre ==
  ASSUME NEW s \in Seq(Told)
  PROVE  [i \in DOMAIN s |-> s[i].wd] \in Seq(Events)
<1>1. Len(s) \in Nat /\ DOMAIN s = 1..Len(s) /\ \A i \in 1..Len(s) : s[i] \in Told
  BY LenProperties, ElementOfSeq
<1>2. \A i \in 1..Len(s) : s[i].wd \in Events
  BY <1>1 DEF Told
<1>3. [i \in DOMAIN s |-> s[i].wd] \in [1..Len(s) -> Events]
  BY <1>1, <1>2
<1> QED
  BY <1>1, <1>3, SeqDef

Ids(s) == [i \in DOMAIN s |-> s[i].wd]

LEMMA NothingTold == \A s : s = <<>> => Ids(s) = <<>>
BY DEF Ids

LEMMA ConcatIsAssociative ==
  ASSUME NEW s \in Seq(Events), NEW t \in Seq(Events), NEW u \in Seq(Events)
  PROVE  (s \o t) \o u = s \o (t \o u)
BY ConcatAssociative

LEMMA ConcatAppend ==
  ASSUME NEW s \in Seq(Events), NEW t \in Seq(Events), NEW e \in Events
  PROVE  s \o Append(t, e) = Append(s \o t, e)
<1>1. Append(t, e) = t \o <<e>> /\ <<e>> \in Seq(Events)
  BY AppendIsConcat
<1>2. Append(s \o t, e) = (s \o t) \o <<e>>
  BY ConcatProperties, AppendIsConcat
<1> QED
  BY <1>1, <1>2, ConcatIsAssociative

LEMMA HeadTailIs ==
  ASSUME NEW b \in Seq(Events), b # <<>>
  PROVE  b = <<Head(b)>> \o Tail(b)
<1>1. Len(b) \in Nat \ {0}
  BY EmptySeq
<1>2. /\ SubSeq(b, 1, Len(b)) = <<b[1]>> \o SubSeq(b, 2, Len(b))
  <2>1. 1 \in 1..Len(b) /\ Len(b) \in 1..Len(b)
    BY <1>1
  <2> QED
    BY <2>1, SubSeqRecursiveFirst
<1>3. SubSeq(b, 1, Len(b)) = b /\ Tail(b) = SubSeq(b, 2, Len(b)) /\ Head(b) = b[1]
  BY SubSeqFull, TailIsSubSeq
<1> QED
  BY <1>2, <1>3

IsCut(s, n, a, b) ==
  /\ a \in Seq(Events) /\ b \in Seq(Events) /\ a \o b = s
  /\ Len(a) = n /\ \A i \in 1..n : a[i] = s[i]
  /\ Len(b) = Len(s) - n /\ \A i \in 1..Len(b) : b[i] = s[n + i]

LEMMA CutIs ==
  ASSUME NEW s \in Seq(Events), NEW n \in 0..Len(s)
  PROVE  IsCut(s, n, SubSeq(s, 1, n), SubSeq(s, n + 1, Len(s)))
<1> SUFFICES ASSUME NEW a, NEW b, a = SubSeq(s, 1, n), b = SubSeq(s, n + 1, Len(s))
             PROVE  /\ a \in Seq(Events) /\ b \in Seq(Events) /\ a \o b = s
                    /\ Len(a) = n /\ \A i \in 1..n : a[i] = s[i]
                    /\ Len(b) = Len(s) - n /\ \A i \in 1..Len(b) : b[i] = s[n + i]
  BY DEF IsCut
<1>1. Len(s) \in Nat /\ \A i \in 1..Len(s) : s[i] \in Events
  BY LenProperties, ElementOfSeq
<1>2. a \in Seq(Events) /\ Len(a) = n /\ \A i \in 1..n : a[i] = s[i]
  <2>1. \A i \in 1..n : s[i] \in Events
    BY <1>1
  <2>2. /\ SubSeq(s, 1, n) \in Seq(Events)
        /\ Len(SubSeq(s, 1, n)) = IF 1 <= n THEN n - 1 + 1 ELSE 0
        /\ \A i \in 1..n - 1 + 1 : SubSeq(s, 1, n)[i] = s[1 + i - 1]
    BY <1>1, <2>1, SubSeqProperties
  <2> QED
    BY <1>1, <2>2
<1>3. b \in Seq(Events) /\ Len(b) = Len(s) - n /\ \A i \in 1..Len(b) : b[i] = s[n + i]
  <2>1. \A i \in n + 1..Len(s) : s[i] \in Events
    BY <1>1
  <2>2. /\ SubSeq(s, n + 1, Len(s)) \in Seq(Events)
        /\ Len(SubSeq(s, n + 1, Len(s)))
             = IF n + 1 <= Len(s) THEN Len(s) - (n + 1) + 1 ELSE 0
        /\ \A i \in 1..Len(s) - (n + 1) + 1 : SubSeq(s, n + 1, Len(s))[i] = s[n + 1 + i - 1]
    BY <1>1, <2>1, SubSeqProperties
  <2> QED
    BY <1>1, <2>2
<1>4. a \o b = s
  <2>1. SubSeq(s, 1, n) \o SubSeq(s, n + 1, Len(s)) = SubSeq(s, 1, Len(s))
    <3>1. 1 \in 1..Len(s) + 1 /\ n \in 1 - 1..Len(s) /\ Len(s) \in n..Len(s)
      BY <1>1
    <3> QED
      BY <3>1, ConcatAdjacentSubSeq
  <2> QED
    BY <2>1, SubSeqFull
<1> QED
  BY <1>2, <1>3, <1>4

-----------------------------------------------------------------------------
LEMMA InitIInv == NotifyInit => IInv
<1> SUFFICES ASSUME NotifyInit PROVE IInv
  OBVIOUS
<1>1. /\ entries = <<>> /\ buf = <<>> /\ watches = <<>> /\ queue = <<>>
      /\ happened = <<>> /\ told_paths = <<>> /\ Len(<<>>) = 0
  BY EmptySeq DEF NotifyInit
<1>2. TypeOK
  BY <1>1, EmptySeq DEF NotifyInit, TypeOK
<1>3. [i \in DOMAIN told_paths |-> told_paths[i].wd] \o Unread \o queue = happened
  <2>1. [i \in DOMAIN told_paths |-> told_paths[i].wd] = <<>> /\ Unread = <<>>
    BY <1>1 DEF Unread
  <2> QED
    BY <1>1, <2>1, EmptySeq, ConcatEmptySeq
<1> QED
  BY <1>1, <1>2, <1>3
  DEF NotifyInit, IInv, Phases, Alive, Distinct, EventsHaveEntries, Known,
      EntriesOfWatches, ToldInOrder, WatcherAborts, Open

-----------------------------------------------------------------------------
(* Steps that leave what was read and told alone.                             *)
LEMMA ReportKeeps == ASSUME IInv, NotifyReport PROVE IInv'
<1>1. UNCHANGED <<notify, entries, cancel, pc, buf, watches, queue, happened, told_paths,
                  instances, reopened, crashed>>
  BY DEF NotifyReport
<1>2. reported' => Open'
  BY <1>1 DEF NotifyReport, Open
<1> QED
  BY <1>1, <1>2, ZenonT(60)
  DEF IInv, TypeOK, Phases, Alive, Distinct, EventsHaveEntries, Known,
      EntriesOfWatches, ToldInOrder, WatcherAborts, Open, Unread

LEMMA DeliverKeeps == ASSUME IInv, CalledBack PROVE IInv'
<1>1. UNCHANGED <<notify, entries, buf, watches, queue, happened, told_paths, instances,
                  reopened, crashed>>
  BY DEF CalledBack, kernel
<1>2. /\ pc' = "read" /\ cancel' = FALSE /\ reported' = FALSE /\ Open /\ buf = <<>>
      /\ ~crashed /\ ~crashed' /\ Len(<<>>) = 0
  BY EmptySeq DEF CalledBack, IInv, Phases
<1>3. Unread' = <<>> /\ Unread = <<>>
  BY <1>1, <1>2 DEF Unread
<1>4. EventsHaveEntries'
  BY <1>1, <1>2 DEF IInv, EventsHaveEntries, Known, Open
<1>5. ToldInOrder'
  BY <1>1, <1>3 DEF IInv, ToldInOrder, Open
<1> QED
  BY <1>1, <1>2, <1>4, <1>5
  DEF IInv, TypeOK, Phases, Alive, Distinct, EntriesOfWatches, WatcherAborts, Open

LEMMA ConstructKeeps == ASSUME IInv, notify_construct PROVE IInv'
<1>1. UNCHANGED <<entries, cancel, pc, buf, watches, queue, happened, reported, reopened, crashed>>
  BY DEF notify_construct, kernel
<1>2. /\ notify = "none" /\ notify' = "closed" /\ instances' = 0 /\ told_paths' = <<>>
      /\ pc \in {"idle", "callback"}
  BY DEF notify_construct, OwnerRuns
<1>3. <<>> \in Seq(Told) /\ Len(<<>>) = 0
  BY EmptySeq
<1>4. entries = <<>>
  BY <1>2 DEF IInv, EntriesOfWatches
<1> QED
  BY <1>1, <1>2, <1>3, <1>4
  DEF IInv, TypeOK, Phases, Alive, Distinct, EventsHaveEntries, Known,
      EntriesOfWatches, ToldInOrder, WatcherAborts, Open, Unread

LEMMA ClearKeeps == ASSUME IInv, notify_clear PROVE IInv'
<1>1. UNCHANGED <<entries, cancel, pc, buf, watches, happened, told_paths, instances,
                  reopened, crashed>>
  BY DEF notify_clear
<1>2. /\ notify = "open" /\ notify' = "closed" /\ queue' = <<>> /\ reported' = FALSE
      /\ pc \in {"idle", "callback"} /\ ~crashed
  BY DEF notify_clear, OwnerRuns, Open
<1>3. <<>> \in Seq(Events)
  BY EmptySeq
<1> QED
  BY <1>1, <1>2, <1>3
  DEF IInv, TypeOK, Phases, Alive, Distinct, EventsHaveEntries, Known,
      EntriesOfWatches, ToldInOrder, WatcherAborts, Open, Unread

LEMMA DestructKeeps == ASSUME IInv, notify_destruct PROVE IInv'
<1>1. UNCHANGED <<pc, buf, watches, happened, told_paths, instances, crashed>>
  BY DEF notify_destruct
<1>2. /\ notify' = "none" /\ entries' = <<>> /\ queue' = <<>> /\ reported' = FALSE
      /\ pc \in {"idle", "callback"} /\ ~crashed
      /\ cancel' = (pc = "callback")
  BY DEF notify_destruct, OwnerRuns
<1>3. <<>> \in Seq(Events) /\ <<>> \in Seq(Watched) /\ Len(<<>>) = 0
  BY EmptySeq
<1>4. TypeOK'
  BY <1>1, <1>2, <1>3 DEF IInv, TypeOK
<1>5. Phases' /\ Alive'
  BY <1>1, <1>2 DEF IInv, Phases, Alive, Open
<1>6. notify' = "none" /\ entries' = <<>> /\ ~Open' /\ ~crashed'
  BY <1>1, <1>2 DEF Open
<1>7. EntriesOfWatches'
  BY <1>1, <1>3, <1>6 DEF IInv, EntriesOfWatches
<1>8. Distinct' /\ EventsHaveEntries' /\ ToldInOrder' /\ WatcherAborts'
  BY <1>1, <1>6 DEF IInv, Distinct, EventsHaveEntries, ToldInOrder, WatcherAborts
<1> QED
  BY <1>4, <1>5, <1>7, <1>8 DEF IInv

LEMMA ReturnKeeps == ASSUME IInv, Return PROVE IInv'
<1>1. UNCHANGED <<notify, entries, cancel, watches, queue, happened, reported, told_paths, instances,
                  reopened, crashed>>
  BY DEF Return, kernel
<1>2. /\ pc = "callback"
      /\ pc' = IF cancel THEN "idle" ELSE IF buf = <<>> THEN "read" ELSE "dispatch"
      /\ buf' = IF cancel THEN <<>> ELSE buf
  BY DEF Return
<1>3. <<>> \in Seq(Events) /\ Len(<<>>) = 0
  BY EmptySeq
<1>4. TypeOK'
  BY <1>1, <1>2, <1>3 DEF IInv, TypeOK
<1>5. Phases' /\ Alive'
  BY <1>1, <1>2 DEF IInv, Phases, Alive, Open
<1>6. Unread' = Unread
  BY <1>1, <1>2 DEF Unread
<1>7. ToldInOrder'
  BY <1>1, <1>6 DEF IInv, ToldInOrder, Open
<1>8. Distinct' /\ EntriesOfWatches' /\ WatcherAborts'
  BY <1>1 DEF Return, IInv, Distinct, EntriesOfWatches, WatcherAborts, Open
<1>9. EventsHaveEntries'
  <2>1. CASE cancel
    BY <1>1, <1>2, <1>3, <2>1 DEF IInv, EventsHaveEntries, Known, Open
  <2>2. CASE ~cancel
    <3>1. buf' = buf
      BY <1>2, <2>2
    <3> QED
      BY <1>1, <3>1 DEF IInv, EventsHaveEntries, Known, Open
  <2> QED
    BY <2>1, <2>2
<1> QED
  BY <1>4, <1>5, <1>7, <1>8, <1>9 DEF IInv

-----------------------------------------------------------------------------
(* The kernel adds an event of a watch, or the overflow.                      *)
LEMMA HappensKeeps ==
  ASSUME IInv, NEW wd \in 1..Len(watches), Happens(wd)
  PROVE  IInv'
<1> DEFINE e == IF Len(queue) = QueueSize THEN Overflow ELSE wd
           ids == [i \in DOMAIN told_paths |-> told_paths[i].wd]
<1>1. UNCHANGED <<notify, entries, cancel, pc, buf, watches, reported, told_paths, instances,
                  reopened, crashed>>
  BY DEF Happens
<1>2. /\ queue' = Append(queue, e) /\ happened' = Append(happened, e)
      /\ ~crashed /\ Open
  BY DEF Happens
<1>3. /\ queue \in Seq(Events) /\ happened \in Seq(Events) /\ buf \in Seq(Events) /\ Len(watches) \in Nat
      /\ told_paths \in Seq(Told)
  BY LenProperties DEF IInv, TypeOK
<1>4. e \in Events /\ (e # Overflow => e = wd)
  BY <1>3 DEF Overflow, Events
<1> HIDE DEF e
<1>5. TypeOK'
  BY <1>1, <1>2, <1>3, <1>4, AppendProperties DEF IInv, TypeOK
<1>6. Phases' /\ Alive'
  BY <1>1, <1>2 DEF IInv, Phases, Alive, Open
<1>7. Distinct' /\ EntriesOfWatches' /\ WatcherAborts'
  BY <1>1, <1>2 DEF IInv, Distinct, EntriesOfWatches, WatcherAborts, Open
<1>8. EventsHaveEntries'
  <2>1. Known(e)
    BY <1>2, <1>4 DEF IInv, EventsHaveEntries, Known
  <2>2. /\ Len(queue') = Len(queue) + 1 /\ Len(queue) \in Nat
        /\ \A i \in 1..Len(queue) : queue'[i] = queue[i]
        /\ queue'[Len(queue) + 1] = e
    BY <1>2, <1>3, <1>4, AppendProperties, LenProperties
  <2>3. \A i \in 1..Len(queue) : Known(queue[i])
    BY <1>2 DEF IInv, EventsHaveEntries
  <2>4. \A i \in 1..Len(queue') : Known(queue'[i])
    BY <2>1, <2>2, <2>3
  <2> QED
    BY <1>1, <2>4 DEF IInv, EventsHaveEntries, Known, Open
<1>9. ToldInOrder'
  <2> SUFFICES ASSUME Open, ~reopened
               PROVE  ids \o Unread \o queue' = happened'
    BY <1>1, <1>2 DEF ToldInOrder, Open, Unread
  <2>1. ids \in Seq(Events)
    BY <1>3, IdsAre
  <2>2. ids \o Unread \o queue = happened
    BY DEF IInv, ToldInOrder
  <2> HIDE DEF ids
  <2>3. ids \o Unread \in Seq(Events)
    <3>1. Unread \in Seq(Events)
      BY <1>3, EmptySeq DEF Unread
    <3> QED
      BY <2>1, <3>1, ConcatProperties
  <2>4. ids \o Unread \o Append(queue, e) = Append(ids \o Unread \o queue, e)
    <3>1. queue \in Seq(Events) /\ e \in Events
      BY <1>3, <1>4
    <3> QED
      BY <2>3, <3>1, ConcatAppend
  <2> QED
    BY <1>2, <2>2, <2>4
<1> QED
  BY <1>5, <1>6, <1>7, <1>8, <1>9 DEF IInv

(* A read takes the front of the queue.                                       *)
LEMMA ReadKeeps ==
  ASSUME IInv, Read
  PROVE  IInv'
<1> DEFINE n == IF Len(queue) < BufferSize THEN Len(queue) ELSE BufferSize
           ids == [i \in DOMAIN told_paths |-> told_paths[i].wd]
<1>1. UNCHANGED <<notify, entries, cancel, watches, happened, reported, told_paths, instances,
                  reopened>>
  BY DEF Read
<1>2. /\ pc = "read" /\ buf = <<>> /\ ~cancel
      /\ buf' = SubSeq(queue, 1, n) /\ queue' = SubSeq(queue, n + 1, Len(queue))
      /\ pc' = IF queue = <<>> THEN "idle" ELSE "dispatch"
      /\ crashed' = ~Open
  BY DEF Read, IInv, Phases
<1>3. queue \in Seq(Events) /\ told_paths \in Seq(Told) /\ Len(queue) \in Nat /\ BufferSize \in Nat \ {0}
  BY BufferSizeOK, LenProperties DEF IInv, TypeOK
<1>4. n \in 0..Len(queue) /\ (queue # <<>> => n # 0)
  BY <1>3, EmptySeq
<1> HIDE DEF n
<1>5. /\ buf' \in Seq(Events) /\ queue' \in Seq(Events) /\ buf' \o queue' = queue
      /\ Len(buf') = n /\ \A i \in 1..n : buf'[i] = queue[i]
      /\ Len(queue') = Len(queue) - n /\ \A i \in 1..Len(queue') : queue'[i] = queue[n + i]
  <2>1. buf' = SubSeq(queue, 1, n) /\ queue' = SubSeq(queue, n + 1, Len(queue))
    BY <1>2
  <2> QED
    <3>1. queue \in Seq(Events) /\ n \in 0..Len(queue)
      BY <1>3, <1>4
    <3>2. IsCut(queue, n, SubSeq(queue, 1, n), SubSeq(queue, n + 1, Len(queue)))
      BY <3>1, CutIs
    <3> QED
      BY <2>1, <3>2 DEF IsCut
<1>6. (queue = <<>> => buf' = <<>>) /\ (queue # <<>> => buf' # <<>>)
  <2>1. Len(<<>>) = 0
    BY EmptySeq
  <2>2. queue = <<>> => n = 0
    BY <1>4, <2>1
  <2> QED
    BY <1>2, <1>4, <1>5, <2>1, <2>2, EmptySeq
<1>7. TypeOK'
  BY <1>1, <1>2, <1>5 DEF IInv, TypeOK
<1>8. Phases' /\ Alive'
  <2>1. ~Open => queue' = <<>>
    BY <1>5, <1>6, EmptySeq, ConcatEmptySeq DEF IInv, Phases
  <2> QED
    BY <1>1, <1>2, <1>6, <2>1 DEF IInv, Phases, Alive, Open
<1>9. Distinct' /\ EntriesOfWatches'
  BY <1>1 DEF IInv, Distinct, EntriesOfWatches, Open
<1>10. WatcherAborts'
  BY <1>1, <1>2, <1>6 DEF IInv, TypeOK, Phases, Alive, WatcherAborts, Open
<1>11. EventsHaveEntries'
  <2>1. \A i \in 1..Len(queue) : Known(queue[i])
    <3>1. CASE Open
      BY <3>1 DEF IInv, EventsHaveEntries
    <3>2. CASE ~Open
      BY <3>2, EmptySeq DEF IInv, Phases
    <3> QED
      BY <3>1, <3>2
  <2>2. ASSUME NEW i \in 1..Len(buf') PROVE Known(buf'[i])
    <3>1. i \in 1..Len(queue) /\ i \in 1..n
      BY <1>3, <1>4, <1>5
    <3> QED
      BY <1>5, <2>1, <3>1
  <2>3. ASSUME NEW i \in 1..Len(queue') PROVE Known(queue'[i])
    <3>1. n + i \in 1..Len(queue)
      BY <1>3, <1>4, <1>5
    <3> QED
      BY <1>5, <2>1, <3>1
  <2> QED
    BY <1>1, <2>2, <2>3 DEF IInv, EventsHaveEntries, Known, Open
<1>12. ToldInOrder'
  <2> SUFFICES ASSUME Open, ~reopened
               PROVE  ids \o buf' \o queue' = happened
    BY <1>1, <1>2 DEF ToldInOrder, Open, Unread
  <2>1. ids \in Seq(Events)
    BY <1>3, IdsAre
  <2>2. ids \o buf \o queue = happened
    BY <1>2 DEF IInv, ToldInOrder, Unread
  <2> HIDE DEF ids
  <2>3. ids \o buf = ids
    <3>1. buf = <<>>
      BY <1>2
    <3> QED
      BY <2>1, <3>1, ConcatEmptySeq
  <2>4. ids \o buf' \o queue' = ids \o (buf' \o queue')
    <3>1. buf' \in Seq(Events) /\ queue' \in Seq(Events)
      BY <1>5
    <3> QED
      BY <2>1, <3>1, ConcatIsAssociative
  <2> QED
    BY <1>5, <2>2, <2>3, <2>4
<1> QED
  BY <1>7, <1>8, <1>9, <1>10, <1>11, <1>12 DEF IInv

-----------------------------------------------------------------------------
(* An event is looked up.                                                     *)
LEMMA LeastOf ==
  ASSUME NEW S \in SUBSET Nat, S # {}
  PROVE  \E x \in S : \A y \in S : x <= y
<1>1. IsWellFoundedOn(OpToRel(<, Nat), Nat)
  BY NatLessThanWellFounded, Zenon
<1>2. PICK x \in S : \A y \in S : ~ (<<y, x>> \in OpToRel(<, Nat))
  BY <1>1, WFMin, Zenon
<1>3. \A y \in S : ~ (y < x)
  BY <1>2, Zenon DEF OpToRel
<1> QED
  BY <1>3

LEMMA HasEntry ==
  ASSUME TypeOK, NEW wd, NEW k \in 1..Len(entries), entries[k].id = wd
  PROVE  Entry(wd) # {}
<1> DEFINE S == {i \in 1..Len(entries) : entries[i].id = wd}
<1>1. Len(entries) \in Nat /\ DOMAIN entries = 1..Len(entries)
  BY LenProperties DEF TypeOK
<1>2. PICK i \in S : \A j \in S : i <= j
  <2>1. S \in SUBSET Nat /\ S # {}
    BY <1>1
  <2> HIDE DEF S
  <2> QED
    BY <2>1, LeastOf
<1>3. \A j \in 1..i - 1 : entries[j].id # wd
  <2> SUFFICES ASSUME NEW j \in 1..i - 1, entries[j].id = wd PROVE FALSE
    OBVIOUS
  <2>1. i \in 1..Len(entries) /\ j \in 1..Len(entries) /\ j < i
    BY <1>1, <1>2
  <2> QED
    BY <1>2, <2>1
<1>4. i \in Entry(wd)
  BY <1>1, <1>2, <1>3 DEF Entry
<1> QED
  BY <1>4

LEMMA TellNext ==
  ASSUME NEW s \in Seq(Told), NEW b \in Seq(Events), b # <<>>,
         NEW e \in Told, e.wd = Head(b), NEW d, d = Append(s, e)
  PROVE  [i \in DOMAIN d |-> d[i].wd] \o Tail(b) = [i \in DOMAIN s |-> s[i].wd] \o b
<1> DEFINE ids == [i \in DOMAIN s |-> s[i].wd]
<1>1. ids \in Seq(Events) /\ e.wd \in Events /\ Tail(b) \in Seq(Events)
  BY IdsAre, HeadTailProperties
<1>2. /\ Len(s) \in Nat /\ DOMAIN s = 1..Len(s) /\ DOMAIN d = 1..Len(s) + 1
      /\ \A i \in 1..Len(s) : d[i] = s[i]
      /\ d[Len(s) + 1] = e
  BY AppendProperties, LenProperties
<1>3. [i \in DOMAIN d |-> d[i].wd] = Append(ids, e.wd)
  <2>1. /\ Len(ids) = Len(s) /\ \A i \in 1..Len(s) : ids[i] = s[i].wd
    BY <1>1, <1>2, LenProperties
  <2>2. /\ Append(ids, e.wd) \in Seq(Events) /\ Len(Append(ids, e.wd)) = Len(s) + 1
        /\ \A i \in 1..Len(s) : Append(ids, e.wd)[i] = s[i].wd
        /\ Append(ids, e.wd)[Len(s) + 1] = e.wd
    BY <1>1, <2>1, AppendProperties
  <2>3. [i \in DOMAIN d |-> d[i].wd] \in Seq(Events)
    <3>1. d \in Seq(Told)
      BY AppendProperties
    <3> QED
      BY <3>1, IdsAre
  <2> QED
    BY <1>2, <2>2, <2>3, SeqEqual, LenProperties
<1>4. b = <<e.wd>> \o Tail(b)
  BY HeadTailIs
<1> HIDE DEF ids
<1>5. Append(ids, e.wd) = ids \o <<e.wd>> /\ <<e.wd>> \in Seq(Events)
  BY <1>1, AppendIsConcat
<1>6. (ids \o <<e.wd>>) \o Tail(b) = ids \o (<<e.wd>> \o Tail(b))
  BY <1>1, <1>5, ConcatIsAssociative
<1> QED
  BY <1>3, <1>4, <1>5, <1>6 DEF ids

LEMMA DispatchKeeps == ASSUME IInv, Dispatch PROVE IInv'
<1> DEFINE wd == Head(buf)
<1>1. /\ UNCHANGED <<notify, entries, cancel, watches, queue, happened, reported, instances,
                     reopened>>
      /\ pc = "dispatch" /\ buf # <<>> /\ ~cancel /\ notify # "none"
  BY DEF Dispatch, kernel, IInv, Phases, Alive
<1>2. /\ entries \in Seq(Watched) /\ buf \in Seq(Events) /\ told_paths \in Seq(Told)
      /\ Len(entries) \in Nat /\ DOMAIN entries = 1..Len(entries)
      /\ Len(buf) \in Nat \ {0}
  BY <1>1, LenProperties, EmptySeq DEF IInv, TypeOK
<1>3. wd \in Events /\ wd = buf[1] /\ Tail(buf) \in Seq(Events)
  BY <1>1, <1>2, HeadTailProperties
<1>4. CASE Entry(wd) = {}
  <2>1. crashed' /\ UNCHANGED <<told_paths, buf, pc>>
    BY <1>4 DEF Dispatch
  <2>2. wd = Overflow
    <3> SUFFICES ASSUME wd # Overflow PROVE FALSE
      OBVIOUS
    <3>1. Known(buf[1])
      <4>1. \A i \in 1..Len(buf) : Known(buf[i])
        BY <1>1 DEF IInv, EventsHaveEntries
      <4> QED
        BY <1>2, <4>1
    <3>2. \E i \in 1..Len(entries) : entries[i].id = wd
      BY <1>3, <3>1 DEF Known
    <3> HIDE DEF wd
    <3> QED
      BY <1>4, <3>2, HasEntry DEF IInv
  <2>3. WatcherAborts'
    BY <1>1, <2>1, <2>2 DEF WatcherAborts
  <2>4. TypeOK' /\ Phases' /\ Alive' /\ Distinct'
    BY <1>1, <2>1 DEF IInv, TypeOK, Phases, Alive, Distinct, Open
  <2>5. EventsHaveEntries'
    BY <1>1, <2>1 DEF IInv, EventsHaveEntries, Known, Open
  <2>6. EntriesOfWatches' /\ ToldInOrder'
    BY <1>1, <2>1 DEF IInv, EntriesOfWatches, ToldInOrder, Open, Unread
  <2> QED
    BY <2>3, <2>4, <2>5, <2>6 DEF IInv
<1>5. CASE Entry(wd) # {}
  <2>1. PICK i \in Entry(wd) : told_paths' = Append(told_paths, [wd |-> wd, path |-> entries[i].path])
    BY <1>1, <1>5 DEF Dispatch
  <2>2. buf' = Tail(buf) /\ pc' = "callback" /\ crashed' = crashed /\ ~crashed
    BY <1>1, <1>5 DEF Dispatch
  <2>3. i \in 1..Len(entries) /\ entries[i].id = wd
    BY <1>2 DEF Entry
  <2> DEFINE e == [wd |-> wd, path |-> entries[i].path]
  <2>4. e \in Told /\ e.wd = wd /\ e.path = entries[i].path
    <3>1. entries[i].path \in Files
      <4>1. entries[i] \in Watched
        BY <1>2, <2>3, ElementOfSeq
      <4> QED
        BY <4>1 DEF Watched
    <3> QED
      BY <1>3, <3>1 DEF Told
  <2> HIDE DEF e, wd
  <2>5. told_paths' = Append(told_paths, e)
    BY <2>1 DEF e
  <2>6. TypeOK'
    BY <1>1, <1>2, <1>3, <2>2, <2>4, <2>5, AppendProperties DEF IInv, TypeOK
  <2>7. Phases' /\ Alive'
    BY <1>1, <2>2 DEF IInv, Phases, Alive, Open
  <2>8. Distinct' /\ WatcherAborts'
    BY <1>1, <2>2 DEF IInv, Distinct, WatcherAborts
  <2>9. EventsHaveEntries'
    <3>1. \A j \in 1..Len(buf) : Known(buf[j])
      BY <1>1 DEF IInv, EventsHaveEntries
    <3>2. Len(buf') = Len(buf) - 1 /\ \A j \in 1..Len(buf') : buf'[j] = buf[j + 1]
      BY <1>1, <1>2, <2>2, HeadTailProperties
    <3>3. \A j \in 1..Len(buf') : Known(buf'[j])
      BY <1>2, <3>1, <3>2
    <3> QED
      BY <1>1, <3>3 DEF IInv, EventsHaveEntries, Known, Open
  <2>10. EntriesOfWatches'
    <3>1. instances # 0
      <4>1. Len(<<>>) = 0
        BY EmptySeq
      <4> QED
        BY <2>3, <4>1 DEF IInv, EntriesOfWatches
    <3>2. /\ Len(told_paths') = Len(told_paths) + 1 /\ Len(told_paths) \in Nat
          /\ \A j \in 1..Len(told_paths) : told_paths'[j] = told_paths[j]
          /\ told_paths'[Len(told_paths) + 1] = e
      BY <1>2, <2>4, <2>5, AppendProperties, LenProperties
    <3>3. ASSUME instances <= 1, NEW j \in 1..Len(told_paths')
          PROVE  told_paths'[j].wd \in 1..Len(watches) /\ watches[told_paths'[j].wd] = told_paths'[j].path
      <4>1. CASE j \in 1..Len(told_paths)
        BY <3>2, <3>3, <4>1 DEF IInv, EntriesOfWatches
      <4>2. CASE j = Len(told_paths) + 1
        BY <2>3, <2>4, <3>2, <3>3, <4>2 DEF IInv, EntriesOfWatches
      <4> QED
        BY <3>2, <4>1, <4>2
    <3> QED
      BY <1>1, <3>1, <3>3 DEF IInv, EntriesOfWatches, Open
  <2>11. ToldInOrder'
    <3>1. [j \in DOMAIN told_paths' |-> told_paths'[j].wd] \o Tail(buf)
            = [j \in DOMAIN told_paths |-> told_paths[j].wd] \o buf
      <4>1. e.wd = Head(buf)
        BY <2>4 DEF wd
      <4> QED
        BY <1>1, <1>2, <2>4, <2>5, <4>1, TellNext, ZenonT(60)
    <3>2. [j \in DOMAIN told_paths' |-> told_paths'[j].wd] \o buf' \o queue'
            = [j \in DOMAIN told_paths |-> told_paths[j].wd] \o buf \o queue
      BY <1>1, <2>2, <3>1
    <3> QED
      BY <1>1, <3>2 DEF IInv, ToldInOrder, Open, Unread
  <2> QED
    BY <2>6, <2>7, <2>8, <2>9, <2>10, <2>11 DEF IInv
<1> QED
  BY <1>4, <1>5

-----------------------------------------------------------------------------
(* The application watches one more file.                                     *)
Place(w, f) == SelectInSeq(w, LAMBDA g : g = f)

Added(w, f) == IF Contains(w, f) THEN w ELSE Append(w, f)

LEMMA PlaceOf ==
  ASSUME NEW w \in Seq(Files), NEW f, NEW k \in 1..Len(w), w[k] = f,
         \A i, j \in 1..Len(w) : w[i] = w[j] => i = j
  PROVE  Place(w, f) = k
<1> DEFINE I == {i \in 1..Len(w) : w[i] = f}
<1>1. Len(w) \in Nat
  BY LenProperties
<1>2. I = {k}
  OBVIOUS
<1>3. Min({k}) = k
  BY <1>1 DEF Min
<1>4. Place(w, f) = IF I # {} THEN Min(I) ELSE 0
  BY Zenon DEF Place, SelectInSeq
<1> QED
  BY <1>2, <1>3, <1>4

Once(w) == \A i, j \in 1..Len(w) : w[i] = w[j] => i = j

(* What is known of the watches after one more, and of the id it has.         *)
Extends(old, new, f, k) ==
  /\ k \in 1..Len(new) /\ new[k] = f
  /\ new \in Seq(Files) /\ Len(old) \in Nat /\ Len(new) \in Nat
  /\ Len(old) <= Len(new) /\ \A i \in 1..Len(old) : new[i] = old[i]
  /\ \A i \in 1..Len(new) : i \in 1..Len(old) \/ i = k
  /\ \A i, j \in 1..Len(new) : new[i] = new[j] => i = j

LEMMA AddedIs ==
  ASSUME NEW old \in Seq(Files), NEW f \in Files, Once(old)
  PROVE  Extends(old, Added(old, f), f, Place(Added(old, f), f))
<1> DEFINE new == Added(old, f)
<1> SUFFICES \E k \in 1..Len(new) :
           /\ k = Place(new, f) /\ new[k] = f
           /\ new \in Seq(Files) /\ Len(old) \in Nat /\ Len(new) \in Nat
           /\ Len(old) <= Len(new) /\ \A i \in 1..Len(old) : new[i] = old[i]
           /\ \A i \in 1..Len(new) : i \in 1..Len(old) \/ i = k
           /\ \A i, j \in 1..Len(new) : new[i] = new[j] => i = j
  BY DEF Extends
<1>0. \A i, j \in 1..Len(old) : old[i] = old[j] => i = j
  BY DEF Once
<1>n. new = Added(old, f)
  OBVIOUS
<1> HIDE DEF new
<1>1. Len(old) \in Nat
  BY LenProperties
<1>2. CASE Contains(old, f)
  <2>1. PICK k \in 1..Len(old) : old[k] = f
    BY <1>2 DEF Contains
  <2>3. new = old
    BY <1>2, <1>n DEF Added
  <2>2. Place(old, f) = k
    BY <1>0, <2>1, PlaceOf
  <2> QED
    BY <1>0, <1>1, <2>1, <2>2, <2>3
<1>3. CASE ~Contains(old, f)
  <2>1. /\ new = Append(old, f) /\ new \in Seq(Files) /\ Len(new) = Len(old) + 1
        /\ \A i \in 1..Len(old) : new[i] = old[i]
        /\ new[Len(old) + 1] = f
    BY <1>3, <1>n, AppendProperties DEF Added
  <2>2. \A i \in 1..Len(old) : old[i] # f
    BY <1>3 DEF Contains
  <2>3. \A i \in 1..Len(new) : i \in 1..Len(old) \/ i = Len(new)
    BY <1>1, <2>1
  <2>4. ASSUME NEW i \in 1..Len(new), NEW j \in 1..Len(new), new[i] = new[j]
        PROVE  i = j
    BY <1>0, <1>1, <2>1, <2>2, <2>3, <2>4
  <2>5. Len(new) \in 1..Len(new) /\ new[Len(new)] = f
    BY <1>1, <2>1
  <2>6. Place(new, f) = Len(new)
    <3>1. \A i, j \in 1..Len(new) : new[i] = new[j] => i = j
      BY <2>4
    <3>2. new \in Seq(Files)
      BY <2>1
    <3> QED
      BY <2>5, <3>1, <3>2, PlaceOf, Zenon
  <2> QED
    BY <1>1, <2>1, <2>3, <2>4, <2>5, <2>6
<1> QED
  BY <1>2, <1>3

LEMMA AcceptedKeeps ==
  ASSUME IInv, NEW f \in Files, notify_watch(f, TRUE)
  PROVE  IInv'
<1> DEFINE old == IF Open THEN watches ELSE <<>>
           new == Added(old, f)
           id == Place(new, f)
           entry == [id |-> id, path |-> f]
<1>1. /\ watches' = new /\ entries' = Append(entries, entry)
      /\ notify' = "open" /\ notify # "none" /\ ~crashed /\ pc \in {"idle", "callback"}
      /\ UNCHANGED <<cancel, pc, buf, reported, crashed>>
  BY Zenon DEF notify_watch, OwnerRuns, Place, Added
<1>2. /\ Open => UNCHANGED <<queue, woken, happened, told_paths, instances, reopened>>
      /\ ~Open =>
           /\ queue' = <<>> /\ happened' = <<>> /\ told_paths' = <<>>
           /\ instances' = instances + 1
           /\ reopened' = (Unread # <<>>)
  BY DEF notify_watch
<1>x. ASSUME Open
      PROVE  /\ queue' = queue /\ happened' = happened /\ told_paths' = told_paths
             /\ instances' = instances /\ reopened' = reopened
  BY <1>2, <1>x
<1>y. ASSUME ~Open
      PROVE  /\ queue' = <<>> /\ happened' = <<>> /\ told_paths' = <<>>
             /\ instances' = instances + 1
  BY <1>2, <1>y
<1>3. /\ entries \in Seq(Watched) /\ instances \in Nat /\ queue \in Seq(Events)
      /\ happened \in Seq(Events) /\ told_paths \in Seq(Told) /\ Len(entries) \in Nat
      /\ Len(told_paths) \in Nat /\ Len(queue) \in Nat
  BY LenProperties DEF IInv, TypeOK
<1>4. /\ <<>> \in Seq(Events) /\ <<>> \in Seq(Told) /\ <<>> \in Seq(Files)
      /\ Len(<<>>) = 0
  BY EmptySeq
<1>5. old \in Seq(Files) /\ \A i, j \in 1..Len(old) : old[i] = old[j] => i = j
  <2>1. CASE Open
    BY <2>1 DEF IInv, TypeOK, Distinct
  <2>2. CASE ~Open
    BY <1>4, <2>2
  <2> QED
    BY <2>1, <2>2
<1> HIDE DEF old
<1>6. /\ id \in 1..Len(new) /\ new[id] = f
      /\ new \in Seq(Files) /\ Len(old) \in Nat /\ Len(new) \in Nat
      /\ Len(old) <= Len(new) /\ \A i \in 1..Len(old) : new[i] = old[i]
      /\ \A i \in 1..Len(new) : i \in 1..Len(old) \/ i = id
      /\ \A i, j \in 1..Len(new) : new[i] = new[j] => i = j
  <2>1. Once(old)
    BY <1>5 DEF Once
  <2>2. Extends(old, new, f, id)
    BY <1>5, <2>1, AddedIs
  <2> HIDE DEF new, id
  <2> QED
    BY <2>2 DEF Extends
<1> HIDE DEF new, id
<1>7. entry \in Watched /\ entry.id = id /\ entry.path = f
  BY <1>6 DEF Watched
<1> HIDE DEF entry
<1>8. /\ entries' \in Seq(Watched) /\ Len(entries') = Len(entries) + 1
      /\ \A i \in 1..Len(entries) : entries'[i] = entries[i]
      /\ entries'[Len(entries) + 1] = entry
  BY <1>1, <1>3, <1>7, AppendProperties
<1>9. TypeOK'
  <2>1. /\ queue' \in Seq(Events) /\ happened' \in Seq(Events)
        /\ told_paths' \in Seq(Told) /\ instances' \in Nat
    <3>1. CASE Open
      BY <1>3, <1>x, <3>1
    <3>2. CASE ~Open
      BY <1>3, <1>4, <1>y, <3>2
    <3> QED
      BY <3>1, <3>2
  <2>2. watches' \in Seq(Files) /\ notify' \in {"none", "closed", "open"}
    BY <1>1, <1>6
  <2>3. UNCHANGED <<pc, cancel, buf>>
    BY <1>1
  <2> QED
    BY <1>8, <2>1, <2>2, <2>3 DEF IInv, TypeOK
<1>10. Phases' /\ Alive'
  BY <1>1 DEF IInv, Phases, Alive, Open
<1>11. Distinct' /\ WatcherAborts'
  BY <1>1, <1>6 DEF Distinct, WatcherAborts
<1>12. EventsHaveEntries'
  <2>1. ASSUME NEW wd, Known(wd)
        PROVE  Known(wd)'
    BY <1>3, <1>8, <2>1 DEF Known
  <2>2. /\ \A i \in 1..Len(queue') : Known(queue'[i])
        /\ \A wd \in 1..Len(old) : Known(wd)
    <3>1. CASE Open
      BY <1>x, <3>1 DEF IInv, EventsHaveEntries, old
    <3>2. CASE ~Open
      BY <1>4, <1>y, <3>2 DEF old
    <3> QED
      BY <3>1, <3>2
  <2>3. \E i \in 1..Len(entries') : entries'[i].id = id
    BY <1>3, <1>7, <1>8
  <2>4. ASSUME NEW wd \in 1..Len(new)
        PROVE  Known(wd)'
    <3>1. CASE wd = id
      BY <2>3, <3>1 DEF Known
    <3>2. CASE wd \in 1..Len(old)
      BY <2>1, <2>2, <3>2
    <3> QED
      BY <1>6, <3>1, <3>2
  <2>5. notify # "none" /\ ~cancel => \A i \in 1..Len(buf) : Known(buf[i])
    BY DEF IInv, EventsHaveEntries
  <2> QED
    BY <1>1, <2>1, <2>2, <2>4, <2>5 DEF EventsHaveEntries
<1>13. EntriesOfWatches'
  <2>1. instances' # 0
    <3>1. CASE Open
      BY <1>x, <3>1 DEF IInv, EntriesOfWatches
    <3>2. CASE ~Open
      BY <1>3, <1>y, <3>2
    <3> QED
      BY <3>1, <3>2
  <2> SUFFICES ASSUME instances' <= 1
               PROVE  /\ \A i \in 1..Len(entries') :
                           /\ entries'[i].id \in 1..Len(new)
                           /\ new[entries'[i].id] = entries'[i].path
                      /\ \A i \in 1..Len(told_paths') :
                           told_paths'[i].wd \in 1..Len(new) /\ new[told_paths'[i].wd] = told_paths'[i].path
    BY <1>1, <2>1 DEF EntriesOfWatches
  <2>2. /\ \A i \in 1..Len(entries) :
             entries[i].id \in 1..Len(old) /\ old[entries[i].id] = entries[i].path
        /\ \A i \in 1..Len(told_paths') :
             told_paths'[i].wd \in 1..Len(old) /\ old[told_paths'[i].wd] = told_paths'[i].path
    <3>1. CASE Open
      <4>1. old = watches /\ told_paths' = told_paths /\ instances' = instances
        BY <1>x, <3>1 DEF old
      <4>2. instances <= 1
        BY <4>1
      <4>3. /\ \A i \in 1..Len(entries) :
                 entries[i].id \in 1..Len(watches) /\ watches[entries[i].id] = entries[i].path
            /\ \A i \in 1..Len(told_paths) :
                 told_paths[i].wd \in 1..Len(watches) /\ watches[told_paths[i].wd] = told_paths[i].path
        BY <4>2 DEF IInv, EntriesOfWatches
      <4> QED
        BY <4>1, <4>3
    <3>2. CASE ~Open
      <4>1. instances = 0
        BY <1>3, <1>y, <3>2
      <4>2. entries = <<>> /\ told_paths' = <<>>
        BY <1>y, <3>2, <4>1 DEF IInv, EntriesOfWatches
      <4> QED
        BY <1>4, <4>2
    <3> QED
      BY <3>1, <3>2
  <2>3. ASSUME NEW i \in 1..Len(entries')
        PROVE  entries'[i].id \in 1..Len(new) /\ new[entries'[i].id] = entries'[i].path
    <3>1. CASE i \in 1..Len(entries)
      <4>1. entries'[i] = entries[i]
        BY <1>8, <3>1
      <4>2. /\ entries[i].id \in 1..Len(old) /\ old[entries[i].id] = entries[i].path
        BY <2>2, <3>1
      <4>3. /\ entries[i].id \in 1..Len(new)
            /\ new[entries[i].id] = old[entries[i].id]
        BY <1>6, <4>2
      <4> QED
        BY <4>1, <4>2, <4>3
    <3>2. CASE i = Len(entries) + 1
      BY <1>6, <1>7, <1>8, <3>2
    <3> QED
      BY <1>3, <1>8, <3>1, <3>2
  <2> QED
    BY <1>6, <2>2, <2>3
<1>14. ToldInOrder'
  <2>1. CASE Open
    <3>1. UNCHANGED <<queue, happened, told_paths, reopened, Unread>>
      BY <1>1, <1>2, <2>1 DEF Unread
    <3> QED
      BY <2>1, <3>1 DEF IInv, ToldInOrder
  <2>2. CASE ~Open
    <3> SUFFICES ASSUME ~reopened'
                 PROVE  [i \in DOMAIN told_paths' |-> told_paths'[i].wd] \o Unread' \o queue'
                          = happened'
      BY DEF ToldInOrder
    <3>1. Unread' = <<>> /\ queue' = <<>> /\ told_paths' = <<>> /\ happened' = <<>>
      BY <1>1, <1>2, <2>2 DEF Unread
    <3>2. [i \in DOMAIN told_paths' |-> told_paths'[i].wd] = <<>>
      <4> DEFINE t == told_paths'
      <4>1. t = <<>>
        BY <3>1
      <4> HIDE DEF t
      <4>2. Ids(t) = <<>>
        BY <4>1, NothingTold
      <4> QED
        BY <4>2, Zenon DEF t, Ids
    <3> QED
      BY <1>4, <3>1, <3>2, ConcatEmptySeq
  <2> QED
    BY <2>1, <2>2
<1> QED
  BY <1>9, <1>10, <1>11, <1>12, <1>13, <1>14 DEF IInv

(* A file that the kernel refuses: at most there is a new instance.           *)
LEMMA RefusedKeeps ==
  ASSUME IInv, NEW f \in Files, notify_watch(f, FALSE)
  PROVE  IInv'
<1>1. /\ notify' = "open" /\ notify # "none" /\ ~crashed /\ pc \in {"idle", "callback"}
      /\ UNCHANGED <<entries, cancel, pc, buf, reported, crashed>>
  BY DEF notify_watch, OwnerRuns
<1>2. CASE Open
  <2>1. UNCHANGED <<notify, watches, queue, happened, told_paths, instances, reopened>>
    BY <1>1, <1>2 DEF notify_watch, Open
  <2> QED
    BY <1>1, <2>1, ZenonT(60)
    DEF IInv, TypeOK, Phases, Alive, Distinct, EventsHaveEntries, Known,
        EntriesOfWatches, ToldInOrder, WatcherAborts, Open, Unread
<1>3. CASE ~Open
  <2>1. /\ watches' = <<>> /\ queue' = <<>> /\ happened' = <<>> /\ told_paths' = <<>>
        /\ instances' = instances + 1 /\ reopened' = (Unread # <<>>)
    BY <1>3 DEF notify_watch
  <2>2. /\ <<>> \in Seq(Events) /\ <<>> \in Seq(Told) /\ <<>> \in Seq(Files)
        /\ Len(<<>>) = 0
    BY EmptySeq
  <2>3. TypeOK' /\ Phases' /\ Alive' /\ Distinct' /\ WatcherAborts'
    BY <1>1, <2>1, <2>2 DEF IInv, TypeOK, Phases, Alive, Distinct, WatcherAborts, Open
  <2>4. EventsHaveEntries'
    BY <1>1, <2>1, <2>2 DEF IInv, EventsHaveEntries, Known
  <2>5. EntriesOfWatches'
    <3>1. instances' # 0 /\ (instances' <= 1 => instances = 0)
      BY <2>1 DEF IInv, TypeOK
    <3>2. instances = 0 => entries = <<>>
      BY DEF IInv, EntriesOfWatches
    <3> QED
      BY <1>1, <2>1, <2>2, <3>1, <3>2 DEF EntriesOfWatches
  <2>6. ToldInOrder'
    <3> SUFFICES ASSUME ~reopened'
                 PROVE  Ids(told_paths') \o Unread' \o queue' = happened'
      BY Zenon DEF ToldInOrder, Ids
    <3>1. Unread' = <<>>
      BY <1>1, <2>1 DEF Unread
    <3>2. Ids(told_paths') = <<>>
      BY <2>1, NothingTold
    <3> QED
      BY <2>1, <2>2, <3>1, <3>2, ConcatEmptySeq
  <2> QED
    BY <2>3, <2>4, <2>5, <2>6 DEF IInv
<1> QED
  BY <1>2, <1>3

-----------------------------------------------------------------------------
LEMMA NextIInv ==
  ASSUME IInv, [NotifyNext]_notify_vars
  PROVE  IInv'
<1>1. ASSUME NEW wd \in DOMAIN watches, Happens(wd) PROVE IInv'
  <2>1. wd \in 1..Len(watches)
    BY LenProperties DEF IInv, TypeOK
  <2> QED
    BY <1>1, <2>1, HappensKeeps
<1>2. CASE NotifyReport
  BY <1>2, ReportKeeps
<1>3. CASE notify_callback
  BY <1>3, DeliverKeeps, ReadKeeps, DispatchKeeps, ReturnKeeps DEF notify_callback
<1>4. CASE notify_construct \/ notify_clear \/ notify_destruct
  BY <1>4, ConstructKeeps, ClearKeeps, DestructKeeps
<1>5. ASSUME NEW f \in Files, NEW accepted \in BOOLEAN, notify_watch(f, accepted)
      PROVE  IInv'
  <2>1. accepted = TRUE \/ accepted = FALSE
    OBVIOUS
  <2> QED
    BY <1>5, <2>1, AcceptedKeeps, RefusedKeeps
<1>6. CASE UNCHANGED notify_vars
  BY <1>6, ZenonT(60)
  DEF notify_vars, kernel, IInv, TypeOK, Phases, Alive, Distinct, EventsHaveEntries, Known,
      EntriesOfWatches, ToldInOrder, WatcherAborts, Open, Unread
<1> QED
  BY <1>1, <1>2, <1>3, <1>4, <1>5, <1>6 DEF NotifyNext

LEMMA Invariance == NotifySpec => []IInv
<1>1. IInv /\ [NotifyNext]_notify_vars => IInv'
  BY NextIInv
<1> QED
  BY <1>1, InitIInv, PTL DEF NotifySpec

(* A watcher that was destroyed is never used by notify_callback, even if it  *)
(* was constructed again, and an assertion fails only of the overflow event,  *)
(* or when the watcher was cleared in the callback and is not watching again. *)
THEOREM WatcherAbortsForAReason == NotifySpec => []WatcherAborts
<1>1. IInv => WatcherAborts
  BY DEF IInv
<1> QED
  BY <1>1, Invariance, PTL

(* An event is told with the path of the file to which it happened, however   *)
(* the watches and their ids are made, as long as the object has had one      *)
(* inotify instance.                                                          *)
THEOREM PathIsRight == NotifySpec => []RightPath
<1>1. IInv => RightPath
  BY LenProperties DEF IInv, TypeOK, EntriesOfWatches, RightPath
<1> QED
  BY <1>1, Invariance, PTL

(* Every event that happened to the open instance was told, is in the buffer  *)
(* or in the kernel's queue, once and in this order, whatever the callback    *)
(* does, unless it clears the watcher and opens it again with events left.    *)
THEOREM EventsToldInOrder == NotifySpec => []ToldInOrder
<1>1. IInv => ToldInOrder
  BY DEF IInv
<1> QED
  BY <1>1, Invariance, PTL
=============================================================================
