--------------------------- MODULE ReactorProofs ---------------------------
(***************************************************************************)
(* Proofs about Reactor, for every number of descriptors, every set of     *)
(* masks and every REACTOR_MAX_EVENTS.                                     *)
(***************************************************************************)
EXTENDS Reactor, TLAPS, SequenceTheorems, FiniteSetTheorems

(* ---- Sequences ---------------------------------------------------------- *)

(* A function on 1..n is a sequence of length n; what reactor_delete and      *)
(* epoll_wait leave in the array is such a function.                          *)
LEMMA FunctionIsSeq ==
  ASSUME NEW S, NEW n \in Nat, NEW f \in [1..n -> S]
  PROVE  f \in Seq(S) /\ Len(f) = n
  BY SeqDef

(* reactor_delete's sweep keeps the length of the batch, and what it writes   *)
(* are entries.                                                               *)
LEMMA ClearPendingType ==
  ASSUME TypeOK, NEW d \in Descriptors
  PROVE  /\ ClearPending(d) \in Seq(Entry)
         /\ Len(ClearPending(d)) = Len(events)
         /\ \A i \in 1..Len(events) :
              ClearPending(d)[i] = IF i >= event /\ events[i].handler = d
                                   THEN Cleared ELSE events[i]
<1>1. Len(events) \in Nat /\ \A i \in 1..Len(events) : events[i] \in Entry
  BY DEF TypeOK
<1>2. Cleared \in Entry
  BY DEF Cleared, Entry
<1>3. ClearPending(d) \in [1..Len(events) -> Entry]
  BY <1>1, <1>2 DEF ClearPending
<1>4. QED
  BY <1>1, <1>3, FunctionIsSeq DEF ClearPending

(* ---- Type correctness --------------------------------------------------- *)

LEMMA InitTypeOK == Init => TypeOK
<1> SUFFICES ASSUME Init PROVE TypeOK
  OBVIOUS
<1>1. events \in Seq(Entry) /\ event \in 1..Len(events) + 1
  BY EmptySeq DEF Init
<1>2. mask \in [Descriptors -> SUBSET Flags] /\ level \in [Descriptors -> SUBSET Kinds]
  BY DEF Init
<1>3. is_open \in SUBSET alive /\ ready \in SUBSET is_open /\ tested \in SUBSET Kinds
  BY DEF Init
<1>4. active \in BOOLEAN /\ looping \in BOOLEAN
  BY Zenon DEF Init
<1>5. descriptors \in Int /\ opens \in [Descriptors -> Nat] /\ alive \in SUBSET Descriptors
  BY DEF Init
<1>6. phase \in {"main", "test", "enter", "wait", "batch", "callback"}
  BY DEF Init
<1>7. QED
  BY <1>1, <1>2, <1>3, <1>4, <1>5, <1>6 DEF TypeOK

LEMMA CloseEffectType ==
  ASSUME TypeOK, NEW d \in Descriptors, d \in is_open, CloseEffect(d)
  PROVE  /\ events' \in Seq(Entry) /\ Len(events') = Len(events)
         /\ descriptors' \in Int
         /\ is_open' = is_open \ {d}
         /\ mask' \in [Descriptors -> SUBSET Flags]
         /\ level' \in [Descriptors -> SUBSET Kinds]
         /\ ready' \in SUBSET is_open'
  BY ClearPendingType DEF TypeOK, CloseEffect

(* epoll_wait fills the array with entries for open descriptors.              *)
LEMMA BatchType ==
  ASSUME TypeOK, NEW n \in Nat, NEW b \in [1..n -> ready], epoll_wait(b)
  PROVE  /\ events' \in Seq(Entry)
         /\ Len(events') = n
         /\ \A i \in 1..n :
              events'[i] = [handler |-> b[i], bits |-> Reportable(b[i]),
                            reg |-> opens[b[i]]]
<1>1. DOMAIN b = 1..n /\ \A i \in 1..n : b[i] \in Descriptors
  BY DEF TypeOK
<1>2. \A i \in 1..n : /\ Reportable(b[i]) \in SUBSET Kinds
                       /\ opens[b[i]] \in Nat
  BY <1>1 DEF TypeOK, Reportable
<1>3. events' = [i \in 1..n |-> [handler |-> b[i], bits |-> Reportable(b[i]),
                                 reg |-> opens[b[i]]]]
  BY <1>1 DEF epoll_wait
<1>4. \A i \in 1..n : [handler |-> b[i], bits |-> Reportable(b[i]),
                        reg |-> opens[b[i]]] \in Entry
  BY <1>1, <1>2 DEF Entry
<1>5. events' \in [1..n -> Entry]
  BY <1>3, <1>4
<1>6. QED
  BY <1>3, <1>5, FunctionIsSeq

LEMMA NextTypeOK == TypeOK /\ [Next]_vars => TypeOK'
<1> SUFFICES ASSUME TypeOK, [Next]_vars PROVE TypeOK'
  OBVIOUS
<1> USE ConstantsOK DEF TypeOK
<1>1. ASSUME NEW d \in Descriptors, descriptor_construct(d) PROVE TypeOK'
  BY <1>1 DEF descriptor_construct, core_vars, kernel_vars
<1>2. ASSUME NEW d \in Descriptors, NEW m \in Masks, descriptor_open(d, m)
      PROVE  TypeOK'
  BY <1>2 DEF descriptor_open, Kinds
<1>3. ASSUME NEW d \in Descriptors, NEW m \in Masks, descriptor_mask(d, m)
      PROVE  TypeOK'
  BY <1>3 DEF descriptor_mask, core_vars
<1>4. ASSUME NEW d \in Descriptors, descriptor_close(d) PROVE TypeOK'
  BY <1>4, CloseEffectType DEF descriptor_close
<1>5. ASSUME NEW d \in Descriptors, descriptor_destruct(d) PROVE TypeOK'
  <2>1. CASE d \in is_open /\ CloseEffect(d)
    BY <1>5, <2>1, CloseEffectType DEF descriptor_destruct
  <2>2. CASE d \notin is_open /\ UNCHANGED <<events, descriptors, is_open, mask,
                                              kernel_vars>>
    BY <1>5, <2>2 DEF descriptor_destruct, kernel_vars
  <2>3. QED
    BY <1>5, <2>1, <2>2 DEF descriptor_destruct
<1>6. ASSUME NEW d \in Descriptors, NEW k \in Kinds, Consume(d, k) PROVE TypeOK'
  BY <1>6 DEF Consume, core_vars, descriptor_vars
<1>7. CASE reactor_abort
  BY <1>7 DEF reactor_abort, descriptor_vars, kernel_vars
<1>8. CASE reactor_construct
  <2>1. <<>> \in Seq(Entry) /\ Len(<<>>) = 0
    OBVIOUS
  <2>2. QED
    BY <1>8, <2>1 DEF reactor_construct, descriptor_vars, kernel_vars
<1>9. CASE CallLoop
  BY <1>9 DEF CallLoop, descriptor_vars, kernel_vars
<1>10. CASE reactor_loop
  BY <1>10 DEF reactor_loop, descriptor_vars, kernel_vars
<1>11. CASE Block
  BY <1>11 DEF Block, descriptor_vars, kernel_vars
<1>12. ASSUME NEW d \in Descriptors, WaitReports(d) PROVE TypeOK'
  <2>0. PICK n \in 1..MaxEvents :
          \E c \in [1..n -> ready] : epoll_wait(c)
    BY <1>12 DEF WaitReports
  <2>1. PICK b \in [1..n -> ready] : epoll_wait(b)
    BY <2>0
  <2>2. events' \in Seq(Entry) /\ Len(events') = n
    BY <2>1, BatchType
  <2>3. QED
    BY <2>1, <2>2 DEF epoll_wait, descriptor_vars
<1>13. ASSUME NEW k \in Kinds, descriptor_callback(k) PROVE TypeOK'
  BY <1>13 DEF descriptor_callback, descriptor_vars, kernel_vars, Before, Kinds
<1>14. CASE Return
  BY <1>14 DEF Return, descriptor_vars, kernel_vars
<1>15. CASE NextEvent
  BY <1>15 DEF NextEvent, descriptor_vars, kernel_vars
<1>16. CASE EndOfBatch
  <2>1. <<>> \in Seq(Entry) /\ Len(<<>>) = 0
    OBVIOUS
  <2>2. QED
    BY <1>16, <2>1 DEF EndOfBatch, AfterOnce, descriptor_vars, kernel_vars
<1>17. ASSUME NEW d \in Descriptors, NEW k \in Kinds, Wakeup(d, k) PROVE TypeOK'
  BY <1>17 DEF Wakeup, core_vars, descriptor_vars
<1>18. CASE Interrupt
  BY <1>18 DEF Interrupt, AfterOnce, descriptor_vars, kernel_vars
<1>19. CASE reactor_signal
  BY <1>19 DEF reactor_signal, AfterOnce, descriptor_vars, kernel_vars
<1>20. CASE UNCHANGED vars
  BY <1>20 DEF vars, core_vars, descriptor_vars, kernel_vars
<1>21. QED
  BY <1>1, <1>2, <1>3, <1>4, <1>5, <1>6, <1>7, <1>8, <1>9, <1>10, <1>11,
     <1>12, <1>13, <1>14, <1>15, <1>16, <1>17, <1>18, <1>19, <1>20
  DEF Next, Owners, Loop, Environment

(* Every variable keeps its type.                                             *)
THEOREM TypeCorrect == Spec => []TypeOK
<1>1. Init => TypeOK
  BY InitTypeOK
<1>2. TypeOK /\ [Next]_vars => TypeOK'
  BY NextTypeOK
<1>3. QED
  BY <1>1, <1>2, PTL DEF Spec

(* ---- The inductive invariant --------------------------------------------- *)

(* What PendingIsCurrent and the refinement rest on: outside a batch nothing  *)
(* is pending, an overwritten entry carries no event, the bits are tested in  *)
(* the order of descriptor_callback, and one batch holds a handler once.      *)
NothingPendingOutside == phase \notin {"batch", "callback"} => Len(events) = 0

ClearedIsEmpty ==
  \A i \in 1..Len(events) : events[i].handler = Default => events[i].bits = {}

TestedInOrder == tested \in {{}, {"read"}, {"read", "write"}, Kinds}

PendingOnce ==
  \A i, j \in event..Len(events) :
    i # j /\ events[i].handler = events[j].handler => events[i].handler = Default

IInv ==
  /\ TypeOK
  /\ RegisteredCount
  /\ PendingIsCurrent
  /\ NeverWaitsOnNothing
  /\ NothingPendingOutside
  /\ ClearedIsEmpty
  /\ TestedInOrder
  /\ PendingOnce

(* Closing an open descriptor takes its entries out of the batch, leaves the  *)
(* entries of the others and lowers the count with the set.                   *)
LEMMA CloseEffectKeeps ==
  ASSUME IInv, NEW d \in Descriptors, d \in is_open, CloseEffect(d),
         AppRuns, event' = event, phase' = phase, opens' = opens
  PROVE  /\ RegisteredCount'
         /\ PendingIsCurrent'
         /\ NeverWaitsOnNothing'
         /\ NothingPendingOutside'
         /\ ClearedIsEmpty'
         /\ PendingOnce'
<1> USE DEF IInv
<1>1. /\ Len(events') = Len(events)
      /\ \A i \in 1..Len(events) :
           events'[i] = IF i >= event /\ events[i].handler = d
                        THEN Cleared ELSE events[i]
  BY ClearPendingType DEF CloseEffect
<1>2. event \in Nat \ {0} /\ Len(events) \in Nat
  BY DEF TypeOK
<1>3. Default \notin Descriptors /\ Cleared.handler = Default /\ Cleared.bits = {}
  BY ConstantsOK DEF Cleared
<1>4. RegisteredCount'
  <2>1. IsFiniteSet(is_open)
    BY ConstantsOK, FS_Subset DEF TypeOK
  <2>2. Cardinality(is_open \ {d}) = Cardinality(is_open) - 1
    BY <2>1, FS_RemoveElement
  <2>3. QED
    BY <2>2 DEF RegisteredCount, CloseEffect
<1>5. PendingIsCurrent'
  BY <1>1, <1>2, <1>3 DEF PendingIsCurrent, CloseEffect
<1>6. NeverWaitsOnNothing' /\ NothingPendingOutside'
  BY <1>1 DEF NeverWaitsOnNothing, NothingPendingOutside, AppRuns
<1>7. ClearedIsEmpty' /\ PendingOnce'
  BY <1>1, <1>2, <1>3 DEF ClearedIsEmpty, PendingOnce
<1>8. QED
  BY <1>4, <1>5, <1>6, <1>7

(* The actions that leave the batch, the registrations and the counter alone  *)
(* keep what is said about them.                                              *)
LEMMA BatchUnchanged ==
  ASSUME IInv, UNCHANGED <<events, event, tested, descriptors, is_open, opens>>,
         phase' \notin {"batch", "callback"} => Len(events) = 0
  PROVE  /\ RegisteredCount' /\ PendingIsCurrent' /\ NothingPendingOutside'
         /\ ClearedIsEmpty' /\ TestedInOrder' /\ PendingOnce'
  BY DEF IInv, RegisteredCount, PendingIsCurrent, NothingPendingOutside,
         ClearedIsEmpty, TestedInOrder, PendingOnce

LEMMA InitIInv == Init => IInv
<1> SUFFICES ASSUME Init PROVE IInv
  OBVIOUS
<1>1. TypeOK
  BY InitTypeOK
<1>2. Len(events) = 0 /\ event = 1
  BY DEF Init
<1>3. RegisteredCount
  BY FS_EmptySet DEF Init, RegisteredCount
<1>4. PendingIsCurrent /\ ClearedIsEmpty /\ PendingOnce
  BY <1>2 DEF PendingIsCurrent, ClearedIsEmpty, PendingOnce
<1>5. NeverWaitsOnNothing /\ NothingPendingOutside /\ TestedInOrder
  BY <1>2 DEF Init, NeverWaitsOnNothing, NothingPendingOutside, TestedInOrder
<1>6. QED
  BY <1>1, <1>3, <1>4, <1>5 DEF IInv

LEMMA NextIInv == IInv /\ [Next]_vars => IInv'
<1> SUFFICES ASSUME IInv, [Next]_vars PROVE IInv'
  OBVIOUS
<1>0. TypeOK /\ TypeOK'
  BY NextTypeOK DEF IInv
<1>1. ASSUME NEW d \in Descriptors, descriptor_construct(d) PROVE IInv'
  BY <1>0, <1>1, BatchUnchanged
  DEF descriptor_construct, core_vars, kernel_vars, IInv, NeverWaitsOnNothing,
      NothingPendingOutside
<1>2. ASSUME NEW d \in Descriptors, NEW m \in Masks, descriptor_open(d, m)
      PROVE  IInv'
  <2>1. RegisteredCount'
    <3>1. IsFiniteSet(is_open)
      BY <1>0, ConstantsOK, FS_Subset DEF TypeOK
    <3>2. QED
      BY <1>2, <3>1, FS_AddElement DEF descriptor_open, IInv, RegisteredCount
  <2>2. PendingIsCurrent'
    <3>1. d \notin is_open /\ is_open' = is_open \cup {d}
      BY <1>2 DEF descriptor_open
    <3>2. \A c \in Descriptors \ {d} : opens'[c] = opens[c]
      BY <1>0, <1>2 DEF descriptor_open, TypeOK
    <3>3. is_open \subseteq Descriptors
      BY <1>0 DEF TypeOK
    <3>4. UNCHANGED <<events, event>>
      BY <1>2 DEF descriptor_open
    <3>5. QED
      BY <3>1, <3>2, <3>3, <3>4 DEF IInv, PendingIsCurrent
  <2>3. NeverWaitsOnNothing' /\ NothingPendingOutside'
    BY <1>2 DEF descriptor_open, IInv, NeverWaitsOnNothing, NothingPendingOutside
  <2>4. ClearedIsEmpty' /\ TestedInOrder' /\ PendingOnce'
    BY <1>2 DEF descriptor_open, IInv, ClearedIsEmpty, TestedInOrder, PendingOnce
  <2>5. QED
    BY <1>0, <2>1, <2>2, <2>3, <2>4 DEF IInv
<1>3. ASSUME NEW d \in Descriptors, NEW m \in Masks, descriptor_mask(d, m)
      PROVE  IInv'
  BY <1>0, <1>3, BatchUnchanged
  DEF descriptor_mask, core_vars, IInv, NeverWaitsOnNothing, NothingPendingOutside
<1>4. ASSUME NEW d \in Descriptors, descriptor_close(d) PROVE IInv'
  BY <1>0, <1>4, CloseEffectKeeps DEF descriptor_close, IInv, TestedInOrder
<1>5. ASSUME NEW d \in Descriptors, descriptor_destruct(d) PROVE IInv'
  <2>1. CASE d \in is_open /\ CloseEffect(d)
    BY <1>0, <1>5, <2>1, CloseEffectKeeps
    DEF descriptor_destruct, IInv, TestedInOrder
  <2>2. CASE UNCHANGED <<events, descriptors, is_open, mask, kernel_vars>>
    BY <1>0, <1>5, <2>2, BatchUnchanged
    DEF descriptor_destruct, kernel_vars, IInv, NeverWaitsOnNothing,
        NothingPendingOutside
  <2>3. QED
    BY <1>5, <2>1, <2>2 DEF descriptor_destruct
<1>6. ASSUME NEW d \in Descriptors, NEW k \in Kinds, Consume(d, k) PROVE IInv'
  BY <1>0, <1>6, BatchUnchanged
  DEF Consume, core_vars, descriptor_vars, IInv, NeverWaitsOnNothing,
      NothingPendingOutside
<1>7. CASE reactor_abort
  BY <1>0, <1>7, BatchUnchanged
  DEF reactor_abort, descriptor_vars, kernel_vars, IInv, NeverWaitsOnNothing,
      NothingPendingOutside
<1>8. CASE reactor_construct
  <2>1. Len(events') = 0 /\ event' = 1 /\ tested' = {}
    BY <1>8 DEF reactor_construct
  <2>2. RegisteredCount'
    BY <1>8, FS_EmptySet DEF reactor_construct, descriptor_vars, RegisteredCount
  <2>3. PendingIsCurrent' /\ ClearedIsEmpty' /\ PendingOnce' /\ TestedInOrder'
    BY <2>1 DEF PendingIsCurrent, ClearedIsEmpty, PendingOnce, TestedInOrder
  <2>4. NeverWaitsOnNothing' /\ NothingPendingOutside'
    BY <1>8, <2>1 DEF reactor_construct, NeverWaitsOnNothing, NothingPendingOutside
  <2>5. QED
    BY <1>0, <2>2, <2>3, <2>4 DEF IInv
<1>9. CASE CallLoop
  BY <1>0, <1>9, BatchUnchanged
  DEF CallLoop, descriptor_vars, kernel_vars, IInv, NeverWaitsOnNothing,
      NothingPendingOutside
<1>10. CASE reactor_loop
  <2>1. NeverWaitsOnNothing'
    <3>1. descriptors > 0 => is_open # {}
      BY FS_EmptySet DEF IInv, RegisteredCount
    <3>2. QED
      BY <1>10, <3>1 DEF reactor_loop, descriptor_vars, NeverWaitsOnNothing
  <2>2. QED
    BY <1>0, <1>10, <2>1, BatchUnchanged
    DEF reactor_loop, descriptor_vars, kernel_vars, IInv, NothingPendingOutside
<1>11. CASE Block
  BY <1>0, <1>11, BatchUnchanged
  DEF Block, descriptor_vars, kernel_vars, IInv, NeverWaitsOnNothing,
      NothingPendingOutside
<1>12. ASSUME NEW d \in Descriptors, WaitReports(d) PROVE IInv'
  <2>0. PICK n \in 1..MaxEvents :
          \E c \in [1..n -> ready] : epoll_wait(c)
    BY <1>12 DEF WaitReports
  <2>1. PICK b \in [1..n -> ready] : epoll_wait(b)
    BY <2>0
  <2>2. /\ Len(events') = n
        /\ \A i \in 1..n : events'[i].handler = b[i] /\ events'[i].reg = opens[b[i]]
        /\ event' = 1 /\ tested' = {} /\ phase' = "batch"
    BY <1>0, <2>1, BatchType DEF epoll_wait
  <2>3. /\ \A i \in 1..n : b[i] \in is_open /\ b[i] \in Descriptors
        /\ \A i, j \in 1..n : i # j => b[i] # b[j]
    BY <1>0, <2>1 DEF epoll_wait, TypeOK
  <2>4. UNCHANGED <<descriptors, is_open, opens>>
    BY <2>1 DEF epoll_wait, descriptor_vars
  <2>5. RegisteredCount'
    BY <2>4 DEF IInv, RegisteredCount
  <2>6. PendingIsCurrent'
    BY <2>2, <2>3, <2>4 DEF PendingIsCurrent
  <2>7. NeverWaitsOnNothing' /\ NothingPendingOutside' /\ TestedInOrder'
    BY <2>2 DEF NeverWaitsOnNothing, NothingPendingOutside, TestedInOrder
  <2>8. ClearedIsEmpty'
    BY <2>2, <2>3, ConstantsOK DEF ClearedIsEmpty
  <2>9. PendingOnce'
    BY <2>2, <2>3 DEF PendingOnce
  <2>10. QED
    BY <1>0, <2>5, <2>6, <2>7, <2>8, <2>9 DEF IInv
<1>13. ASSUME NEW k \in Kinds, descriptor_callback(k) PROVE IInv'
  <2>1. TestedInOrder'
    BY <1>13 DEF descriptor_callback, TestedInOrder, Before, Kinds
  <2>2. UNCHANGED <<events, event, descriptors, is_open, opens>>
    BY <1>13 DEF descriptor_callback, descriptor_vars
  <2>3. RegisteredCount' /\ PendingIsCurrent' /\ ClearedIsEmpty' /\ PendingOnce'
    BY <2>2 DEF IInv, RegisteredCount, PendingIsCurrent, ClearedIsEmpty, PendingOnce
  <2>4. NeverWaitsOnNothing' /\ NothingPendingOutside'
    BY <1>13 DEF descriptor_callback, NeverWaitsOnNothing, NothingPendingOutside
  <2>5. QED
    BY <1>0, <2>1, <2>3, <2>4 DEF IInv
<1>14. CASE Return
  BY <1>0, <1>14, BatchUnchanged
  DEF Return, descriptor_vars, kernel_vars, IInv, NeverWaitsOnNothing
<1>15. CASE NextEvent
  <2>1. /\ event' = event + 1 /\ tested' = {} /\ phase' = phase
        /\ UNCHANGED <<events, descriptors, is_open, opens, looping>>
    BY <1>15 DEF NextEvent, descriptor_vars
  <2>2. event \in Nat /\ Len(events) \in Nat
    BY <1>0 DEF TypeOK
  <2>3. RegisteredCount' /\ ClearedIsEmpty' /\ TestedInOrder'
    BY <2>1 DEF IInv, RegisteredCount, ClearedIsEmpty, TestedInOrder
  <2>4. PendingIsCurrent'
    BY <2>1, <2>2 DEF IInv, PendingIsCurrent
  <2>5. PendingOnce'
    BY <2>1, <2>2 DEF IInv, PendingOnce
  <2>6. NeverWaitsOnNothing' /\ NothingPendingOutside'
    BY <2>1 DEF IInv, NeverWaitsOnNothing, NothingPendingOutside
  <2>7. QED
    BY <1>0, <2>3, <2>4, <2>5, <2>6 DEF IInv
<1>16. CASE EndOfBatch
  <2>1. Len(events') = 0 /\ event' = 1
    BY <1>16 DEF EndOfBatch
  <2>2. PendingIsCurrent' /\ ClearedIsEmpty' /\ PendingOnce' /\ NothingPendingOutside'
    BY <2>1 DEF PendingIsCurrent, ClearedIsEmpty, PendingOnce, NothingPendingOutside
  <2>3. RegisteredCount' /\ TestedInOrder'
    BY <1>16 DEF EndOfBatch, descriptor_vars, IInv, RegisteredCount, TestedInOrder
  <2>4. NeverWaitsOnNothing'
    BY <1>16 DEF EndOfBatch, AfterOnce, NeverWaitsOnNothing
  <2>5. QED
    BY <1>0, <2>2, <2>3, <2>4 DEF IInv
<1>17. ASSUME NEW d \in Descriptors, NEW k \in Kinds, Wakeup(d, k) PROVE IInv'
  BY <1>0, <1>17, BatchUnchanged
  DEF Wakeup, core_vars, descriptor_vars, IInv, NeverWaitsOnNothing,
      NothingPendingOutside
<1>18. CASE Interrupt
  BY <1>0, <1>18, BatchUnchanged
  DEF Interrupt, AfterOnce, descriptor_vars, kernel_vars, IInv,
      NeverWaitsOnNothing, NothingPendingOutside
<1>19. CASE reactor_signal
  BY <1>0, <1>19, BatchUnchanged
  DEF reactor_signal, AfterOnce, descriptor_vars, kernel_vars, IInv,
      NeverWaitsOnNothing, NothingPendingOutside
<1>20. CASE UNCHANGED vars
  BY <1>0, <1>20, BatchUnchanged
  DEF vars, core_vars, descriptor_vars, kernel_vars, IInv, NeverWaitsOnNothing,
      NothingPendingOutside
<1>21. QED
  BY <1>1, <1>2, <1>3, <1>4, <1>5, <1>6, <1>7, <1>8, <1>9, <1>10, <1>11,
     <1>12, <1>13, <1>14, <1>15, <1>16, <1>17, <1>18, <1>19, <1>20
  DEF Next, Owners, Loop, Environment

LEMMA Invariance == Spec => []IInv
<1>1. Init => IInv
  BY InitIInv
<1>2. IInv /\ [Next]_vars => IInv'
  BY NextIInv
<1>3. QED
  BY <1>1, <1>2, PTL DEF Spec

(* The counter the loop runs on is the number of open descriptors.            *)
THEOREM CountIsRight == Spec => []RegisteredCount
  BY Invariance, PTL DEF IInv

(* No pending entry refers to a descriptor that is closed or reopened.        *)
THEOREM NothingStaleIsPending == Spec => []PendingIsCurrent
  BY Invariance, PTL DEF IInv

(* reactor_loop never blocks with nothing to wait for.                        *)
THEOREM LoopNeverWaitsOnNothing == Spec => []NeverWaitsOnNothing
  BY Invariance, PTL DEF IInv

(* ---- The reactor implements EventPort ------------------------------------ *)

dues == [d \in Descriptors |-> Due(d)]

(* An action that leaves the batch alone leaves everything due alone.         *)
LEMMA SameDue ==
  ASSUME UNCHANGED <<events, event, tested>>
  PROVE  dues' = dues
  BY DEF dues, Due, Untested

(* Nothing is due when nothing is left of the batch.                          *)
LEMMA NoneDue ==
  ASSUME event > Len(events), event \in Nat, Len(events) \in Nat
  PROVE  dues = Port!NothingDue
<1>1. event..Len(events) = {}
  OBVIOUS
<1>2. \A d \in Descriptors : Due(d) = {}
  BY <1>1 DEF Due
<1>3. QED
  BY <1>2 DEF dues, Port!NothingDue

(* reactor_delete takes back what is due to d and nothing else.               *)
LEMMA CloseEffectCloses ==
  ASSUME IInv, NEW d \in Descriptors, d \in is_open, CloseEffect(d),
         event' = event, tested' = tested
  PROVE  Port!Close(d)
<1>1. TypeOK
  BY DEF IInv
<1>2. /\ Len(events') = Len(events)
      /\ \A i \in 1..Len(events) :
           events'[i] = IF i >= event /\ events[i].handler = d
                        THEN Cleared ELSE events[i]
  BY <1>1, ClearPendingType DEF CloseEffect
<1>3. event \in Nat \ {0} /\ Len(events) \in Nat
  BY <1>1 DEF TypeOK
<1>4. Default \notin Descriptors /\ Cleared.handler = Default
  BY ConstantsOK DEF Cleared
<1>5. Due(d)' = {}
  BY <1>2, <1>3, <1>4 DEF Due
<1>6. ASSUME NEW c \in Descriptors, c # d PROVE Due(c)' = Due(c)
  <2>1. ASSUME NEW i \in event..Len(events)
        PROVE  /\ events'[i].handler = c <=> events[i].handler = c
               /\ events[i].handler = c => events'[i] = events[i]
    <3>1. i \in 1..Len(events) /\ i >= event
      BY <1>3
    <3>2. c # d /\ c # Default
      BY <1>4, <1>6
    <3>3. QED
      BY <1>2, <1>4, <3>1, <3>2
  <2>2. \A i \in event..Len(events) :
          events[i].handler = c => Untested(i)' = Untested(i)
    BY <2>1 DEF Untested
  <2>3. {j \in event'..Len(events') : events'[j].handler = c}
          = {j \in event..Len(events) : events[j].handler = c}
    BY <1>2, <2>1
  <2>4. QED
    BY <2>2, <2>3 DEF Due
<1>7. dues' = [dues EXCEPT ![d] = {}]
  BY <1>5, <1>6 DEF dues
<1>8. QED
  BY <1>7 DEF CloseEffect, Port!Close, dues

(* A batch is a report: of distinct descriptors, all of them open.            *)
LEMMA WaitReportsReport ==
  ASSUME IInv, NEW n \in 1..MaxEvents, NEW b \in [1..n -> ready], epoll_wait(b)
  PROVE  Port!Report
<1> DEFINE reported == {d \in Descriptors : dues'[d] # {}}
<1>1. TypeOK /\ n \in Nat
  BY ConstantsOK DEF IInv
<1>2. /\ Len(events') = n /\ event' = 1 /\ tested' = {}
      /\ \A i \in 1..n : /\ events'[i].handler = b[i]
                          /\ events'[i].bits = Reportable(b[i])
  BY <1>1, BatchType DEF epoll_wait
<1>3. /\ \A i \in 1..n : b[i] \in is_open /\ b[i] \in Descriptors
      /\ \A i \in 1..n : Reportable(b[i]) # {} /\ Reportable(b[i]) \subseteq Kinds
      /\ \A i, j \in 1..n : i # j => b[i] # b[j]
  BY <1>1 DEF epoll_wait, TypeOK, Reportable
<1>4. dues = Port!NothingDue
  <2>1. Len(events) = 0 /\ event \in 1..Len(events) + 1
    BY <1>1 DEF epoll_wait, IInv, NothingPendingOutside, TypeOK
  <2>2. QED
    BY <2>1, NoneDue
<1>5. \A i \in 1..n : Untested(i)' = Reportable(b[i])
  BY <1>2 DEF Untested
<1>6. ASSUME NEW i \in 1..n PROVE Due(b[i])' = Reportable(b[i])
  <2>1. {j \in event'..Len(events') : events'[j].handler = b[i]} = {i}
    BY <1>2, <1>3
  <2>2. QED
    BY <1>5, <2>1 DEF Due
<1>7. ASSUME NEW d \in Descriptors, \A i \in 1..n : b[i] # d PROVE Due(d)' = {}
  <2>1. {j \in event'..Len(events') : events'[j].handler = d} = {}
    BY <1>2, <1>7
  <2>2. QED
    BY <2>1 DEF Due
<1>8. dues' \in [Descriptors -> SUBSET Kinds]
  BY <1>3, <1>6, <1>7 DEF dues
<1>9. reported = {b[i] : i \in 1..n}
  <2>1. \A d \in Descriptors : dues'[d] = Due(d)'
    BY DEF dues
  <2>2. ASSUME NEW i \in 1..n PROVE b[i] \in reported
    BY <1>3, <1>6, <2>1
  <2>3. ASSUME NEW d \in reported PROVE \E i \in 1..n : b[i] = d
    BY <1>7, <2>1
  <2>4. QED
    BY <2>2, <2>3
<1>10. Port!Kinds = Kinds
  BY DEF Port!Kinds, Kinds
<1>11. dues' \in [Descriptors -> SUBSET Port!Kinds]
  BY <1>8, <1>10
<1>12. reported # {} /\ reported \subseteq is_open
  BY <1>3, <1>9
<1>13. is_open' = is_open
  BY DEF epoll_wait, descriptor_vars
<1>14. QED
  BY <1>4, <1>11, <1>12, <1>13 DEF Port!Report, dues

(* descriptor_callback delivers one kind, the first that is left.             *)
LEMMA CallbackDelivers ==
  ASSUME IInv, NEW k \in Kinds, descriptor_callback(k)
  PROVE  \E d \in Descriptors : Port!Deliver(d, k)
<1>1. TypeOK
  BY DEF IInv
<1>2. event \in 1..Len(events) /\ Len(events) \in Nat /\ events[event] \in Entry
  BY <1>1 DEF descriptor_callback, TypeOK
<1>3. PICK d \in Descriptors : d = events[event].handler
  <2>1. events[event].bits # {}
    BY DEF descriptor_callback, Untested
  <2>2. QED
    BY <1>2, <2>1 DEF IInv, ClearedIsEmpty, Entry
<1>4. d # Default /\ d \in is_open
  BY <1>2, <1>3, ConstantsOK DEF IInv, PendingIsCurrent
<1>5. {j \in event..Len(events) : events[j].handler = d} = {event}
  BY <1>2, <1>3, <1>4 DEF IInv, PendingOnce
<1>6. UNCHANGED <<events, event, is_open>>
  BY DEF descriptor_callback, descriptor_vars
<1>7. Due(d) = Untested(event) /\ Due(d)' = Untested(event)'
  BY <1>3, <1>5, <1>6 DEF Due
<1>8. Untested(event)' = Untested(event) \ {k}
  <2>1. tested \subseteq tested'
    BY DEF IInv, TestedInOrder, descriptor_callback, Untested, Before, Kinds
  <2>2. Untested(event) = events[event].bits \ tested
    BY DEF Untested
  <2>3. Untested(event)' = events[event].bits \ tested'
    BY <1>6 DEF Untested
  <2>4. tested' = Before(k) \cup {k} /\ Before(k) \cap Untested(event) = {}
    BY DEF descriptor_callback
  <2>5. QED
    BY <2>1, <2>2, <2>3, <2>4
<1>9. ASSUME NEW c \in Descriptors, c # d PROVE Due(c)' = Due(c)
  <2>1. \A i \in event..Len(events) :
          events[i].handler = c => Untested(i)' = Untested(i)
    BY <1>3, <1>6, <1>9 DEF Untested
  <2>2. QED
    BY <1>6, <2>1 DEF Due
<1>10. dues' = [dues EXCEPT ![d] = @ \ {k}]
  <2>1. \A c \in Descriptors : Due(c)' = IF c = d THEN Due(c) \ {k} ELSE Due(c)
    BY <1>7, <1>8, <1>9
  <2>2. QED
    BY <1>3, <2>1 DEF dues
<1>11. k \in dues[d] /\ \A j \in dues[d] : ~ Port!Precedes(j, k)
  <2>1. dues[d] = Untested(event)
    BY <1>3, <1>7 DEF dues
  <2>2. QED
    BY <2>1 DEF descriptor_callback, Before, Port!Precedes, Kinds
<1>12. Port!Deliver(d, k)
  BY <1>4, <1>6, <1>10, <1>11 DEF Port!Deliver, dues
<1>13. QED
  BY <1>3, <1>12

(* The loop moves on only when nothing is left of the current entry.          *)
LEMMA NextEventStutters ==
  ASSUME IInv, NextEvent
  PROVE  dues' = dues
<1>1. /\ event' = event + 1 /\ tested' = {} /\ events' = events
      /\ Untested(event) = {} /\ event \in 1..Len(events) /\ Len(events) \in Nat
  BY DEF NextEvent, IInv, TypeOK
<1>2. ASSUME NEW d \in Descriptors PROVE Due(d)' = Due(d)
  <2>1. \A i \in event + 1..Len(events) : Untested(i)' = Untested(i)
    BY <1>1 DEF Untested
  <2>2. \A x : x \in Due(d) <=> \E i \in event..Len(events) :
                                 events[i].handler = d /\ x \in Untested(i)
    BY DEF Due
  <2>3. \A x : x \in Due(d)' <=> \E i \in event + 1..Len(events) :
                                  events[i].handler = d /\ x \in Untested(i)'
    BY <1>1 DEF Due
  <2>4. \A x : x \in Due(d) <=> \E i \in event + 1..Len(events) :
                                 events[i].handler = d /\ x \in Untested(i)
    BY <1>1, <2>2
  <2>5. \A x : x \in Due(d)' <=> x \in Due(d)
    BY <2>1, <2>3, <2>4
  <2>6. QED
    BY <2>5
<1>3. QED
  BY <1>2 DEF dues

LEMMA StepImplements == IInv /\ [Next]_vars => [Port!Next]_Port!vars
<1> SUFFICES ASSUME IInv, [Next]_vars PROVE [Port!Next]_Port!vars
  OBVIOUS
<1>0. /\ IInv'
      /\ event \in 1..Len(events) + 1 /\ Len(events) \in Nat
      /\ event' \in 1..Len(events') + 1 /\ Len(events') \in Nat
  BY NextIInv DEF IInv, TypeOK
<1>a. ASSUME UNCHANGED <<events, event, tested, is_open>>
      PROVE  [Port!Next]_Port!vars
  BY <1>a, SameDue DEF Port!vars, dues
<1>b. ASSUME NEW d \in Descriptors, Port!Close(d) PROVE [Port!Next]_Port!vars
  BY <1>b DEF Port!Next
<1>1. ASSUME NEW d \in Descriptors, descriptor_construct(d)
      PROVE  [Port!Next]_Port!vars
  BY <1>1, <1>a DEF descriptor_construct, core_vars
<1>2. ASSUME NEW d \in Descriptors, NEW m \in Masks, descriptor_open(d, m)
      PROVE  [Port!Next]_Port!vars
  <2>1. d \notin is_open /\ is_open' = is_open \cup {d} /\ dues' = dues
    BY <1>2, SameDue DEF descriptor_open
  <2>2. Port!Open(d)
    BY <2>1 DEF Port!Open, dues
  <2>3. QED
    BY <2>2 DEF Port!Next
<1>3. ASSUME NEW d \in Descriptors, NEW m \in Masks, descriptor_mask(d, m)
      PROVE  [Port!Next]_Port!vars
  BY <1>3, <1>a DEF descriptor_mask, core_vars
<1>4. ASSUME NEW d \in Descriptors, descriptor_close(d) PROVE [Port!Next]_Port!vars
  BY <1>4, <1>b, CloseEffectCloses DEF descriptor_close
<1>5. ASSUME NEW d \in Descriptors, descriptor_destruct(d)
      PROVE  [Port!Next]_Port!vars
  <2>1. CASE d \in is_open /\ CloseEffect(d)
    BY <1>5, <2>1, <1>b, CloseEffectCloses DEF descriptor_destruct
  <2>2. CASE UNCHANGED <<events, descriptors, is_open, mask, kernel_vars>>
    BY <1>5, <2>2, <1>a DEF descriptor_destruct
  <2>3. QED
    BY <1>5, <2>1, <2>2 DEF descriptor_destruct
<1>6. ASSUME NEW d \in Descriptors, NEW k \in Kinds, Consume(d, k)
      PROVE  [Port!Next]_Port!vars
  BY <1>6, <1>a DEF Consume, core_vars, descriptor_vars
<1>7. CASE reactor_abort
  BY <1>7, <1>a DEF reactor_abort, descriptor_vars
<1>8. CASE reactor_construct
  <2>1. Len(events) = 0 /\ Len(events') = 0
    BY <1>8 DEF reactor_construct, IInv, NothingPendingOutside
  <2>2. dues = Port!NothingDue
    BY <1>0, <2>1, NoneDue
  <2>3. event' > Len(events')
    BY <1>0, <2>1
  <2>4. dues' = Port!NothingDue
    <3>1. event'..Len(events') = {}
      BY <1>0, <2>3
    <3>2. \A d \in Descriptors : Due(d)' = {}
      BY <3>1 DEF Due
    <3>3. QED
      BY <3>2 DEF dues, Port!NothingDue
  <2>5. is_open' = is_open
    BY <1>8 DEF reactor_construct, descriptor_vars
  <2>6. QED
    BY <2>2, <2>4, <2>5 DEF Port!vars, dues
<1>9. CASE CallLoop
  BY <1>9, <1>a DEF CallLoop, descriptor_vars
<1>10. CASE reactor_loop
  BY <1>10, <1>a DEF reactor_loop, descriptor_vars
<1>11. CASE Block
  BY <1>11, <1>a DEF Block, descriptor_vars
<1>12. ASSUME NEW d \in Descriptors, WaitReports(d) PROVE [Port!Next]_Port!vars
  <2>0. PICK n \in 1..MaxEvents :
          \E c \in [1..n -> ready] : epoll_wait(c)
    BY <1>12 DEF WaitReports
  <2>1. PICK b \in [1..n -> ready] : epoll_wait(b)
    BY <2>0
  <2>2. QED
    BY <2>1, WaitReportsReport DEF Port!Next
<1>13. ASSUME NEW k \in Kinds, descriptor_callback(k) PROVE [Port!Next]_Port!vars
  BY <1>13, CallbackDelivers DEF Port!Next, Port!Kinds, Kinds
<1>14. CASE Return
  BY <1>14, <1>a DEF Return, descriptor_vars
<1>15. CASE NextEvent
  <2>1. dues' = dues /\ is_open' = is_open
    BY <1>15, NextEventStutters DEF NextEvent, descriptor_vars
  <2>2. QED
    BY <2>1 DEF Port!vars, dues
<1>16. CASE EndOfBatch
  <2>1. dues = Port!NothingDue
    BY <1>0, <1>16, NoneDue DEF EndOfBatch
  <2>2. event'..Len(events') = {}
    BY <1>16 DEF EndOfBatch
  <2>3. dues' = Port!NothingDue
    <3>1. \A d \in Descriptors : Due(d)' = {}
      BY <2>2 DEF Due
    <3>2. QED
      BY <3>1 DEF dues, Port!NothingDue
  <2>4. is_open' = is_open
    BY <1>16 DEF EndOfBatch, descriptor_vars
  <2>5. QED
    BY <2>1, <2>3, <2>4 DEF Port!vars, dues
<1>17. ASSUME NEW d \in Descriptors, NEW k \in Kinds, Wakeup(d, k)
       PROVE  [Port!Next]_Port!vars
  BY <1>17, <1>a DEF Wakeup, core_vars, descriptor_vars
<1>18. CASE Interrupt
  BY <1>18, <1>a DEF Interrupt, descriptor_vars
<1>19. CASE reactor_signal
  BY <1>19, <1>a DEF reactor_signal, descriptor_vars
<1>20. CASE UNCHANGED vars
  BY <1>20, <1>a DEF vars, core_vars, descriptor_vars
<1>21. QED
  BY <1>1, <1>2, <1>3, <1>4, <1>5, <1>6, <1>7, <1>8, <1>9, <1>10, <1>11,
     <1>12, <1>13, <1>14, <1>15, <1>16, <1>17, <1>18, <1>19, <1>20
  DEF Next, Owners, Loop, Environment

(* Whatever the owners do in their callbacks, the reactor keeps its promise.  *)
THEOREM ReactorImplementsPort == Spec => ImplementsPort
<1>1. Init => Port!Init
  <2>1. ASSUME Init PROVE dues = Port!NothingDue
    BY <2>1, NoneDue DEF Init
  <2>2. QED
    BY <2>1 DEF Init, Port!Init, dues
<1>2. IInv /\ [Next]_vars => [Port!Next]_Port!vars
  BY StepImplements
<1>3. QED
  BY <1>1, <1>2, Invariance, PTL DEF Spec, ImplementsPort, Port!Spec

=============================================================================
