---------------------------- MODULE AsyncProofs ----------------------------
(***************************************************************************)
(* Proofs about Async and Resolver, for every set of objects and of thread *)
(* ids.                                                                    *)
(***************************************************************************)
EXTENDS Resolver, TLAPS

-----------------------------------------------------------------------------
(* The inductive invariant.                                                   *)

Busy(t) == worker[t].pc # "free"

(* A running thread works for a call that was made.                           *)
WorksForACall ==
  \A t \in Threads :
    Busy(t) => worker[t].async \in Asyncs /\ worker[t].call \in 1..MaxCalls

(* A thread past its handler has recorded that.                               *)
PastItsHandler ==
  \A t \in Threads :
    worker[t].pc \in {"test", "signal", "write"} =>
      <<worker[t].async, worker[t].call>> \in returned

(* An open eventfd belongs to the latest call; async_cancel has closed it.    *)
EventOfLatestCall ==
  /\ \A a \in Asyncs : event[a] \in {0, calls[a]}
  /\ cancelling # NoAsync => event[cancelling] = 0

(* When the loop has been signalled the thread has nothing left to do.        *)
SignalIsLast ==
  \A t \in Threads :
    MaySignal(t) /\ ~worker[t].cancelled /\ event[worker[t].async] # 0 =>
      count[worker[t].async] = 0

IInv ==
  /\ TypeOK
  /\ WorksForACall
  /\ PastItsHandler
  /\ EventOfLatestCall
  /\ SignalIsLast
  /\ NoneLeftBehind
  /\ DoneAfterCall

-----------------------------------------------------------------------------
(* The types are kept.                                                        *)
LEMMA InitTypeOK == Init => TypeOK
<1>1. 0 \in 0..MaxCalls
  BY ConstantsOK
<1>2. Free \in Workers
  BY <1>1 DEF Free, Workers
<1>3. SUFFICES ASSUME Init
               PROVE  TypeOK
  OBVIOUS
<1>4. /\ calls \in [Asyncs -> 0..MaxCalls]
      /\ event \in [Asyncs -> 0..MaxCalls]
      /\ count \in [Asyncs -> Nat]
  BY <1>1, <1>3 DEF Init
<1>5. /\ thread \in [Asyncs -> Threads \cup {NoThread}]
      /\ worker \in [Threads -> Workers]
      /\ cancelling \in Asyncs \cup {NoAsync}
      /\ returned \subseteq Asyncs \X (1..MaxCalls)
  BY <1>2, <1>3 DEF Init
<1>6. aborted \in {"no", "signal", "cancel"}
  BY <1>3 DEF Init
<1> QED
  BY <1>4, <1>5, <1>6 DEF TypeOK

LEMMA NextTypeOK ==
  ASSUME TypeOK, WorksForACall, [Next]_vars
  PROVE  TypeOK'
<1> USE ConstantsOK DEF Workers
<1>1. ASSUME NEW a \in Asyncs, NEW t \in Threads, async_call(a, t)
      PROVE  TypeOK'
  BY <1>1 DEF async_call, TypeOK
<1>2. ASSUME NEW a \in Asyncs, async_callback(a)
      PROVE  TypeOK'
  BY <1>2 DEF async_callback, TypeOK
<1>3. ASSUME NEW a \in Asyncs, async_cancel(a)
      PROVE  TypeOK'
  BY <1>3 DEF async_cancel, TypeOK
<1>4. CASE pthread_cancel
  <2>1. worker' \in [Threads -> Workers]
    <3>1. \/ worker' = worker
          \/ worker' = [worker EXCEPT ![thread[cancelling]].cancelled = TRUE]
      BY <1>4, Zenon DEF pthread_cancel
    <3>2. \A u \in Threads : [worker[u] EXCEPT !.cancelled = TRUE] \in Workers
      BY DEF TypeOK
    <3> QED
      BY <3>1, <3>2 DEF TypeOK
  <2>2. aborted' \in {"no", "signal", "cancel"}
    BY <1>4, Zenon DEF pthread_cancel, TypeOK
  <2>3. thread' \in [Asyncs -> Threads \cup {NoThread}] /\ cancelling' = NoAsync
    BY <1>4, Zenon DEF pthread_cancel, TypeOK
  <2>4. UNCHANGED <<calls, event, count, returned>>
    BY <1>4, Zenon DEF pthread_cancel
  <2> QED
    BY <2>1, <2>2, <2>3, <2>4 DEF TypeOK
<1>5. ASSUME NEW t \in Threads, CallReturns(t)
      PROVE  TypeOK'
  BY <1>5 DEF CallReturns, At, loop_vars, TypeOK, WorksForACall, Busy
<1>6. ASSUME NEW t \in Threads, event_is_open(t)
      PROVE  TypeOK'
  BY <1>6 DEF event_is_open, At, loop_vars, TypeOK
<1>7. ASSUME NEW t \in Threads, descriptor_fd(t)
      PROVE  TypeOK'
  <2>1. event[worker[t].async] \in 0..MaxCalls
    BY <1>7 DEF descriptor_fd, At, TypeOK, WorksForACall, Busy
  <2>2. worker' \in [Threads -> Workers]
    BY <1>7, <2>1, ZenonT(60) DEF descriptor_fd, TypeOK
  <2> QED
    BY <1>7, <2>2 DEF descriptor_fd, loop_vars, TypeOK
<1>8. ASSUME NEW t \in Threads, event_signal(t)
      PROVE  TypeOK'
  <2>1. worker' \in [Threads -> Workers]
    BY <1>8 DEF event_signal, TypeOK
  <2>2. count' \in [Asyncs -> Nat]
    <3>1. count \in [Asyncs -> Nat]
      BY DEF TypeOK
    <3>2. count' = count \/ count' = [count EXCEPT ![worker[t].async] = @ + 1]
      BY <1>8 DEF event_signal
    <3> QED
      BY <3>1, <3>2
  <2>3. aborted' \in {"no", "signal", "cancel"}
    BY <1>8 DEF event_signal, TypeOK
  <2> QED
    BY <1>8, <2>1, <2>2, <2>3 DEF event_signal, loop_vars, TypeOK
<1>9. ASSUME NEW t \in Threads, Cancelled(t) \/ Exit(t)
      PROVE  TypeOK'
  <2>1. Free \in Workers
    BY DEF Free
  <2>2. worker' \in [Threads -> Workers]
    BY <1>9, <2>1 DEF Cancelled, Exit, TypeOK
  <2> QED
    BY <1>9, <2>2 DEF Cancelled, Exit, loop_vars, TypeOK
<1>10. CASE UNCHANGED vars
  BY <1>10 DEF vars, TypeOK
<1> QED
  BY <1>1, <1>2, <1>3, <1>4, <1>5, <1>6, <1>7, <1>8, <1>9, <1>10 DEF Next, Worker

-----------------------------------------------------------------------------
LEMMA InitIInv == Init => IInv
  BY InitTypeOK, ConstantsOK
  DEF Init, IInv, WorksForACall, PastItsHandler, EventOfLatestCall, SignalIsLast,
      NoneLeftBehind, DoneAfterCall, MaySignal, Busy, Free

LEMMA NextIInv ==
  ASSUME IInv, [Next]_vars
  PROVE  IInv'
<1> USE ConstantsOK DEF TypeOK, WorksForACall, PastItsHandler, EventOfLatestCall,
                        SignalIsLast, NoneLeftBehind, DoneAfterCall, MaySignal, Busy
<1>0. TypeOK'
  BY NextTypeOK DEF IInv
<1>1. ASSUME NEW a \in Asyncs, NEW t \in Threads, async_call(a, t)
      PROVE  IInv'
  BY <1>0, <1>1 DEF IInv, async_call, LoopRuns
<1>2. ASSUME NEW a \in Asyncs, async_callback(a)
      PROVE  IInv'
  BY <1>0, <1>2 DEF IInv, async_callback, LoopRuns
<1>3. ASSUME NEW a \in Asyncs, async_cancel(a)
      PROVE  IInv'
  BY <1>0, <1>3 DEF IInv, async_cancel, LoopRuns
<1>4. CASE pthread_cancel
  <2>1. \/ worker' = worker /\ worker[thread[cancelling]].pc = "free"
        \/ worker' = [worker EXCEPT ![thread[cancelling]].cancelled = TRUE]
    BY <1>4, Zenon DEF pthread_cancel
  <2>2. /\ cancelling # NoAsync /\ cancelling' = NoAsync
        /\ thread' = [thread EXCEPT ![cancelling] = NoThread]
        /\ UNCHANGED <<calls, event, count, returned>>
    BY <1>4, Zenon DEF pthread_cancel
  <2>3. \A u \in Threads :
          /\ worker'[u].pc = worker[u].pc
          /\ worker'[u].async = worker[u].async
          /\ worker'[u].call = worker[u].call
          /\ ~worker'[u].cancelled => ~worker[u].cancelled
          /\ u = thread[cancelling] =>
               worker'[u].cancelled \/ worker[u].pc = "free"
    BY <2>1 DEF IInv, Workers
  <2> QED
    BY <1>0, <2>2, <2>3 DEF IInv
<1>5. ASSUME NEW t \in Threads, CallReturns(t)
      PROVE  IInv'
  BY <1>0, <1>5 DEF IInv, CallReturns, At, loop_vars
<1>6. ASSUME NEW t \in Threads, event_is_open(t)
      PROVE  IInv'
  BY <1>0, <1>6 DEF IInv, event_is_open, At, loop_vars
<1>7. ASSUME NEW t \in Threads, descriptor_fd(t)
      PROVE  IInv'
  <2>1. \A u \in Threads :
          worker'[u] = IF u = t THEN [worker[t] EXCEPT !.pc = "write",
                                                       !.fd = event[worker[t].async]]
                       ELSE worker[u]
    BY <1>7 DEF IInv, descriptor_fd
  <2>2. worker[t].pc = "signal" /\ worker'[t].pc = "write"
    BY <1>7, <2>1 DEF IInv, descriptor_fd, At, Workers
  <2>3. \A u \in Threads :
          /\ worker'[u].async = worker[u].async
          /\ worker'[u].call = worker[u].call
          /\ worker'[u].cancelled = worker[u].cancelled
          /\ u # t => worker'[u].pc = worker[u].pc
    <3> SUFFICES ASSUME NEW u \in Threads
                 PROVE  /\ worker'[u].async = worker[u].async
                        /\ worker'[u].call = worker[u].call
                        /\ worker'[u].cancelled = worker[u].cancelled
                        /\ u # t => worker'[u].pc = worker[u].pc
      OBVIOUS
    <3>1. worker[t] \in Workers
      BY DEF IInv
    <3> QED
      BY <2>1, <3>1, ZenonT(60) DEF Workers
  <2> QED
    BY <1>0, <1>7, <2>2, <2>3 DEF IInv, descriptor_fd, loop_vars
<1>8. ASSUME NEW t \in Threads, event_signal(t)
      PROVE  IInv'
  <2>1. worker[t].pc = "write" /\ ~worker[t].cancelled /\ worker'[t].pc = "return"
    BY <1>8 DEF IInv, event_signal, At, Workers
  <2>2. \A u \in Threads :
          /\ worker'[u].async = worker[u].async
          /\ worker'[u].call = worker[u].call
          /\ worker'[u].cancelled = worker[u].cancelled
          /\ u # t => worker'[u].pc = worker[u].pc
    BY <1>8 DEF IInv, event_signal, Workers
  <2>3. CASE count' = count
    BY <1>0, <1>8, <2>1, <2>2, <2>3 DEF IInv, event_signal, loop_vars
  <2>4. CASE /\ event[worker[t].async] # 0
             /\ count' = [count EXCEPT ![worker[t].async] = @ + 1]
    <3>1. event[worker[t].async] = worker[t].call
      BY <2>1, <2>4 DEF IInv
    <3> QED
      BY <1>0, <1>8, <2>1, <2>2, <2>4, <3>1 DEF IInv, event_signal, loop_vars
  <2> QED
    BY <1>8, <2>3, <2>4 DEF event_signal
<1>9. ASSUME NEW t \in Threads, Cancelled(t) \/ Exit(t)
      PROVE  IInv'
  BY <1>0, <1>9 DEF IInv, Cancelled, Exit, At, loop_vars, Free
<1>10. CASE UNCHANGED vars
  BY <1>10 DEF vars, IInv
<1> QED
  BY <1>1, <1>2, <1>3, <1>4, <1>5, <1>6, <1>7, <1>8, <1>9, <1>10 DEF Next, Worker

LEMMA Invariance == Spec => []IInv
<1> QED
  BY InitIInv, NextIInv, PTL DEF Spec

-----------------------------------------------------------------------------
(* Every variable of async.c and of its threads keeps its type.               *)
THEOREM TypeCorrect == Spec => []TypeOK
  BY Invariance, PTL DEF IInv

(* No thread that could still signal is left behind by a cancelled or a       *)
(* finished call.                                                             *)
THEOREM CancelLeavesNone == Spec => []NoneLeftBehind
  BY Invariance, PTL DEF IInv

(* ASYNC_DONE follows the return of the handler of the same call, also when   *)
(* earlier calls of the object were cancelled.                                *)
THEOREM DoneFollowsCall == Spec => []DoneAfterCall
  BY Invariance, PTL DEF IInv

-----------------------------------------------------------------------------
(* Resolvers.  The types, and what is true between two steps of an operation: *)
(* the call that it began by cancelling is not in progress.                   *)
Answers == [async : Asyncs, call : 1..MaxCalls, names : 0..MaxCalls]
Resolvers == [host : 0..MaxCalls, addrinfo : Answers \cup {NoAnswer}]
Todos == {Nothing} \cup [op : {"lookup", "cancel", "destruct"}, async : Asyncs, freed : BOOLEAN]

ResolverTypeOK ==
  /\ exists \subseteq Asyncs
  /\ todo \in Todos
  /\ resolver \in [Asyncs -> Resolvers]
  /\ asks \in [Threads -> 0..Unasked]
  /\ wanted \in [Asyncs -> 0..MaxCalls]
  /\ overtaken \subseteq Asyncs

CancelledFirst == todo # Nothing => event[todo.async] = 0 /\ todo.async \in exists

(* A thread that has ended takes nothing it asked for into its next life.     *)
FreeAsksNothing ==
  \A t \in Threads : worker[t].pc = "free" => asks[t] = Unasked

(* During a lookup everything in the object, and what its thread asks, is of  *)
(* that lookup.                                                               *)
OwnAnswer(x, query) == x = NoAnswer \/ x.names = query

OwnLookup ==
  \A a \in Asyncs \ overtaken :
    event[a] # 0 =>
      /\ resolver[a].host = wanted[a]
      /\ OwnAnswer(resolver[a].addrinfo, wanted[a])
      /\ \A t \in Threads : MayStore(t, a) => asks[t] \in {Unasked, wanted[a]}

(* A call in progress is that of an object that exists, and has one thread.   *)
CallsExist == \A a \in Asyncs : event[a] # 0 => a \in exists

CallsApart ==
  /\ \A t \in Threads : Busy(t) => worker[t].call <= calls[worker[t].async]
  /\ \A t, u \in Threads :
       /\ Busy(t) /\ Busy(u)
       /\ worker[t].async = worker[u].async /\ worker[t].call = worker[u].call
       => t = u

(* An object points to answers of its own threads.  The thread of a lookup in *)
(* progress finds none there when it comes to store, or a stray.              *)
OwnThreads ==
  \A a \in Asyncs : resolver[a].addrinfo # NoAnswer => resolver[a].addrinfo.async = a

NothingToLose ==
  \A t \in Threads :
    worker[t].pc = "call" /\ InProgress(t) =>
      resolver[worker[t].async].addrinfo \in strays \cup {NoAnswer}

LookupInv == ResolverTypeOK /\ CancelledFirst /\ FreeAsksNothing /\ OwnLookup

AnswerInv ==
  /\ unfreed \subseteq Answers
  /\ CallsExist /\ CallsApart /\ OwnThreads /\ NothingToLose
  /\ AnswersFreed

ResolverIInv == IInv /\ LookupInv /\ AnswerInv

LEMMA ResolverInitIInv == ResolverInit => ResolverIInv
<1> SUFFICES ASSUME ResolverInit PROVE ResolverIInv
  OBVIOUS
<1>1. IInv
  BY InitIInv DEF ResolverInit
<1>2. ResolverTypeOK
  BY ConstantsOK
  DEF ResolverInit, ResolverTypeOK, Resolvers, Todos, Empty, None, Unasked
<1>3. \A t \in Threads : worker[t].pc = "free"
  BY DEF ResolverInit, Init, Free
<1>4. \A a \in Asyncs : event[a] = 0
  BY DEF ResolverInit, Init
<1>5. LookupInv
  BY <1>2, <1>3, <1>4
  DEF ResolverInit, LookupInv, CancelledFirst, FreeAsksNothing, OwnLookup
<1>6. \A a \in Asyncs : resolver[a].addrinfo = NoAnswer
  BY DEF ResolverInit, Empty
<1>7. AnswersFreed
  BY <1>6 DEF ResolverInit, AnswersFreed, Held
<1>8. AnswerInv
  BY <1>3, <1>4, <1>6, <1>7
  DEF ResolverInit, AnswerInv, CallsExist, CallsApart, OwnThreads, NothingToLose, Busy
<1> QED
  BY <1>1, <1>5, <1>8 DEF ResolverIInv

(* What resolvers do with their calls is what Async allows.                   *)
LEMMA TodoIs ==
  ASSUME ResolverTypeOK, Goes
  PROVE  todo.async \in Asyncs /\ todo # Nothing
         /\ todo.op \in {"lookup", "cancel", "destruct"} /\ todo.freed \in BOOLEAN
  BY DEF ResolverTypeOK, Todos, Goes

LEMMA StepOfAsync ==
  ASSUME ResolverTypeOK, [ResolverNext]_all_vars
  PROVE  [Next]_vars
<1>1. ASSUME NEW a \in Asyncs, resolver_callback(a) PROVE [Next]_vars
  BY <1>1 DEF resolver_callback, Next
<1>2. ASSUME NEW a \in Asyncs, NEW op \in {"lookup", "cancel", "destruct"}, Begin(a, op)
      PROVE  [Next]_vars
  BY <1>2 DEF Begin, Next
<1>3. CASE CancelThread
  BY <1>3 DEF CancelThread, Next
<1>4. CASE resolver_clear \/ resolver_cancel \/ resolver_destruct
  BY <1>4 DEF resolver_clear, resolver_cancel, resolver_destruct
<1>5. ASSUME NEW t \in Threads, NEW given \in BOOLEAN, resolver_lookup(t, given)
      PROVE  [Next]_vars
  <2>1. todo.async \in Asyncs
    BY <1>5, TodoIs DEF resolver_lookup, Then
  <2> QED
    BY <1>5, <2>1 DEF resolver_lookup, Next
<1>6. ASSUME NEW t \in Threads, Thread(t) PROVE [Next]_vars
  BY <1>6 DEF Thread, net_resolve, Answered, ThreadRuns, Next, Worker
<1>7. CASE UNCHANGED all_vars
  BY <1>7 DEF all_vars
<1> QED
  BY <1>1, <1>2, <1>3, <1>4, <1>5, <1>6, <1>7 DEF ResolverNext, Finish

(* Closing the eventfd of an object ends its call.                            *)
LEMMA EventCloses ==
  ASSUME ResolverIInv, NEW a \in Asyncs,
         event' = [event EXCEPT ![a] = 0],
         UNCHANGED <<calls, worker, exists, resolver, asks, answers, histories>>,
         Held' = Held
  PROVE  /\ FreeAsksNothing' /\ OwnLookup' /\ AnswerInv'
         /\ event'[a] = 0
<1>1. event \in [Asyncs -> 0..MaxCalls] /\ WorksForACall
  BY DEF ResolverIInv, IInv, TypeOK
<1>2. \A b \in Asyncs : event'[b] # 0 => event[b] # 0
  BY <1>1
<1>3. \A t \in Threads : worker[t].pc = "call" /\ InProgress(t)' => InProgress(t)
  BY <1>1 DEF InProgress, WorksForACall, Busy
<1>4. FreeAsksNothing'
  BY DEF ResolverIInv, LookupInv, FreeAsksNothing
<1>5. OwnLookup'
  BY <1>2 DEF ResolverIInv, LookupInv, OwnLookup, MayStore, histories
<1>6. CallsExist' /\ CallsApart' /\ OwnThreads'
  BY <1>2 DEF ResolverIInv, AnswerInv, CallsExist, CallsApart, OwnThreads, Busy
<1>7. NothingToLose'
  BY <1>3 DEF ResolverIInv, AnswerInv, NothingToLose, answers
<1>8. AnswersFreed' /\ unfreed' \subseteq Answers
  BY DEF ResolverIInv, AnswerInv, AnswersFreed, answers
<1> QED
  BY <1>1, <1>4, <1>5, <1>6, <1>7, <1>8 DEF AnswerInv

LEMMA CallbackKeeps ==
  ASSUME ResolverIInv, IInv', NEW a \in Asyncs, resolver_callback(a)
  PROVE  ResolverIInv'
<1>1. /\ event' = [event EXCEPT ![a] = 0] /\ todo = Nothing
      /\ UNCHANGED <<calls, worker, exists, todo, resolver, asks, answers, histories>>
  BY DEF resolver_callback, async_callback
<1>2. Held' = Held
  BY <1>1 DEF Held
<1>3. ResolverTypeOK' /\ CancelledFirst'
  BY <1>1 DEF ResolverIInv, LookupInv, ResolverTypeOK, CancelledFirst, histories
<1> QED
  BY <1>1, <1>2, <1>3, EventCloses DEF ResolverIInv, LookupInv

LEMMA BeginKeeps ==
  ASSUME ResolverIInv, IInv', NEW a \in Asyncs, NEW op \in {"lookup", "cancel", "destruct"},
         Begin(a, op)
  PROVE  ResolverIInv'
<1>1. event \in [Asyncs -> 0..MaxCalls]
  BY DEF ResolverIInv, IInv, TypeOK
<1>2. /\ todo = Nothing /\ todo' = [op |-> op, async |-> a, freed |-> FALSE] /\ a \in exists
      /\ UNCHANGED <<calls, worker, exists, resolver, asks, answers, histories>>
      /\ event' = [event EXCEPT ![a] = 0]
  BY <1>1 DEF Begin, LoopIdle, async_cancel, vars
<1>3. ~todo.freed /\ ~todo'.freed /\ todo' \in Todos /\ todo'.async = a
  BY <1>2 DEF Todos, Nothing
<1>4. Held' = Held
  BY <1>2, <1>3 DEF Held
<1>5. ResolverTypeOK'
  BY <1>2, <1>3 DEF ResolverIInv, LookupInv, ResolverTypeOK, histories
<1>6. /\ FreeAsksNothing' /\ OwnLookup' /\ AnswerInv'
      /\ event'[a] = 0
  BY <1>2, <1>4, EventCloses
<1> QED
  BY <1>2, <1>3, <1>5, <1>6 DEF ResolverIInv, LookupInv, CancelledFirst

LEMMA CancelKeeps ==
  ASSUME ResolverIInv, IInv', CancelThread
  PROVE  ResolverIInv'
<1>1. worker \in [Threads -> Workers]
  BY DEF ResolverIInv, IInv, TypeOK
<1>2. /\ UNCHANGED <<calls, event, exists, todo, resolver, asks, unfreed, strays, wanted, overtaken>>
      /\ \A t \in Threads : /\ worker'[t].pc = worker[t].pc
                            /\ worker'[t].async = worker[t].async
                            /\ worker'[t].call = worker[t].call
  BY <1>1 DEF CancelThread, pthread_cancel, Workers, answers
<1>3. LookupInv'
  BY <1>2 DEF ResolverIInv, LookupInv, ResolverTypeOK, CancelledFirst, FreeAsksNothing,
              OwnLookup, MayStore
<1>4. CallsExist' /\ CallsApart' /\ OwnThreads' /\ NothingToLose'
  BY <1>2 DEF ResolverIInv, AnswerInv, CallsExist, CallsApart, OwnThreads, NothingToLose,
              InProgress, Busy
<1>5. AnswersFreed' /\ unfreed' \subseteq Answers
  BY <1>2 DEF ResolverIInv, AnswerInv, AnswersFreed, Held
<1> QED
  BY <1>3, <1>4, <1>5 DEF ResolverIInv, AnswerInv

(* What the object points to is freed, and no other object points to it.      *)
LEMMA FreeKeeps ==
  ASSUME ResolverIInv, IInv', resolver_clear
  PROVE  ResolverIInv'
<1> DEFINE a == todo.async
           x == resolver[a].addrinfo
<1>1. /\ todo # Nothing /\ ~todo.freed /\ a \in Asyncs /\ event[a] = 0 /\ a \in exists
      /\ todo' = [todo EXCEPT !.freed = TRUE]
      /\ unfreed' = unfreed \ {x} /\ strays' = strays \ {x}
      /\ wanted' = [wanted EXCEPT ![a] = None]
      /\ overtaken' = overtaken \ {a}
      /\ UNCHANGED <<vars, exists, resolver, asks>>
  BY TodoIs DEF resolver_clear, Goes, ResolverIInv, LookupInv, CancelledFirst
<1>2. todo' \in Todos /\ todo' # Nothing /\ todo'.async = a /\ todo'.freed
  BY <1>1 DEF ResolverIInv, LookupInv, ResolverTypeOK, Todos, Nothing
<1>3. UNCHANGED <<calls, event, worker>>
  BY <1>1 DEF vars
<1>4. ResolverTypeOK'
  <2>1. wanted' \in [Asyncs -> 0..MaxCalls]
    BY <1>1, ConstantsOK DEF ResolverIInv, LookupInv, ResolverTypeOK, None
  <2> QED
    BY <1>1, <1>2, <2>1 DEF ResolverIInv, LookupInv, ResolverTypeOK
<1>5. CancelledFirst' /\ FreeAsksNothing'
  BY <1>1, <1>2, <1>3 DEF ResolverIInv, LookupInv, CancelledFirst, FreeAsksNothing
<1>6. OwnLookup'
  <2>1. ASSUME NEW b \in Asyncs \ overtaken', event'[b] # 0
        PROVE  b \in Asyncs \ overtaken /\ event[b] # 0 /\ wanted'[b] = wanted[b]
    BY <1>1, <1>3, <2>1 DEF ResolverIInv, LookupInv, ResolverTypeOK
  <2> QED
    BY <1>1, <1>3, <2>1 DEF ResolverIInv, LookupInv, OwnLookup, MayStore
<1>7. CallsExist' /\ CallsApart' /\ OwnThreads'
  BY <1>1, <1>3 DEF ResolverIInv, AnswerInv, CallsExist, CallsApart, OwnThreads, Busy
<1>8. ASSUME NEW b \in Asyncs, b # a, resolver[b].addrinfo # NoAnswer
      PROVE  resolver[b].addrinfo # x
  BY <1>1, <1>8 DEF ResolverIInv, AnswerInv, OwnThreads
<1>9. NothingToLose'
  <2> SUFFICES ASSUME NEW t \in Threads, worker[t].pc = "call", InProgress(t)
               PROVE  resolver[worker[t].async].addrinfo \in strays' \cup {NoAnswer}
    BY <1>1, <1>3 DEF NothingToLose, InProgress
  <2>1. worker[t].async \in Asyncs /\ event[worker[t].async] # 0
    BY DEF ResolverIInv, IInv, WorksForACall, Busy, InProgress
  <2>2. worker[t].async # a
    BY <1>1, <2>1
  <2>3. resolver[worker[t].async].addrinfo \in strays \cup {NoAnswer}
    BY DEF ResolverIInv, AnswerInv, NothingToLose
  <2> QED
    BY <1>1, <1>8, <2>1, <2>2, <2>3
<1>10. AnswersFreed' /\ unfreed' \subseteq Answers
  <2>1. Held' = Held \ {x}
    <3>1. ASSUME NEW b \in exists, b # a, resolver[b].addrinfo # NoAnswer
          PROVE  resolver[b].addrinfo # x
      BY <1>8, <3>1 DEF ResolverIInv, LookupInv, ResolverTypeOK
    <3>2. Held = {resolver[b].addrinfo : b \in exists} \ {NoAnswer}
      BY <1>1 DEF Held
    <3>3. Held' = {resolver[b].addrinfo : b \in exists \ {a}} \ {NoAnswer}
      BY <1>1, <1>2 DEF Held
    <3> QED
      BY <3>1, <3>2, <3>3
  <2> QED
    BY <1>1, <2>1 DEF ResolverIInv, AnswerInv, AnswersFreed
<1> QED
  BY <1>4, <1>5, <1>6, <1>7, <1>9, <1>10 DEF ResolverIInv, LookupInv, AnswerInv

(* Then its pointers are NULL: by now they point to nothing, or to a stray.   *)
LEMMA HeldStays ==
  ASSUME ResolverIInv, NEW op, Then(op), NEW q, q.addrinfo = NoAnswer,
         resolver' = [resolver EXCEPT ![todo.async] = q],
         exists' \in {exists, exists \ {todo.async}}
  PROVE  Held' = Held
<1> DEFINE a == todo.async
<1>1. todo.freed /\ todo' = Nothing /\ ~todo'.freed
  BY DEF Then, Nothing
<1>2. resolver \in [Asyncs -> Resolvers] /\ a \in Asyncs /\ a \in exists /\ exists \subseteq Asyncs
  BY TodoIs DEF Then, Goes, ResolverIInv, LookupInv, ResolverTypeOK, CancelledFirst
<1>3. Held = {resolver[b].addrinfo : b \in exists \ {a}} \ {NoAnswer}
  BY <1>1 DEF Held
<1>4. Held' = {resolver'[b].addrinfo : b \in exists'} \ {NoAnswer}
  BY <1>1 DEF Held
<1>5. resolver'[a].addrinfo = NoAnswer /\ \A b \in Asyncs : b # a => resolver'[b] = resolver[b]
  BY <1>2
<1> HIDE DEF a
<1> QED
  BY <1>2, <1>3, <1>4, <1>5 DEF a

(* A cancelled lookup leaves an empty object.                                 *)
LEMMA ClearKeeps ==
  ASSUME ResolverIInv, IInv', resolver_cancel \/ resolver_destruct
  PROVE  ResolverIInv'
<1>1. todo.async \in Asyncs /\ todo # Nothing
  BY TodoIs DEF ResolverIInv, LookupInv, resolver_cancel, resolver_destruct, Then
<1>2. /\ resolver' = [resolver EXCEPT ![todo.async] = Empty]
      /\ exists' \in {exists, exists \ {todo.async}} /\ todo' = Nothing
      /\ UNCHANGED <<calls, worker, event, asks, unfreed, strays, wanted, overtaken>>
  BY DEF resolver_cancel, resolver_destruct, Then, Cleared, vars, answers, histories
<1>3. event[todo.async] = 0
  BY <1>1 DEF ResolverIInv, LookupInv, CancelledFirst
<1>4. Empty \in Resolvers /\ Empty.addrinfo = NoAnswer /\ Nothing \in Todos
  BY ConstantsOK DEF Empty, Resolvers, None, Todos
<1>5. Held' = Held
  BY <1>2, <1>4, HeldStays DEF resolver_cancel, resolver_destruct
<1>6. /\ resolver'[todo.async].addrinfo = NoAnswer
      /\ \A b \in Asyncs : b # todo.async => resolver'[b] = resolver[b]
  BY <1>1, <1>2, <1>4 DEF ResolverIInv, LookupInv, ResolverTypeOK
<1>7. LookupInv'
  <2>1. ResolverTypeOK'
    BY <1>2, <1>4 DEF ResolverIInv, LookupInv, ResolverTypeOK
  <2>2. CancelledFirst' /\ FreeAsksNothing'
    BY <1>2 DEF ResolverIInv, LookupInv, CancelledFirst, FreeAsksNothing
  <2>3. OwnLookup'
    BY <1>2, <1>3, <1>6 DEF ResolverIInv, LookupInv, OwnLookup, MayStore
  <2> QED
    BY <2>1, <2>2, <2>3 DEF LookupInv
<1>8. CallsExist' /\ CallsApart'
  BY <1>2, <1>3 DEF ResolverIInv, AnswerInv, CallsExist, CallsApart, Busy
<1>9. OwnThreads'
  BY <1>6 DEF ResolverIInv, AnswerInv, OwnThreads
<1>10. NothingToLose'
  <2> SUFFICES ASSUME NEW t \in Threads, worker[t].pc = "call", InProgress(t)
               PROVE  resolver'[worker[t].async].addrinfo \in strays \cup {NoAnswer}
    BY <1>2 DEF NothingToLose, InProgress
  <2>1. worker[t].async \in Asyncs
    BY DEF ResolverIInv, IInv, WorksForACall, Busy
  <2> QED
    BY <1>6, <2>1 DEF ResolverIInv, AnswerInv, NothingToLose
<1>11. AnswersFreed' /\ unfreed' \subseteq Answers
  BY <1>2, <1>5 DEF ResolverIInv, AnswerInv, AnswersFreed
<1> QED
  BY <1>7, <1>8, <1>9, <1>10, <1>11 DEF ResolverIInv, AnswerInv

LEMMA LookupKeeps ==
  ASSUME ResolverIInv, IInv', NEW t \in Threads, NEW given \in BOOLEAN, NEW a \in Asyncs,
         todo.async = a, resolver_lookup(t, given)
  PROVE  ResolverIInv'
<1> DEFINE query == IF given THEN calls[a] + 1 ELSE None
           asked == [host |-> query, addrinfo |-> NoAnswer]
<1>2. worker \in [Threads -> Workers] /\ calls \in [Asyncs -> 0..MaxCalls] /\ WorksForACall
  BY DEF ResolverIInv, IInv, TypeOK
<1>3. /\ worker[t].pc = "free" /\ calls[a] < MaxCalls
      /\ calls' = [calls EXCEPT ![a] = @ + 1]
      /\ worker' = [worker EXCEPT ![t] = [pc |-> "call", async |-> a, call |-> calls[a] + 1,
                                          fd |-> 0, cancelled |-> FALSE]]
      /\ event' = [event EXCEPT ![a] = calls[a] + 1]
      /\ todo' = Nothing
  BY DEF resolver_lookup, async_call, Then
<1>4. query \in 0..MaxCalls
  BY <1>2, <1>3, ConstantsOK DEF None
<1>5. resolver' = [resolver EXCEPT ![a] = asked]
  <2>1. CASE given
    <3>1. [Empty EXCEPT !.host = query] = asked
      BY DEF Empty
    <3>2. resolver' = [resolver EXCEPT ![a] = [Empty EXCEPT !.host = calls[a] + 1]]
      BY <2>1 DEF resolver_lookup, Cleared
    <3> QED
      BY <2>1, <3>1, <3>2
  <2>2. CASE ~given
    <3>1. [Empty EXCEPT !.host = Empty.host] = asked
      BY <2>2 DEF Empty
    <3>2. resolver' = [resolver EXCEPT ![a] = [Empty EXCEPT !.host = Empty.host]]
      BY <2>2 DEF resolver_lookup, Cleared
    <3> QED
      BY <3>1, <3>2
  <2> QED
    BY <2>1, <2>2
<1>6. /\ wanted' = [wanted EXCEPT ![a] = query]
      /\ overtaken' = IF \E u \in Threads : MayStore(u, a) THEN overtaken \cup {a}
                      ELSE overtaken
      /\ UNCHANGED <<exists, asks, unfreed, strays>>
  BY DEF resolver_lookup, Then, answers
<1>7. asked.host = query /\ asked.addrinfo = NoAnswer /\ asked \in Resolvers
  BY <1>4 DEF Resolvers
<1>8. Held' = Held
  BY <1>5, <1>6, <1>7, HeldStays DEF resolver_lookup
<1> HIDE DEF query, asked
<1>9. /\ resolver'[a] = asked /\ \A b \in Asyncs : b # a => resolver'[b] = resolver[b]
      /\ \A b \in Asyncs : b # a => event'[b] = event[b]
      /\ event'[a] = calls[a] + 1
  BY <1>3, <1>5 DEF ResolverIInv, LookupInv, ResolverTypeOK, IInv, TypeOK
<1>10. \A u \in Threads, b \in Asyncs :
         MayStore(u, b)' <=> IF u = t THEN b = a ELSE MayStore(u, b)
  BY <1>2, <1>3 DEF MayStore, Workers
<1>11. ResolverTypeOK'
  <2>1. Nothing \in Todos
    BY DEF Todos
  <2> QED
    BY <1>3, <1>4, <1>5, <1>6, <1>7, <2>1 DEF ResolverIInv, LookupInv, ResolverTypeOK
<1>12. CancelledFirst' /\ FreeAsksNothing'
  <2>1. \A u \in Threads : worker'[u].pc = "free" => worker[u].pc = "free"
    BY <1>2, <1>3
  <2> QED
    BY <1>3, <1>6, <2>1 DEF ResolverIInv, LookupInv, CancelledFirst, FreeAsksNothing
<1>13. OwnLookup'
  <2> SUFFICES ASSUME NEW b \in Asyncs \ overtaken', event'[b] # 0
               PROVE  /\ resolver'[b].host = wanted'[b]
                      /\ OwnAnswer(resolver'[b].addrinfo, wanted'[b])
                      /\ \A u \in Threads : MayStore(u, b)' => asks'[u] \in {Unasked, wanted'[b]}
    BY DEF OwnLookup, OwnAnswer
  <2>1. wanted \in [Asyncs -> 0..MaxCalls]
    BY DEF ResolverIInv, LookupInv, ResolverTypeOK
  <2>2. CASE b = a
    <3>1. \A u \in Threads : MayStore(u, b)' => u = t
      BY <1>6, <1>10, <2>2
    <3>2. asks'[t] = Unasked
      BY <1>3, <1>6 DEF ResolverIInv, LookupInv, FreeAsksNothing
    <3>3. wanted'[b] = query
      BY <1>6, <2>1, <2>2
    <3> QED
      BY <1>7, <1>9, <2>2, <3>1, <3>2, <3>3 DEF OwnAnswer
  <2>3. CASE b # a
    <3>1. b \in Asyncs \ overtaken /\ wanted'[b] = wanted[b]
      BY <1>6, <2>1, <2>3
    <3> QED
      BY <1>6, <1>9, <1>10, <2>3, <3>1 DEF ResolverIInv, LookupInv, OwnLookup
  <2> QED
    BY <2>2, <2>3
<1>14. CallsExist'
  <2>1. a \in exists
    BY DEF resolver_lookup, Then, Goes, ResolverIInv, LookupInv, CancelledFirst
  <2> QED
    BY <1>6, <1>9, <2>1 DEF ResolverIInv, AnswerInv, CallsExist
<1>15. CallsApart'
  <2>1. \A u \in Threads : u # t => worker'[u] = worker[u]
    BY <1>2, <1>3
  <2>2. worker'[t].pc = "call" /\ worker'[t].async = a /\ worker'[t].call = calls[a] + 1
    BY <1>2, <1>3
  <2>3. \A b \in Asyncs : calls[b] \in Nat /\ calls'[b] = IF b = a THEN calls[a] + 1 ELSE calls[b]
    BY <1>2, <1>3
  <2>4. \A u \in Threads : Busy(u) => worker[u].call \in Nat /\ worker[u].async \in Asyncs
    BY <1>2, ConstantsOK DEF WorksForACall
  <2>5. \A u \in Threads : u # t => (Busy(u)' <=> Busy(u))
    BY <2>1 DEF Busy
  <2>6. ASSUME NEW u \in Threads, u # t, Busy(u)'
        PROVE  /\ worker'[u].call <= calls[worker'[u].async]
               /\ worker'[u].async \in Asyncs /\ worker'[u].call \in Nat
    BY <2>1, <2>4, <2>5, <2>6 DEF ResolverIInv, AnswerInv, CallsApart
  <2>7. ASSUME NEW u \in Threads, Busy(u)'
        PROVE  worker'[u].call <= calls'[worker'[u].async]
    BY <2>2, <2>3, <2>6, <2>7
  <2>8. ASSUME NEW u \in Threads, NEW v \in Threads, u # v, Busy(u)', Busy(v)',
               worker'[u].async = worker'[v].async, worker'[u].call = worker'[v].call
        PROVE  FALSE
    <3>1. CASE u = t \/ v = t
      BY <2>2, <2>3, <2>6, <2>8, <3>1
    <3>2. CASE u # t /\ v # t
      BY <2>1, <2>5, <2>8, <3>2 DEF ResolverIInv, AnswerInv, CallsApart
    <3> QED
      BY <3>1, <3>2
  <2> QED
    BY <2>7, <2>8 DEF CallsApart
<1>16. OwnThreads'
  BY <1>7, <1>9 DEF ResolverIInv, AnswerInv, OwnThreads
<1>17. NothingToLose'
  <2> SUFFICES ASSUME NEW u \in Threads, worker'[u].pc = "call", InProgress(u)'
               PROVE  resolver'[worker'[u].async].addrinfo \in strays' \cup {NoAnswer}
    BY DEF NothingToLose
  <2>1. CASE u = t
    BY <1>2, <1>3, <1>7, <1>9, <2>1
  <2>2. CASE u # t
    <3>1. worker'[u] = worker[u] /\ worker[u].async \in Asyncs
      BY <1>2, <1>3, <2>2 DEF WorksForACall, Busy
    <3> QED
      BY <1>6, <1>7, <1>9, <3>1 DEF ResolverIInv, AnswerInv, NothingToLose, InProgress
  <2> QED
    BY <2>1, <2>2
<1>18. AnswersFreed' /\ unfreed' \subseteq Answers
  BY <1>6, <1>8 DEF ResolverIInv, AnswerInv, AnswersFreed
<1> QED
  BY <1>11, <1>12, <1>13, <1>14, <1>15, <1>16, <1>17, <1>18
  DEF ResolverIInv, LookupInv, AnswerInv

LEMMA AskKeeps ==
  ASSUME ResolverIInv, IInv', NEW t \in Threads, net_resolve(t)
  PROVE  ResolverIInv'
<1> DEFINE a == worker[t].async
<1>1. /\ MayStore(t, a) /\ a \in Asyncs
      /\ asks' = [asks EXCEPT ![t] = resolver[a].host]
      /\ UNCHANGED <<calls, worker, event, exists, todo, resolver, unfreed, strays, wanted, overtaken>>
  BY DEF net_resolve, MayStore, At, ResolverIInv, IInv, WorksForACall, Busy, vars, answers, histories
<1>2. asks \in [Threads -> 0..Unasked] /\ resolver[a].host \in 0..Unasked
  BY <1>1, ConstantsOK DEF ResolverIInv, LookupInv, ResolverTypeOK, Resolvers, Unasked
<1>3. worker[t].pc # "free"
  BY <1>1 DEF MayStore
<1>4. ASSUME NEW b \in Asyncs \ overtaken, event[b] # 0, NEW u \in Threads, MayStore(u, b)
      PROVE  asks'[u] \in {Unasked, wanted[b]}
  <2>1. CASE u = t
    <3>1. b = a
      BY <1>1, <1>4, <2>1 DEF MayStore
    <3>2. resolver[b].host = wanted[b]
      BY <1>4 DEF ResolverIInv, LookupInv, OwnLookup
    <3> QED
      BY <1>1, <1>2, <2>1, <3>1, <3>2
  <2>2. CASE u # t
    BY <1>1, <1>2, <1>4, <2>2 DEF ResolverIInv, LookupInv, OwnLookup
  <2> QED
    BY <2>1, <2>2
<1>5. ResolverTypeOK' /\ CancelledFirst' /\ FreeAsksNothing'
  BY <1>1, <1>2, <1>3
  DEF ResolverIInv, LookupInv, ResolverTypeOK, CancelledFirst, FreeAsksNothing
<1>6. OwnLookup'
  BY <1>1, <1>4 DEF ResolverIInv, LookupInv, OwnLookup, MayStore
<1>7. AnswerInv'
  BY <1>1 DEF ResolverIInv, AnswerInv, CallsExist, CallsApart, OwnThreads, NothingToLose,
              InProgress, Busy, AnswersFreed, Held
<1> QED
  BY <1>5, <1>6, <1>7 DEF ResolverIInv, LookupInv

(* The answer is stored where there is none or a stray, or is a stray.        *)
LEMMA AnsweredKeeps ==
  ASSUME ResolverIInv, IInv', NEW t \in Threads, Answered(t)
  PROVE  ResolverIInv'
<1>1. PICK a \in Asyncs : a = worker[t].async
  BY DEF Answered, CallReturns, At, ResolverIInv, IInv, WorksForACall, Busy
<1>2. MayStore(t, a) /\ worker[t].pc = "call"
  BY <1>1 DEF Answered, CallReturns, At, MayStore
<1>3. worker' = [worker EXCEPT ![t].pc = "test"] /\ worker \in [Threads -> Workers]
  BY DEF Answered, CallReturns, ResolverIInv, IInv, TypeOK
<1>4. \A u \in Threads, b \in Asyncs : MayStore(u, b)' <=> u # t /\ MayStore(u, b)
  BY <1>3 DEF MayStore, Workers
<1>5. \A u \in Threads : /\ worker'[u].async = worker[u].async /\ worker'[u].call = worker[u].call
                         /\ Busy(u)' <=> Busy(u)
                         /\ worker'[u].pc = "call" => u # t /\ worker[u].pc = "call"
  BY <1>2, <1>3 DEF Workers, Busy
<1> DEFINE mine == [async |-> a, call |-> worker[t].call, names |-> asks[t]]
<1>6. PICK answer \in {mine, NoAnswer} :
        /\ resolver' = IF a \in exists THEN [resolver EXCEPT ![a] = Store(@, answer)] ELSE resolver
        /\ unfreed' = unfreed \cup ({answer} \ {NoAnswer})
        /\ strays' = IF InProgress(t) THEN strays
                     ELSE strays \cup (unfreed' \cap {answer, resolver[a].addrinfo})
  BY <1>1, Zenon DEF Answered
<1>7. /\ UNCHANGED <<calls, event, exists, todo, asks, wanted, overtaken>>
      /\ asks[t] # Unasked
  BY DEF Answered, CallReturns, loop_vars, histories
<1>8. /\ mine \in Answers /\ mine # NoAnswer
      /\ resolver \in [Asyncs -> Resolvers] /\ resolver[a] \in Resolvers
  <2>1. asks[t] \in 0..MaxCalls
    BY <1>7, ConstantsOK DEF ResolverIInv, LookupInv, ResolverTypeOK, Unasked
  <2>2. worker[t].call \in 1..MaxCalls
    BY <1>2 DEF ResolverIInv, IInv, WorksForACall, Busy
  <2> QED
    BY <1>1, <2>1, <2>2, ConstantsOK
    DEF ResolverIInv, LookupInv, ResolverTypeOK, Answers, NoAnswer
<1>9. mine.async = a /\ mine.names = asks[t]
  OBVIOUS
<1> HIDE DEF mine
<1>10. answer \in Answers \cup {NoAnswer} /\ (answer # NoAnswer => answer = mine)
  BY <1>6, <1>8
<1>11. /\ Store(resolver[a], answer) \in Resolvers
       /\ Store(resolver[a], answer).host = resolver[a].host
       /\ Store(resolver[a], answer).addrinfo = answer
  BY <1>8, <1>10 DEF Store, Resolvers
<1>12. /\ \A b \in Asyncs : b # a => resolver'[b] = resolver[b]
       /\ resolver'[a] = IF a \in exists THEN Store(resolver[a], answer) ELSE resolver[a]
       /\ resolver' \in [Asyncs -> Resolvers]
  BY <1>6, <1>8, <1>11
<1>13. ResolverTypeOK' /\ CancelledFirst' /\ FreeAsksNothing'
  <2>1. \A u \in Threads : worker'[u].pc = "free" => worker[u].pc = "free"
    BY <1>5 DEF Busy
  <2> QED
    BY <1>7, <1>12, <2>1
    DEF ResolverIInv, LookupInv, ResolverTypeOK, CancelledFirst, FreeAsksNothing
<1>14. OwnLookup'
  <2> SUFFICES ASSUME NEW b \in Asyncs \ overtaken', event'[b] # 0
               PROVE  /\ resolver'[b].host = wanted'[b]
                      /\ OwnAnswer(resolver'[b].addrinfo, wanted'[b])
                      /\ \A u \in Threads : MayStore(u, b)' => asks'[u] \in {Unasked, wanted'[b]}
    BY DEF OwnLookup, OwnAnswer
  <2>1. /\ b \notin overtaken /\ event[b] # 0 /\ wanted'[b] = wanted[b] /\ asks' = asks
        /\ resolver[b].host = wanted[b] /\ OwnAnswer(resolver[b].addrinfo, wanted[b])
        /\ \A u \in Threads : MayStore(u, b) => asks[u] \in {Unasked, wanted[b]}
    BY <1>7 DEF ResolverIInv, LookupInv, OwnLookup
  <2>2. b = a => OwnAnswer(answer, wanted[b])
    BY <1>2, <1>7, <1>9, <1>10, <2>1 DEF OwnAnswer
  <2> QED
    BY <1>4, <1>11, <1>12, <2>1, <2>2
<1>15. CallsExist' /\ CallsApart'
  BY <1>5, <1>7 DEF ResolverIInv, AnswerInv, CallsExist, CallsApart
<1>16. OwnThreads'
  BY <1>9, <1>10, <1>11, <1>12 DEF ResolverIInv, AnswerInv, OwnThreads
<1>17. InProgress(t) => event[a] # 0 /\ a \in exists
  BY <1>1, <1>2 DEF ResolverIInv, IInv, WorksForACall, Busy, AnswerInv, CallsExist, InProgress
<1>18. NothingToLose'
  <2> SUFFICES ASSUME NEW u \in Threads, worker'[u].pc = "call", InProgress(u)'
               PROVE  resolver'[worker'[u].async].addrinfo \in strays' \cup {NoAnswer}
    BY DEF NothingToLose
  <2>1. u # t /\ worker[u].pc = "call" /\ InProgress(u) /\ worker'[u].async = worker[u].async
    BY <1>5, <1>7 DEF InProgress
  <2>2. worker[u].async \in Asyncs
    BY <2>1 DEF ResolverIInv, IInv, WorksForACall, Busy
  <2>3. resolver[worker[u].async].addrinfo \in strays \cup {NoAnswer} /\ strays \subseteq strays'
    BY <1>6, <2>1 DEF ResolverIInv, AnswerInv, NothingToLose
  <2>4. CASE worker[u].async = a
    <3>1. ~InProgress(t)
      BY <1>1, <1>2, <2>1, <2>4 DEF ResolverIInv, AnswerInv, CallsApart, Busy, InProgress
    <3>2. answer \in strays' \cup {NoAnswer}
      BY <1>6, <3>1
    <3> QED
      BY <1>11, <1>12, <2>1, <2>3, <2>4, <3>2
  <2>5. CASE worker[u].async # a
    BY <1>12, <2>1, <2>2, <2>3, <2>5
  <2> QED
    BY <2>4, <2>5
<1>19. AnswersFreed' /\ unfreed' \subseteq Answers
  <2> DEFINE Keeps(b) == b \in exists /\ ~(todo.freed /\ todo.async = b)
  <2>1. exists \subseteq Asyncs /\ exists' = exists /\ todo' = todo
    BY <1>7 DEF ResolverIInv, LookupInv, ResolverTypeOK
  <2>2. \A x : x \in Held <=> x # NoAnswer /\ \E b \in exists : Keeps(b) /\ resolver[b].addrinfo = x
    BY DEF Held
  <2>3. \A x : x \in Held' <=> x # NoAnswer /\ \E b \in exists : Keeps(b) /\ resolver'[b].addrinfo = x
    BY <2>1 DEF Held
  <2>4. InProgress(t) => Keeps(a)
    <3>1. todo.freed => todo # Nothing
      BY DEF Nothing
    <3> QED
      BY <1>17, <3>1 DEF ResolverIInv, LookupInv, CancelledFirst
  <2> HIDE DEF Keeps
  <2>5. Held \subseteq unfreed /\ unfreed \subseteq Held \cup strays
    BY DEF ResolverIInv, AnswerInv, AnswersFreed
  <2>6. ASSUME NEW x \in Held' PROVE x \in unfreed'
    <3>1. x # NoAnswer
      BY <2>3
    <3>2. PICK b \in exists : Keeps(b) /\ resolver'[b].addrinfo = x
      BY <2>3
    <3>3. CASE b = a
      BY <1>6, <1>11, <1>12, <3>1, <3>2, <3>3
    <3>4. CASE b # a
      BY <1>6, <1>12, <2>1, <2>2, <2>5, <3>1, <3>2, <3>4
    <3> QED
      BY <3>3, <3>4
  <2>7. ASSUME NEW x \in unfreed' PROVE x \in Held' \cup strays'
    <3>1. CASE x \in strays
      BY <1>6, <3>1
    <3>2. CASE ~InProgress(t) /\ x \in {answer, resolver[a].addrinfo}
      BY <1>6, <2>7, <3>2
    <3>3. CASE InProgress(t) /\ x = answer /\ x # NoAnswer
      <4>1. Keeps(a) /\ a \in exists /\ resolver'[a].addrinfo = x
        BY <1>11, <1>12, <1>17, <2>4, <3>3
      <4> QED
        BY <2>3, <3>3, <4>1
    <3>4. CASE x \in Held
      <4>1. PICK b \in exists : Keeps(b) /\ resolver[b].addrinfo = x
        BY <2>2, <3>4
      <4>2. CASE b # a
        BY <1>12, <2>1, <2>2, <2>3, <3>4, <4>1, <4>2
      <4>3. CASE b = a /\ InProgress(t)
        <5>1. x \in strays
          BY <1>1, <1>2, <2>2, <3>4, <4>1, <4>3 DEF ResolverIInv, AnswerInv, NothingToLose
        <5> QED
          BY <3>1, <5>1
      <4> QED
        BY <3>2, <4>1, <4>2, <4>3
    <3> QED
      BY <1>6, <2>5, <2>7, <3>1, <3>2, <3>3, <3>4
  <2>8. unfreed' \subseteq Answers
    BY <1>6, <1>10 DEF ResolverIInv, AnswerInv
  <2> QED
    BY <2>6, <2>7, <2>8 DEF AnswersFreed
<1> QED
  BY <1>13, <1>14, <1>15, <1>16, <1>18, <1>19 DEF ResolverIInv, LookupInv, AnswerInv

(* The rest of a thread's steps store nothing.                                *)
LEMMA ThreadKeeps ==
  ASSUME ResolverIInv, IInv', NEW t \in Threads, ThreadRuns(t)
  PROVE  ResolverIInv'
<1>1. worker \in [Threads -> Workers] /\ asks \in [Threads -> 0..Unasked]
  BY DEF ResolverIInv, IInv, TypeOK, LookupInv, ResolverTypeOK
<1>2. UNCHANGED <<calls, event, exists, todo, resolver, unfreed, strays, wanted, overtaken>>
  BY DEF ThreadRuns, event_is_open, descriptor_fd, event_signal, Cancelled, Exit, loop_vars,
         answers, histories
<1>3. /\ \A u \in Threads : u # t => worker'[u] = worker[u]
      /\ worker'[t].pc # "call" /\ worker[t].pc # "free"
      /\ worker'[t].pc = "free" \/ (worker'[t].async = worker[t].async
                                    /\ worker'[t].call = worker[t].call)
  <2>1. CASE event_is_open(t)
    BY <1>1, <2>1 DEF event_is_open, At, Workers
  <2>2. CASE descriptor_fd(t)
    BY <1>1, <2>2 DEF descriptor_fd, At, Workers
  <2>3. CASE event_signal(t)
    BY <1>1, <2>3 DEF event_signal, At, Workers
  <2>4. CASE Cancelled(t) \/ Exit(t)
    BY <1>1, <2>4 DEF Cancelled, Exit, At, Free
  <2> QED
    BY <2>1, <2>2, <2>3, <2>4 DEF ThreadRuns
<1>4. /\ \A u \in Threads : u # t => asks'[u] = asks[u]
      /\ worker'[t].pc = "free" => asks'[t] = Unasked
      /\ asks' \in [Threads -> 0..Unasked]
  BY <1>1, ConstantsOK DEF ThreadRuns, Unasked
<1>5. \A u \in Threads, b \in Asyncs : MayStore(u, b)' => u # t /\ MayStore(u, b)
  BY <1>3 DEF MayStore
<1>6. ResolverTypeOK' /\ CancelledFirst'
  BY <1>2, <1>4 DEF ResolverIInv, LookupInv, ResolverTypeOK, CancelledFirst
<1>7. FreeAsksNothing'
  BY <1>3, <1>4 DEF ResolverIInv, LookupInv, FreeAsksNothing
<1>8. OwnLookup'
  BY <1>2, <1>4, <1>5 DEF ResolverIInv, LookupInv, OwnLookup
<1>9. CallsExist' /\ OwnThreads'
  BY <1>2 DEF ResolverIInv, AnswerInv, CallsExist, OwnThreads
<1>10. CallsApart'
  <2>1. \A u \in Threads : Busy(u)' => /\ Busy(u)
                                       /\ worker'[u].async = worker[u].async
                                       /\ worker'[u].call = worker[u].call
    BY <1>3 DEF Busy
  <2> QED
    BY <1>2, <2>1 DEF ResolverIInv, AnswerInv, CallsApart
<1>11. NothingToLose'
  BY <1>2, <1>3 DEF ResolverIInv, AnswerInv, NothingToLose, InProgress
<1>12. AnswersFreed' /\ unfreed' \subseteq Answers
  BY <1>2 DEF ResolverIInv, AnswerInv, AnswersFreed, Held
<1> QED
  BY <1>6, <1>7, <1>8, <1>9, <1>10, <1>11, <1>12 DEF ResolverIInv, LookupInv, AnswerInv

LEMMA ResolverNextIInv ==
  ASSUME ResolverIInv, [ResolverNext]_all_vars
  PROVE  ResolverIInv'
<1>1. IInv'
  BY StepOfAsync, NextIInv DEF ResolverIInv, LookupInv
<1>2. ASSUME NEW t \in Threads, NEW given \in BOOLEAN, resolver_lookup(t, given)
      PROVE  ResolverIInv'
  <2>1. PICK a \in Asyncs : todo.async = a
    BY <1>2, TodoIs DEF ResolverIInv, LookupInv, resolver_lookup, Then
  <2> QED
    BY <1>1, <1>2, <2>1, LookupKeeps
<1>3. CASE UNCHANGED all_vars
  <2>1. LookupInv'
    BY <1>3 DEF all_vars, vars, histories, answers, ResolverIInv, LookupInv, ResolverTypeOK,
                CancelledFirst, FreeAsksNothing, OwnLookup, MayStore
  <2>2. AnswerInv'
    BY <1>3 DEF all_vars, vars, histories, answers, ResolverIInv, AnswerInv, CallsExist,
                CallsApart, OwnThreads, NothingToLose, InProgress, Busy, AnswersFreed, Held
  <2> QED
    BY <1>1, <2>1, <2>2 DEF ResolverIInv
<1>4. ASSUME NEW a \in Asyncs, resolver_callback(a) PROVE ResolverIInv'
  BY <1>1, <1>4, CallbackKeeps
<1>5. ASSUME NEW a \in Asyncs, NEW op \in {"lookup", "cancel", "destruct"}, Begin(a, op)
      PROVE  ResolverIInv'
  BY <1>1, <1>5, BeginKeeps
<1>6. CASE CancelThread
  BY <1>1, <1>6, CancelKeeps
<1>7. CASE Finish
  BY <1>1, <1>2, <1>7, FreeKeeps, ClearKeeps DEF Finish
<1>8. ASSUME NEW t \in Threads, Thread(t) PROVE ResolverIInv'
  BY <1>1, <1>8, AskKeeps, AnsweredKeeps, ThreadKeeps DEF Thread
<1> QED
  BY <1>3, <1>4, <1>5, <1>6, <1>7, <1>8 DEF ResolverNext

LEMMA ResolverInvariance == ResolverSpec => []ResolverIInv
<1> QED
  BY ResolverInitIInv, ResolverNextIInv, PTL DEF ResolverSpec

(* The answer that ASYNC_DONE reports for a lookup is that of the lookup, or  *)
(* none, unless it was started while an earlier one could still store.        *)
THEOREM AnswerBelongsToLookup == ResolverSpec => []AnswerIsForLookup
<1>1. ResolverIInv => AnswerIsForLookup
  BY DEF ResolverIInv, LookupInv, OwnLookup, OwnAnswer, AnswerIsForLookup
<1> QED
  BY <1>1, ResolverInvariance, PTL

(* No resolver points to an answer that was freed, and an answer that was not *)
(* freed is the one its resolver points to, unless it was stored when its     *)
(* call had been cancelled, or such a late one was stored over it.            *)
THEOREM AnswersAreFreed == ResolverSpec => []AnswersFreed
<1>1. ResolverIInv => AnswersFreed
  BY DEF ResolverIInv, AnswerInv
<1> QED
  BY <1>1, ResolverInvariance, PTL

(* A resolver uses its calls as Async allows, so all that was proved of calls *)
(* holds of lookups.                                                          *)
THEOREM LookupsAreCalls == ResolverSpec => Spec
<1>1. ResolverIInv /\ [ResolverNext]_all_vars => [Next]_vars
  BY StepOfAsync DEF ResolverIInv, LookupInv
<1>2. ResolverInit => Init
  BY DEF ResolverInit
<1> QED
  BY <1>1, <1>2, ResolverInvariance, PTL DEF ResolverSpec, Spec
=============================================================================
