-------------------------------- MODULE Async --------------------------------
(***************************************************************************)
(* Calls on a thread of their own: src/reactor/async.c and event.c.        *)
(*                                                                         *)
(* async_call starts a detached thread that runs the application's handler *)
(* (ASYNC_CALL) and then wakes the event loop through an eventfd; the loop *)
(* closes the eventfd and dispatches ASYNC_DONE.  Meanwhile the loop may   *)
(* cancel the call: it closes the eventfd and then cancels the thread,     *)
(* which notices at its next cancellation point.                           *)
(*                                                                         *)
(* The threads of the loop and of the calls interleave at every access to  *)
(* the shared object.  A readable eventfd leads to a callback, as          *)
(* EventPort promises.                                                     *)
(***************************************************************************)
EXTENDS Naturals

CONSTANTS
  Asyncs,     (* struct async objects                                         *)
  Threads,    (* the values of pthread_t                                      *)
  NoAsync, NoThread,
  MaxCalls    (* bound: calls of one object                                   *)

ASSUME ConstantsOK ==
  NoAsync \notin Asyncs /\ NoThread \notin Threads /\ MaxCalls \in Nat

VARIABLES
  calls,       (* calls[a]: how often a was called                            *)
  event,       (* event[a]: its open eventfd, named by the call, or 0         *)
  count,       (* count[a]: the counter of that eventfd                       *)
  thread,      (* async->thread                                               *)
  worker,      (* what each thread does; an id may be used again after exit   *)
  cancelling,  (* the object for which the loop's thread has closed the event *)
               (* in async_cancel and not yet called pthread_cancel           *)
  returned,    (* history: the calls whose handler has returned               *)
  aborted      (* "no", or what has ended the process: an assertion of        *)
               (* "signal", or "cancel" of a thread that is gone              *)

vars == <<calls, event, count, thread, worker, cancelling, returned, aborted>>
loop_vars == <<calls, event, thread, cancelling>>

Free == [pc |-> "free", async |-> NoAsync, call |-> 0, fd |-> 0, cancelled |-> FALSE]

Init ==
  /\ calls = [a \in Asyncs |-> 0]
  /\ event = [a \in Asyncs |-> 0]
  /\ count = [a \in Asyncs |-> 0]
  /\ thread = [a \in Asyncs |-> NoThread]
  /\ worker = [t \in Threads |-> Free]
  /\ cancelling = NoAsync
  /\ returned = {}
  /\ aborted = "no"

-----------------------------------------------------------------------------
(* The thread of the event loop.                                              *)

Alive == aborted = "no"
LoopRuns == Alive /\ cancelling = NoAsync

(* The application calls an object that has no call in progress.              *)
async_call(a, t) ==
  /\ LoopRuns
  /\ event[a] = 0 /\ calls[a] < MaxCalls
  /\ worker[t].pc = "free"
  /\ calls' = [calls EXCEPT ![a] = @ + 1]
  /\ event' = [event EXCEPT ![a] = calls[a] + 1]
  /\ count' = [count EXCEPT ![a] = 0]
  /\ thread' = [thread EXCEPT ![a] = t]
  /\ worker' = [worker EXCEPT ![t] = [pc |-> "call", async |-> a, call |-> calls[a] + 1,
                                      fd |-> 0, cancelled |-> FALSE]]
  /\ UNCHANGED <<cancelling, returned, aborted>>

(* event_callback and async_callback: ASYNC_DONE is dispatched.               *)
async_callback(a) ==
  /\ LoopRuns
  /\ event[a] # 0 /\ count[a] > 0
  /\ event' = [event EXCEPT ![a] = 0]
  /\ count' = [count EXCEPT ![a] = 0]
  /\ thread' = [thread EXCEPT ![a] = NoThread]
  /\ UNCHANGED <<calls, worker, cancelling, returned, aborted>>

(* async_cancel and async_destruct, up to pthread_cancel.                     *)
async_cancel(a) ==
  /\ LoopRuns
  /\ event[a] # 0
  /\ event' = [event EXCEPT ![a] = 0]
  /\ count' = [count EXCEPT ![a] = 0]
  /\ cancelling' = IF thread[a] = NoThread THEN NoAsync ELSE a
  /\ UNCHANGED <<calls, thread, worker, returned, aborted>>

(* Slip: the thread is not cancelled.                                         *)
CancelNobody ==
  /\ Alive /\ cancelling # NoAsync
  /\ thread' = [thread EXCEPT ![cancelling] = NoThread]
  /\ cancelling' = NoAsync
  /\ UNCHANGED <<calls, event, count, worker, returned, aborted>>

(* The id may be that of another thread, which was given it after the first   *)
(* had exited.  If no thread has it, pthread_cancel is undefined: it finds    *)
(* that out, or uses memory that was freed.                                   *)
pthread_cancel ==
  /\ Alive /\ cancelling # NoAsync
  /\ LET t == thread[cancelling]
     IN  \/ /\ worker[t].pc # "free"
            /\ worker' = [worker EXCEPT ![t].cancelled = TRUE]
            /\ UNCHANGED aborted
         \/ /\ worker[t].pc = "free"
            /\ aborted' \in {"no", "cancel"}
            /\ UNCHANGED worker
  /\ thread' = [thread EXCEPT ![cancelling] = NoThread]
  /\ cancelling' = NoAsync
  /\ UNCHANGED <<calls, event, count, returned>>

-----------------------------------------------------------------------------
(* async_thread, on thread t.                                                 *)

At(t, pc) == Alive /\ worker[t].pc = pc

(* Slip: the thread ends without a signal.                                    *)
ReturnsSilently(t) ==
  /\ At(t, "call")
  /\ worker' = [worker EXCEPT ![t].pc = "return"]
  /\ returned' = returned \cup {<<worker[t].async, worker[t].call>>}
  /\ UNCHANGED <<loop_vars, count, aborted>>

CallReturns(t) ==
  /\ At(t, "call")
  /\ worker' = [worker EXCEPT ![t].pc = "test"]
  /\ returned' = returned \cup {<<worker[t].async, worker[t].call>>}
  /\ UNCHANGED <<loop_vars, count, aborted>>

event_is_open(t) ==
  /\ At(t, "test")
  /\ worker' = [worker EXCEPT
                  ![t].pc = IF event[worker[t].async] # 0 THEN "signal" ELSE "return"]
  /\ UNCHANGED <<loop_vars, count, returned, aborted>>

(* event_signal reads the file descriptor again ...                           *)
descriptor_fd(t) ==
  /\ At(t, "signal")
  /\ worker' = [worker EXCEPT
                  ![t] = [@ EXCEPT !.pc = "write", !.fd = event[worker[t].async]]]
  /\ UNCHANGED <<loop_vars, count, returned, aborted>>

(* ... and writes to it.  If it is closed by now the write fails, or goes to  *)
(* whatever file another thread has opened under the same number.             *)
event_signal(t) ==
  LET a == worker[t].async
      fd == worker[t].fd
  IN  /\ At(t, "write")
      /\ ~worker[t].cancelled
      /\ worker' = [worker EXCEPT ![t].pc = "return"]
      /\ \/ /\ fd # 0 /\ fd = event[a]
            /\ count' = [count EXCEPT ![a] = @ + 1]
            /\ UNCHANGED aborted
         \/ /\ fd # event[a] \/ fd = 0
            /\ aborted' \in {"signal"} \cup (IF fd = 0 THEN {} ELSE {"no"})
            /\ UNCHANGED count
      /\ UNCHANGED <<loop_vars, returned>>

(* A cancelled thread ends at the next cancellation point: write is one, and  *)
(* the handler may have some.                                                 *)
Cancelled(t) ==
  /\ At(t, "call") \/ At(t, "write")
  /\ worker[t].cancelled
  /\ worker' = [worker EXCEPT ![t] = Free]
  /\ UNCHANGED <<loop_vars, count, returned, aborted>>

Exit(t) ==
  /\ At(t, "return")
  /\ worker' = [worker EXCEPT ![t] = Free]
  /\ UNCHANGED <<loop_vars, count, returned, aborted>>

-----------------------------------------------------------------------------
Worker(t) ==
  CallReturns(t) \/ event_is_open(t) \/ descriptor_fd(t) \/ event_signal(t)
    \/ Cancelled(t) \/ Exit(t)

Next ==
  \/ \E a \in Asyncs, t \in Threads : async_call(a, t)
  \/ \E a \in Asyncs : async_callback(a) \/ async_cancel(a)
  \/ pthread_cancel
  \/ \E t \in Threads : Worker(t)

Spec == Init /\ [][Next]_vars

-----------------------------------------------------------------------------
Workers ==
  [pc : {"free", "call", "test", "signal", "write", "return"},
   async : Asyncs \cup {NoAsync}, call : 0..MaxCalls, fd : 0..MaxCalls,
   cancelled : BOOLEAN]

(* Every variable keeps its type.                                             *)
TypeOK ==
  /\ calls \in [Asyncs -> 0..MaxCalls]
  /\ event \in [Asyncs -> 0..MaxCalls]
  /\ count \in [Asyncs -> Nat]
  /\ thread \in [Asyncs -> Threads \cup {NoThread}]
  /\ worker \in [Threads -> Workers]
  /\ cancelling \in Asyncs \cup {NoAsync}
  /\ returned \subseteq Asyncs \X (1..MaxCalls)
  /\ aborted \in {"no", "signal", "cancel"}

(* A thread that may still signal and has not been told to stop works for the *)
(* call in progress of its object, whose id for it is right: when a call is   *)
(* cancelled or done, no thread is left behind that could wake the loop for a *)
(* later one.                                                                 *)
MaySignal(t) == worker[t].pc \in {"call", "test", "signal", "write"}

NoneLeftBehind ==
  \A t \in Threads :
    LET w == worker[t]
    IN  MaySignal(t) /\ ~w.cancelled =>
          /\ thread[w.async] = t
          /\ w.call = calls[w.async]
          /\ event[w.async] = w.call \/ cancelling = w.async

(* ASYNC_DONE is dispatched only when the handler of that very call, not of   *)
(* an earlier one that was cancelled, has returned.                           *)
DoneAfterCall ==
  \A a \in Asyncs : event[a] # 0 /\ count[a] > 0 => <<a, event[a]>> \in returned

(* The assertion of event_signal: the write to the eventfd succeeds.          *)
SignalsSucceed == aborted # "signal"
=============================================================================
