------------------------------ MODULE Reactor ------------------------------
(***************************************************************************)
(* The event loop of libreactor: src/reactor/core.c (the epoll loop) and   *)
(* src/reactor/descriptor.c (the object every other component builds on).  *)
(*                                                                         *)
(* One thread runs everything.  reactor_loop fills an array of events with *)
(* epoll_wait and dispatches them one by one; a dispatched event calls the *)
(* owner of the descriptor back up to three times (read, write, close),    *)
(* and during a callback the owner may open, re-mask, close, destroy or    *)
(* reopen any descriptor, those with events still in the array included.   *)
(*                                                                         *)
(* The kernel is external and is modelled from how the code uses it: a     *)
(* file is ready for some kinds of event, a wakeup queues its registration *)
(* and epoll_wait reports queued registrations, an edge-triggered one once *)
(* per wakeup and a level-triggered one as long as it stays ready.         *)
(***************************************************************************)
EXTENDS Integers, FiniteSets, Sequences

CONSTANTS
  Descriptors,  (* struct descriptor objects, each with its own epoll_handler *)
  Default,      (* the reactor_handler_default object                         *)
  Masks,        (* the masks the owners use                                   *)
  MaxEvents,    (* REACTOR_MAX_EVENTS                                         *)
  MaxOpens,     (* bound: how often one descriptor is opened                  *)
  Signals       (* whether SIGTERM/SIGINT may arrive                          *)

Kinds == {"read", "write", "close"}
Flags == {"read", "write", "level"}

ASSUME ConstantsOK ==
  /\ IsFiniteSet(Descriptors)
  /\ Default \notin Descriptors
  /\ Masks \subseteq SUBSET Flags
  /\ MaxEvents \in Nat \ {0}
  /\ MaxOpens \in Nat
  /\ Signals \in BOOLEAN

VARIABLES
  active,       (* reactor_core.active                                        *)
  descriptors,  (* reactor_core.descriptors                                   *)
  events,       (* the array filled by epoll_wait, up to event_end            *)
  event,        (* reactor_core.event, an index into events                   *)
  tested,       (* the bits descriptor_callback has tested in events[event]   *)
  phase,        (* where the thread is                                        *)
  looping,      (* reactor_loop_once was called by reactor_loop               *)
  alive,        (* the constructed descriptors                                *)
  is_open,      (* the descriptors with fd >= 0                               *)
  mask,         (* descriptor->mask                                           *)
  level,        (* kernel: what each file is ready for                        *)
  ready,        (* kernel: the registrations on epoll's ready list            *)
  opens         (* history: how often each descriptor was opened, which names *)
                (* its current registration                                   *)

core_vars == <<active, descriptors, events, event, tested, phase, looping>>
descriptor_vars == <<alive, is_open, mask, opens>>
kernel_vars == <<level, ready>>
vars == <<core_vars, descriptor_vars, kernel_vars>>

-----------------------------------------------------------------------------
(* What descriptor_events asks epoll for; hang-ups are always included.       *)
descriptor_events(m) == (m \cap {"read", "write"}) \cup {"close"}

(* The kinds epoll would report for d now.                                    *)
Reportable(d) == level[d] \cap descriptor_events(mask[d])

(* An entry that reactor_delete has overwritten.                              *)
Cleared == [handler |-> Default, bits |-> {}, reg |-> 0]

(* descriptor_callback tests read, then write, then the rest.                 *)
Before(k) == CASE k = "read"  -> {}
               [] k = "write" -> {"read"}
               [] k = "close" -> {"read", "write"}

(* What is left to dispatch of the i-th entry.                                *)
Untested(i) == IF i = event THEN events[i].bits \ tested ELSE events[i].bits

(* Kinds reported for the current registration of d and not yet delivered.    *)
Due(d) == UNION {Untested(i) : i \in {j \in event..Len(events) :
                                        events[j].handler = d}}

(* The owners' code runs in the main program and in callbacks.                *)
AppRuns == phase \in {"main", "callback"}

Init ==
  /\ active = TRUE /\ descriptors = 0
  /\ events = <<>> /\ event = 1 /\ tested = {}
  /\ phase = "main" /\ looping = FALSE
  /\ alive = {} /\ is_open = {}
  /\ mask = [d \in Descriptors |-> {}]
  /\ opens = [d \in Descriptors |-> 0]
  /\ level = [d \in Descriptors |-> {}]
  /\ ready = {}

-----------------------------------------------------------------------------
(* Operations of descriptor.c, called by the owners.                          *)

descriptor_construct(d) ==
  /\ AppRuns
  /\ d \notin alive
  /\ alive' = alive \cup {d}
  /\ UNCHANGED <<core_vars, is_open, mask, opens, kernel_vars>>

(* reactor_add: the kernel queues a file that is ready when it is added.  The *)
(* file comes with any readiness; owners open a descriptor only when closed.  *)
descriptor_open(d, m) ==
  /\ AppRuns
  /\ d \in alive \ is_open
  /\ opens[d] < MaxOpens
  /\ is_open' = is_open \cup {d}
  /\ mask' = [mask EXCEPT ![d] = m]
  /\ opens' = [opens EXCEPT ![d] = @ + 1]
  /\ descriptors' = descriptors + 1
  /\ \E l \in {{}, {"write"}} :
       /\ level' = [level EXCEPT ![d] = l]
       /\ ready' = IF l \cap descriptor_events(m) # {} THEN ready \cup {d} ELSE ready
  /\ UNCHANGED <<active, events, event, tested, phase, looping, alive>>

(* An equal mask returns early; otherwise EPOLL_CTL_MOD polls the file again. *)
descriptor_mask(d, m) ==
  /\ AppRuns
  /\ d \in is_open
  /\ mask[d] # m
  /\ mask' = [mask EXCEPT ![d] = m]
  /\ ready' = IF level[d] \cap descriptor_events(m) # {} THEN ready \cup {d} ELSE ready
  /\ UNCHANGED <<core_vars, alive, is_open, opens, level>>

(* Slips that the checks must notice: a sweep from the next entry on, and one *)
(* that does not compare the handler.                                         *)
SweepAfterCurrent(d) ==
  [i \in 1..Len(events) |->
     IF i > event /\ events[i].handler = d THEN Cleared ELSE events[i]]
SweepEverything(d) ==
  [i \in 1..Len(events) |-> IF i >= event THEN Cleared ELSE events[i]]

(* reactor_delete's sweep over the entries from event to event_end.           *)
ClearPending(d) ==
  [i \in 1..Len(events) |->
     IF i >= event /\ events[i].handler = d THEN Cleared ELSE events[i]]

(* Slip: reactor_delete does not count down.                                  *)
CloseWithoutCount(d) ==
  /\ events' = ClearPending(d)
  /\ descriptors' = descriptors
  /\ is_open' = is_open \ {d}
  /\ mask' = [mask EXCEPT ![d] = {}]
  /\ level' = [level EXCEPT ![d] = {}]
  /\ ready' = ready \ {d}

(* reactor_delete, then the file is closed and leaves epoll's ready list.     *)
CloseEffect(d) ==
  /\ events' = ClearPending(d)
  /\ descriptors' = descriptors - 1
  /\ is_open' = is_open \ {d}
  /\ mask' = [mask EXCEPT ![d] = {}]
  /\ level' = [level EXCEPT ![d] = {}]
  /\ ready' = ready \ {d}

descriptor_close(d) ==
  /\ AppRuns
  /\ d \in is_open
  /\ CloseEffect(d)
  /\ UNCHANGED <<active, event, tested, phase, looping, alive, opens>>

(* The owner may free the object as soon as this returns.                     *)
descriptor_destruct(d) ==
  /\ AppRuns
  /\ d \in alive
  /\ alive' = alive \ {d}
  /\ \/ d \in is_open /\ CloseEffect(d)
     \/ /\ d \notin is_open
        /\ UNCHANGED <<events, descriptors, is_open, mask, kernel_vars>>
  /\ UNCHANGED <<active, event, tested, phase, looping, opens>>

(* The owner reads or writes until the file is no longer ready for k.         *)
Consume(d, k) ==
  /\ AppRuns
  /\ d \in is_open
  /\ k \in level[d] \ {"close"}
  /\ level' = [level EXCEPT ![d] = @ \ {k}]
  /\ UNCHANGED <<core_vars, descriptor_vars, ready>>

-----------------------------------------------------------------------------
(* Operations of core.c.                                                      *)

reactor_abort ==
  /\ AppRuns
  /\ active
  /\ active' = FALSE
  /\ UNCHANGED <<descriptors, events, event, tested, phase, looping,
                 descriptor_vars, kernel_vars>>

(* reactor_destruct followed by reactor_construct; the owners have closed     *)
(* every descriptor, as each test and example does before it destructs.       *)
reactor_construct ==
  /\ phase = "main"
  /\ is_open = {}
  /\ active' = TRUE /\ descriptors' = 0
  /\ events' = <<>> /\ event' = 1 /\ tested' = {}
  /\ UNCHANGED <<phase, looping, descriptor_vars, kernel_vars>>

(* The main program calls reactor_loop, or reactor_loop_once directly.        *)
CallLoop ==
  /\ phase = "main"
  /\ \/ phase' = "test" /\ looping' = TRUE
     \/ phase' = "enter" /\ looping' = FALSE
  /\ UNCHANGED <<active, descriptors, events, event, tested,
                 descriptor_vars, kernel_vars>>

(* Slips: the loop looks at one of its two conditions only.                   *)
LoopWhileActive ==
  /\ phase = "test"
  /\ phase' = IF active THEN "enter" ELSE "main"
  /\ UNCHANGED <<active, descriptors, events, event, tested, looping,
                 descriptor_vars, kernel_vars>>
LoopWhileOpen ==
  /\ phase = "test"
  /\ phase' = IF descriptors > 0 THEN "enter" ELSE "main"
  /\ UNCHANGED <<active, descriptors, events, event, tested, looping,
                 descriptor_vars, kernel_vars>>

(* while (reactor_core.active && reactor_core.descriptors)                    *)
reactor_loop ==
  /\ phase = "test"
  /\ phase' = IF active /\ descriptors > 0 THEN "enter" ELSE "main"
  /\ UNCHANGED <<active, descriptors, events, event, tested, looping,
                 descriptor_vars, kernel_vars>>

(* The thread blocks in epoll_wait; the instants before it are "enter".       *)
Block ==
  /\ phase = "enter"
  /\ phase' = "wait"
  /\ UNCHANGED <<active, descriptors, events, event, tested, looping,
                 descriptor_vars, kernel_vars>>

AfterOnce == IF looping THEN "test" ELSE "main"

(* epoll_wait returns the entries of b: distinct ready registrations, at most *)
(* MaxEvents.  Level-triggered ones stay on the ready list.                   *)
epoll_wait(b) ==
  /\ phase = "wait"
  /\ \A i \in DOMAIN b : Reportable(b[i]) # {}
  /\ \A i, j \in DOMAIN b : i # j => b[i] # b[j]
  /\ events' = [i \in DOMAIN b |->
                  [handler |-> b[i], bits |-> Reportable(b[i]), reg |-> opens[b[i]]]]
  /\ event' = 1 /\ tested' = {}
  /\ phase' = "batch"
  /\ ready' = ready \ {b[i] : i \in {j \in DOMAIN b : "level" \notin mask[b[j]]}}
  /\ UNCHANGED <<active, descriptors, looping, descriptor_vars, level>>

WaitReports(d) ==
  \E n \in 1..MaxEvents : \E b \in [1..n -> ready] :
    (\E i \in 1..n : b[i] = d) /\ epoll_wait(b)

(* EINTR: reactor_loop_once returns without a batch.                          *)
Interrupt ==
  /\ phase = "wait"
  /\ phase' = AfterOnce
  /\ UNCHANGED <<active, descriptors, events, event, tested, looping,
                 descriptor_vars, kernel_vars>>

(* SIGTERM or SIGINT runs reactor_signal wherever the thread is; only a       *)
(* blocked epoll_wait notices.                                                *)
reactor_signal ==
  /\ Signals
  /\ active
  /\ active' = FALSE
  /\ phase' = IF phase = "wait" THEN AfterOnce ELSE phase
  /\ UNCHANGED <<descriptors, events, event, tested, looping,
                 descriptor_vars, kernel_vars>>

(* Slip: else-if between the tests, so only the first kind is dispatched.     *)
CallbackFirstOnly(k) ==
  /\ phase = "batch"
  /\ event <= Len(events)
  /\ k \in Untested(event)
  /\ Before(k) \cap Untested(event) = {}
  /\ tested' = Kinds
  /\ phase' = "callback"
  /\ UNCHANGED <<active, descriptors, events, event, looping,
                 descriptor_vars, kernel_vars>>

(* descriptor_callback calls the owner back for the next bit that is set.     *)
descriptor_callback(k) ==
  /\ phase = "batch"
  /\ event <= Len(events)
  /\ k \in Untested(event)
  /\ Before(k) \cap Untested(event) = {}
  /\ tested' = Before(k) \cup {k}
  /\ phase' = "callback"
  /\ UNCHANGED <<active, descriptors, events, event, looping,
                 descriptor_vars, kernel_vars>>

(* The owner's callback returns to descriptor_callback.                       *)
Return ==
  /\ phase = "callback"
  /\ phase' = "batch"
  /\ UNCHANGED <<active, descriptors, events, event, tested, looping,
                 descriptor_vars, kernel_vars>>

(* The for loop of reactor_loop_once: event++, and the exit at event_end.     *)
NextEvent ==
  /\ phase = "batch"
  /\ event <= Len(events)
  /\ Untested(event) = {}
  /\ event' = event + 1
  /\ tested' = {}
  /\ UNCHANGED <<active, descriptors, events, phase, looping,
                 descriptor_vars, kernel_vars>>

EndOfBatch ==
  /\ phase = "batch"
  /\ event > Len(events)
  /\ events' = <<>> /\ event' = 1
  /\ phase' = AfterOnce
  /\ UNCHANGED <<active, descriptors, tested, looping, descriptor_vars, kernel_vars>>

-----------------------------------------------------------------------------
(* Environment: the other end makes the file of d ready for k, or wakes it    *)
(* again.  A wakeup queues the registration if it asked for k.                *)
Wakeup(d, k) ==
  /\ d \in is_open
  /\ level' = [level EXCEPT ![d] = @ \cup {k}]
  /\ ready' = IF k \in descriptor_events(mask[d]) THEN ready \cup {d} ELSE ready
  /\ UNCHANGED <<core_vars, descriptor_vars>>

Owners ==
  \/ \E d \in Descriptors :
       \/ descriptor_construct(d)
       \/ \E m \in Masks : descriptor_open(d, m) \/ descriptor_mask(d, m)
       \/ descriptor_close(d)
       \/ descriptor_destruct(d)
       \/ \E k \in Kinds : Consume(d, k)
  \/ reactor_abort
  \/ reactor_construct
  \/ CallLoop

Loop ==
  \/ reactor_loop
  \/ Block
  \/ \E d \in Descriptors : WaitReports(d)
  \/ \E k \in Kinds : descriptor_callback(k)
  \/ Return
  \/ NextEvent
  \/ EndOfBatch

Environment ==
  \/ \E d \in Descriptors, k \in Kinds : Wakeup(d, k)
  \/ Interrupt
  \/ reactor_signal

Next == Owners \/ Loop \/ Environment

Spec == Init /\ [][Next]_vars

(* The thread keeps running, callbacks return, and epoll_wait does not pass   *)
(* over a registration that is ready again and again (epoll's ready list is a *)
(* queue).  Nothing is assumed of the owners or of the other ends.            *)
Fairness ==
  /\ WF_vars(reactor_loop)
  /\ WF_vars(Block)
  /\ WF_vars(\E k \in Kinds : descriptor_callback(k))
  /\ WF_vars(Return)
  /\ WF_vars(NextEvent)
  /\ WF_vars(EndOfBatch)
  /\ \A d \in Descriptors : SF_vars(WaitReports(d))

FairSpec == Spec /\ Fairness

-----------------------------------------------------------------------------
(* Properties.                                                                *)

Entry == [handler : Descriptors \cup {Default}, bits : SUBSET Kinds, reg : Nat]

(* Every variable keeps its type; event indexes the batch or is one past it.  *)
TypeOK ==
  /\ active \in BOOLEAN /\ looping \in BOOLEAN
  /\ descriptors \in Int
  /\ events \in Seq(Entry)
  /\ event \in 1..Len(events) + 1
  /\ tested \in SUBSET Kinds
  /\ phase \in {"main", "test", "enter", "wait", "batch", "callback"}
  /\ alive \in SUBSET Descriptors /\ is_open \in SUBSET alive
  /\ mask \in [Descriptors -> SUBSET Flags]
  /\ opens \in [Descriptors -> Nat]
  /\ level \in [Descriptors -> SUBSET Kinds]
  /\ ready \in SUBSET is_open

(* The counter that keeps reactor_loop alive (core.c:135) is the number of    *)
(* descriptors that are really open, through every close made by a callback.  *)
RegisteredCount == descriptors = Cardinality(is_open)

(* No entry that is still to be dispatched names a descriptor that was closed *)
(* or destroyed, or an earlier registration of one that was closed and opened *)
(* again: the array in reactor_loop_once holds pointers to objects the        *)
(* callbacks may free (the sweep of core.c:104-106 is what makes this true).  *)
PendingIsCurrent ==
  \A i \in event..Len(events) :
    events[i].handler # Default =>
      /\ events[i].handler \in is_open
      /\ events[i].reg = opens[events[i].handler]

(* reactor_loop never enters epoll_wait, which it calls without a timeout,    *)
(* when no descriptor is left to wake it.                                     *)
NeverWaitsOnNothing ==
  looping /\ phase \in {"enter", "wait"} => is_open # {}

(* The promise the reactor makes to the owners, see EventPort.                *)
Port == INSTANCE EventPort WITH
  open <- is_open,
  due <- [d \in Descriptors |-> Due(d)]

ImplementsPort == Port!Spec

(* The owner of d is being called back with k.                                *)
InCallback(d, k) ==
  phase = "callback" /\ events[event].handler = d /\ tested = Before(k) \cup {k}

(* Every kind of event that epoll queued while the loop runs reaches its      *)
(* owner, unless the descriptor is closed, the owner no longer wants that     *)
(* kind or has consumed it, or the loop returns: no edge is lost.             *)
QueuedIsServed ==
  \A d \in Descriptors, k \in Kinds :
    d \in ready /\ k \in Reportable(d) /\ phase # "main" ~>
      InCallback(d, k) \/ k \notin Reportable(d) \/ phase = "main"

(* After reactor_abort, or once the last descriptor is closed, reactor_loop   *)
(* returns.                                                                   *)
StopRequested == looping /\ phase # "main" /\ (~active \/ is_open = {})
StopReturns == StopRequested ~> phase = "main" \/ ~StopRequested

(* What test/core.c expects of SIGINT: reactor_loop ends.                     *)
SignalStopsLoop == (looping /\ ~active) ~> (phase = "main")
=============================================================================
