-------------------------------- MODULE Timer --------------------------------
(***************************************************************************)
(* Timers: src/reactor/timer.c, a timerfd behind a descriptor.             *)
(*                                                                         *)
(* The event loop is the one EventPort promises: a batch of events is      *)
(* reported, and while it is dispatched the application, called back for   *)
(* any of them, sets and clears timers whose own event is still due.       *)
(***************************************************************************)
EXTENDS Naturals

CONSTANTS
  Timers,        (* struct timer objects                                      *)
  SetWhileDue,   (* whether the application sets a timer whose event is due   *)
  MaxSets,       (* bound: how often one timer is set                         *)
  MaxTicks       (* bound: expirations of one setting                         *)

ASSUME ConstantsOK ==
  SetWhileDue \in BOOLEAN /\ MaxSets \in Nat /\ MaxTicks \in Nat

VARIABLES
  open,     (* the timers with a timerfd                                      *)
  armed,    (* kernel: how each is set                                        *)
  ticks,    (* kernel: expirations since the last read                        *)
  due,      (* events reported by epoll_wait and not yet delivered            *)
  sets,     (* history: how often the timer was set                           *)
  fired,    (* history: expirations since then                                *)
  told,     (* history: those the application was told of                     *)
  aborted   (* an assertion has failed                                        *)

vars == <<open, armed, ticks, due, sets, fired, told, aborted>>

Port == INSTANCE EventPort WITH Descriptors <- Timers

Init ==
  /\ open = {}
  /\ armed = [t \in Timers |-> "off"]
  /\ ticks = [t \in Timers |-> 0]
  /\ due = Port!NothingDue
  /\ sets = [t \in Timers |-> 0]
  /\ fired = [t \in Timers |-> 0] /\ told = [t \in Timers |-> 0]
  /\ aborted = FALSE

(* timerfd_settime, or close, takes the expirations back.                     *)
Restart(t, how) ==
  /\ armed' = [armed EXCEPT ![t] = how]
  /\ ticks' = [ticks EXCEPT ![t] = 0]
  /\ fired' = [fired EXCEPT ![t] = 0]
  /\ told' = [told EXCEPT ![t] = 0]

(* timerfd_settime with a first expiration after value, and then every        *)
(* interval; 0 means never.                                                   *)
Armed(value, interval) ==
  IF value = 0 THEN "off" ELSE IF interval = 0 THEN "once" ELSE "repeat"

(* Slip: a first expiration after 0 is passed on as it is.                    *)
SetAsGiven(t, t0, ti) ==
  /\ ~aborted
  /\ t \in open /\ due[t] # {} => SetWhileDue
  /\ sets[t] < MaxSets
  /\ sets' = [sets EXCEPT ![t] = @ + 1]
  /\ Restart(t, Armed(t0, ti))
  /\ open' = open \cup {t}
  /\ UNCHANGED <<due, aborted>>

(* A timer that is open already keeps its descriptor.                         *)
timer_set(t, t0, ti) ==
  /\ ~aborted
  /\ t \in open /\ due[t] # {} => SetWhileDue
  /\ sets[t] < MaxSets
  /\ sets' = [sets EXCEPT ![t] = @ + 1]
  /\ Restart(t, Armed(IF t0 = 0 THEN 1 ELSE t0, ti))
  /\ open' = open \cup {t}
  /\ UNCHANGED <<due, aborted>>

(* Slip: what is due stays due.                                               *)
ClearButDue(t) ==
  /\ ~aborted
  /\ t \in open
  /\ Restart(t, "off")
  /\ open' = open \ {t}
  /\ UNCHANGED <<due, sets, aborted>>

(* timer_clear and timer_destruct close the descriptor.                       *)
timer_clear(t) ==
  /\ ~aborted
  /\ Restart(t, "off")
  /\ Port!Close(t)
  /\ UNCHANGED <<sets, aborted>>

(* The kernel: a timer expires.                                               *)
Expire(t) ==
  /\ armed[t] # "off" /\ fired[t] < MaxTicks
  /\ armed' = [armed EXCEPT ![t] = IF @ = "once" THEN "off" ELSE @]
  /\ ticks' = [ticks EXCEPT ![t] = @ + 1]
  /\ fired' = [fired EXCEPT ![t] = @ + 1]
  /\ UNCHANGED <<open, due, sets, told, aborted>>

Report ==
  /\ ~aborted
  /\ Port!Report
  /\ \A t \in Timers : due'[t] \subseteq IF ticks[t] > 0 THEN {"read"} ELSE {}
  /\ UNCHANGED <<armed, ticks, sets, fired, told, aborted>>

(* Slip: one expiration is dispatched, however many were read.                *)
CountOne(t) ==
  /\ ~aborted
  /\ Port!Deliver(t, "read")
  /\ ticks' = [ticks EXCEPT ![t] = 0]
  /\ told' = [told EXCEPT ![t] = @ + 1]
  /\ aborted' = (ticks[t] = 0)
  /\ UNCHANGED <<armed, sets, fired>>

(* The timerfd is read until it is empty and the total is dispatched.         *)
timer_callback(t) ==
  /\ ~aborted
  /\ Port!Deliver(t, "read")
  /\ ticks' = [ticks EXCEPT ![t] = 0]
  /\ told' = [told EXCEPT ![t] = @ + ticks[t]]
  /\ aborted' = (ticks[t] = 0)
  /\ UNCHANGED <<armed, sets, fired>>

Next ==
  \/ \E t \in Timers :
       \/ \E t0, ti \in {0, 1} : timer_set(t, t0, ti)
       \/ timer_clear(t) \/ Expire(t) \/ timer_callback(t)
  \/ Report

Spec == Init /\ [][Next]_vars

(* Time passes, the loop goes round, and epoll_wait reports what stays        *)
(* readable.                                                                  *)
FairSpec ==
  /\ Spec
  /\ \A t \in Timers :
       /\ WF_vars(Expire(t))
       /\ SF_vars(Report /\ due'[t] # {})
       /\ WF_vars(timer_callback(t))

-----------------------------------------------------------------------------
(* Every variable keeps its type.                                             *)
TypeOK ==
  /\ open \subseteq Timers
  /\ armed \in [Timers -> {"off", "once", "repeat"}]
  /\ ticks \in [Timers -> Nat] /\ sets \in [Timers -> Nat]
  /\ fired \in [Timers -> Nat] /\ told \in [Timers -> Nat]
  /\ due \in [Timers -> SUBSET {"read"}]
  /\ aborted \in BOOLEAN

(* The assertion of timer_callback: an event that is delivered comes with at  *)
(* least one expiration.                                                      *)
TotalPositive == ~aborted

(* Each expiration of a setting is told once: no read loses or repeats one.   *)
EachToldOnce == \A t \in Timers : fired[t] = told[t] + ticks[t]

(* A timer that is set, whatever the times given, expires and tells the       *)
(* application, unless it is cleared.                                         *)
SetTells == \A t \in Timers : t \in open /\ told[t] = 0 ~> t \notin open \/ told[t] > 0
=============================================================================
