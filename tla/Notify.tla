-------------------------------- MODULE Notify --------------------------------
(***************************************************************************)
(* File watchers: src/reactor/notify.c, an inotify instance behind a       *)
(* descriptor, and a list that finds the path for the id of an event.      *)
(*                                                                         *)
(* notify_callback reads events into a buffer and calls the application    *)
(* for each, which may watch more, clear the watcher or destroy it before  *)
(* the loop over the buffer goes on.  The descriptor is called back as     *)
(* EventPort promises; its events are edges.                               *)
(***************************************************************************)
EXTENDS Integers, Sequences, SequencesExt

CONSTANTS
  Files,       (* what may be watched; a path is taken for its file           *)
  BufferSize,  (* events that fit in one read                                 *)
  QueueSize,   (* events the kernel keeps for one instance                    *)
  MaxEvents,   (* bound: events of one instance                               *)
  MaxWatches   (* bound: entries of the list, and instances                   *)

ASSUME BufferSizeOK == BufferSize \in Nat \ {0}

VARIABLES
  notify,      (* whether the object is constructed and whether its           *)
               (* descriptor is open                                          *)
  entries,     (* the ids and paths it was given                              *)
  cancel,      (* the flag on the stack of notify_callback                    *)
  pc,          (* where notify_callback is                                    *)
  buf,         (* the events it has read and not dispatched                   *)
  watches,     (* kernel: the files of the instance, the place being the id   *)
  queue,       (* kernel: its events                                          *)
  woken,       (* kernel: an event has come since the last report             *)
  reported,    (* an event was reported by epoll_wait and not delivered       *)
  happened,    (* history: the events of this instance                        *)
  told_paths,  (* history: those of them the application was told, by path    *)
  instances,   (* history: inotify instances opened since the construction    *)
  reopened,    (* history: this instance was opened inside a callback that    *)
               (* has events of the one before left to dispatch               *)
  crashed      (* an assertion has failed, or freed memory was used           *)

kernel == <<watches, queue, woken, happened>>
notify_vars ==
  <<notify, entries, cancel, pc, buf, kernel, reported, told_paths,
    instances, reopened, crashed>>

Overflow == -1

NotifyInit ==
  /\ notify = "none"
  /\ entries = <<>> /\ cancel = FALSE
  /\ pc = "idle" /\ buf = <<>>
  /\ watches = <<>> /\ queue = <<>> /\ woken = FALSE /\ reported = FALSE
  /\ happened = <<>> /\ told_paths = <<>> /\ instances = 0
  /\ reopened = FALSE /\ crashed = FALSE

Open == notify = "open"

-----------------------------------------------------------------------------
(* The kernel: something happens to a file that is watched.  A full queue     *)
(* takes one event more, which says that events are lost.                     *)
Happens(wd) ==
  /\ ~crashed /\ Open /\ Len(happened) < MaxEvents
  /\ Len(queue) <= QueueSize
  /\ LET e == IF Len(queue) = QueueSize THEN Overflow ELSE wd
     IN  /\ queue' = Append(queue, e)
         /\ happened' = Append(happened, e)
  /\ woken' = TRUE
  /\ UNCHANGED <<notify, entries, cancel, pc, buf, watches, reported,
                 told_paths, instances, reopened, crashed>>

NotifyReport ==
  /\ ~crashed /\ pc = "idle" /\ ~reported
  /\ Open /\ woken
  /\ reported' = (queue # <<>>) /\ woken' = FALSE
  /\ UNCHANGED <<notify, entries, cancel, pc, buf, watches, queue, happened, told_paths,
                 instances, reopened, crashed>>

-----------------------------------------------------------------------------
(* notify_callback.                                                           *)

CalledBack ==
  /\ ~crashed /\ pc = "idle" /\ reported
  /\ reported' = FALSE /\ cancel' = FALSE
  /\ pc' = "read"
  /\ UNCHANGED <<notify, entries, buf, kernel, told_paths, instances, reopened, crashed>>

(* read: from a descriptor that is closed it fails with EBADF, not EAGAIN.    *)
Read ==
  /\ ~crashed /\ pc = "read"
  /\ LET n == IF Len(queue) < BufferSize THEN Len(queue) ELSE BufferSize
     IN  /\ buf' = SubSeq(queue, 1, n)
         /\ queue' = SubSeq(queue, n + 1, Len(queue))
  /\ pc' = IF queue = <<>> THEN "idle" ELSE "dispatch"
  /\ crashed' = ~Open
  /\ UNCHANGED <<notify, entries, cancel, watches, woken, happened, reported,
                 told_paths, instances, reopened>>

(* Slip: the ids are not compared.                                            *)
AnyEntry(wd) == IF entries = <<>> THEN {} ELSE {1}

(* The first entry with the id of the event.                                  *)
Entry(wd) ==
  {i \in DOMAIN entries : entries[i].id = wd /\ \A j \in 1..i - 1 : entries[j].id # wd}

(* The next event is looked up and dispatched.                                *)
Dispatch ==
  /\ ~crashed /\ pc = "dispatch"
  /\ IF Entry(Head(buf)) = {} \/ notify = "none"
     THEN crashed' = TRUE /\ UNCHANGED <<told_paths, buf, pc>>
     ELSE /\ \E i \in Entry(Head(buf)) :
               told_paths' = Append(told_paths, [wd |-> Head(buf), path |-> entries[i].path])
          /\ buf' = Tail(buf)
          /\ pc' = "callback"
          /\ UNCHANGED crashed
  /\ UNCHANGED <<notify, entries, cancel, kernel, reported, instances, reopened>>

(* Slip: the events are read once.                                            *)
ReturnReadOnce ==
  /\ ~crashed /\ pc = "callback"
  /\ pc' = IF cancel \/ buf = <<>> THEN "idle" ELSE "dispatch"
  /\ buf' = IF cancel THEN <<>> ELSE buf
  /\ UNCHANGED <<notify, entries, cancel, kernel, reported, told_paths,
                 instances, reopened, crashed>>

(* Slip: the first event of a buffer only is dispatched.                      *)
ReturnAfterFirst ==
  /\ ~crashed /\ pc = "callback"
  /\ pc' = IF cancel THEN "idle" ELSE "read"
  /\ buf' = <<>>
  /\ UNCHANGED <<notify, entries, cancel, kernel, reported, told_paths,
                 instances, reopened, crashed>>

(* The application returns.                                                   *)
Return ==
  /\ ~crashed /\ pc = "callback"
  /\ pc' = IF cancel THEN "idle" ELSE IF buf = <<>> THEN "read" ELSE "dispatch"
  /\ buf' = IF cancel THEN <<>> ELSE buf
  /\ UNCHANGED <<notify, entries, cancel, kernel, reported, told_paths,
                 instances, reopened, crashed>>

-----------------------------------------------------------------------------
(* What the application calls, from the callback or from elsewhere.           *)

OwnerRuns == ~crashed /\ pc \in {"idle", "callback"}

(* What notify_callback will dispatch, if the application lets it.            *)
Unread == IF cancel THEN <<>> ELSE buf

notify_construct ==
  /\ OwnerRuns /\ notify = "none"
  /\ notify' = "closed"
  /\ instances' = 0 /\ told_paths' = <<>>
  /\ UNCHANGED <<entries, cancel, pc, buf, kernel, reported, reopened, crashed>>

(* The descriptor is opened if it is not.  The kernel accepts the file and    *)
(* gives one that is watched already the id it has, or refuses it: there is   *)
(* no such file.                                                              *)
notify_watch(f, accepted) ==
  /\ OwnerRuns /\ notify # "none" /\ Len(entries) < MaxWatches
  /\ Open \/ instances < MaxWatches
  /\ LET old == IF Open THEN watches ELSE <<>>
         new == IF ~accepted \/ Contains(old, f) THEN old ELSE Append(old, f)
     IN  /\ watches' = new
         /\ entries' =
              IF accepted
              THEN Append(entries, [id |-> SelectInSeq(new, LAMBDA g : g = f), path |-> f])
              ELSE entries
  /\ notify' = "open"
  /\ IF Open THEN UNCHANGED <<queue, woken, happened, told_paths, instances, reopened>>
     ELSE /\ queue' = <<>> /\ woken' = FALSE
          /\ happened' = <<>> /\ told_paths' = <<>>
          /\ instances' = instances + 1
          /\ reopened' = (Unread # <<>>)
  /\ UNCHANGED <<cancel, pc, buf, reported, crashed>>

(* descriptor_close; entries stay.                                            *)
notify_clear ==
  /\ OwnerRuns /\ Open
  /\ notify' = "closed"
  /\ queue' = <<>> /\ woken' = FALSE /\ reported' = FALSE
  /\ UNCHANGED <<entries, cancel, pc, buf, watches, happened, told_paths, instances,
                 reopened, crashed>>

(* Slip: the callback is not told.                                            *)
DestructUntold ==
  /\ OwnerRuns /\ notify # "none"
  /\ notify' = "none" /\ entries' = <<>>
  /\ queue' = <<>> /\ woken' = FALSE /\ reported' = FALSE
  /\ reopened' = FALSE
  /\ UNCHANGED <<cancel, pc, buf, watches, happened, told_paths, instances, crashed>>

notify_destruct ==
  /\ OwnerRuns /\ notify # "none"
  /\ notify' = "none" /\ entries' = <<>>
  /\ queue' = <<>> /\ woken' = FALSE /\ reported' = FALSE
  /\ cancel' = (pc = "callback")
  /\ reopened' = FALSE
  /\ UNCHANGED <<pc, buf, watches, happened, told_paths, instances, crashed>>

-----------------------------------------------------------------------------
notify_callback == CalledBack \/ Read \/ Dispatch \/ Return

NotifyNext ==
  \/ \E wd \in DOMAIN watches : Happens(wd)
  \/ NotifyReport \/ notify_callback
  \/ notify_construct \/ notify_clear \/ notify_destruct
  \/ \E f \in Files, accepted \in BOOLEAN : notify_watch(f, accepted)

NotifySpec == NotifyInit /\ [][NotifyNext]_notify_vars

(* The loop goes round, and the application's callback returns.               *)
FairNotifySpec == NotifySpec /\ WF_notify_vars(NotifyReport) /\ WF_notify_vars(notify_callback)

-----------------------------------------------------------------------------
(* notify_callback never uses an object that was destroyed, even one that was *)
(* constructed again, and it aborts for two reasons only: the event is the    *)
(* overflow of the kernel's queue, or the watcher that is read from was       *)
(* cleared in the callback and is not watching again.                         *)
WatcherAborts ==
  crashed =>
    IF buf = <<>> THEN notify = "closed" ELSE Head(buf) = Overflow /\ notify # "none"

(* The application is told the path of the file to which an event happened,   *)
(* as long as the object has not been cleared and used again.                 *)
RightPath ==
  instances <= 1 =>
    \A i \in DOMAIN told_paths : told_paths[i].path = watches[told_paths[i].wd]

(* Events are told in order, each once, and none is left out, also when the   *)
(* watcher was destroyed and used again in the callback, but not when it was  *)
(* only cleared there and is told the rest of what was read before.           *)
ToldInOrder ==
  Open /\ ~reopened =>
    [i \in DOMAIN told_paths |-> told_paths[i].wd] \o Unread \o queue = happened

(* Every event is told in the end, though the kernel reports an edge only     *)
(* once.                                                                      *)
Untold == buf # <<>> \/ queue # <<>>

EventsTold == Open /\ Untold ~> ~Untold \/ ~Open \/ crashed
=============================================================================
