------------------------------- MODULE MCOwners -------------------------------
(* The owners of descriptors that need no thread, side by side: timers, file  *)
(* watchers and streams, each with the events of its own descriptors.  They   *)
(* do not interact: each behaviour is one of one component.                   *)
EXTENDS Timer, Stream, Notify

VARIABLE component

owner_vars == <<component, vars, notify_vars, stream_vars>>

-----------------------------------------------------------------------------
OwnersInit ==
  /\ component \in {"timer", "notify", "stream"}
  /\ Init /\ NotifyInit /\ StreamInit

Only(c, others) == component = c /\ UNCHANGED <<component, others>>

OwnersNext ==
  \/ Only("timer", <<notify_vars, stream_vars>>) /\ Next
  \/ Only("notify", <<vars, stream_vars>>) /\ NotifyNext
  \/ Only("stream", <<vars, notify_vars>>) /\ StreamNext

(* The fairness of each (FairSpec).                                           *)
OwnersSpec ==
  /\ OwnersInit /\ [][OwnersNext]_owner_vars
  /\ \A t \in Timers :
       /\ WF_owner_vars(Only("timer", <<notify_vars, stream_vars>>) /\ Expire(t))
       /\ SF_owner_vars(Only("timer", <<notify_vars, stream_vars>>) /\ Report /\ due'[t] # {})
       /\ WF_owner_vars(Only("timer", <<notify_vars, stream_vars>>) /\ timer_callback(t))
  /\ WF_owner_vars(Only("notify", <<vars, stream_vars>>) /\ NotifyReport)
  /\ WF_owner_vars(Only("notify", <<vars, stream_vars>>) /\ notify_callback)
  /\ WF_owner_vars(Only("stream", <<vars, notify_vars>>) /\ StreamReport)
  /\ WF_owner_vars(Only("stream", <<vars, notify_vars>>)
                   /\ (ReadEvent \/ WriteEvent \/ CloseEvent))
  /\ WF_owner_vars(Only("stream", <<vars, notify_vars>>)
                   /\ \E n \in 1..InFlight : PeerReads(n))
=============================================================================
