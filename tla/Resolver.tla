------------------------------- MODULE Resolver -------------------------------
(***************************************************************************)
(* Name lookups: src/reactor/resolver.c, each a call of Async.             *)
(*                                                                         *)
(* The thread of a call reads host and service from the object, asks       *)
(* getaddrinfo, and stores the answer in the object.  A lookup that is     *)
(* cancelled, or replaced by another, is forgotten by the loop at once,    *)
(* while its thread goes on until it comes to a cancellation point: what   *)
(* it reads and stores then belongs to another lookup, or to no object any *)
(* more.                                                                   *)
(*                                                                         *)
(* The names a lookup is for are named by its call; lookups of no host     *)
(* (NULL) are all alike.  An answer is memory that getaddrinfo allocates:  *)
(* it is told apart by the call whose thread got it, and says for what     *)
(* names it is.                                                            *)
(***************************************************************************)
EXTENDS Async, FiniteSetsExt

CONSTANT
  MaxLookups   (* bound: lookups of all objects                              *)

Nothing == [op |-> "none", async |-> NoAsync, freed |-> FALSE]
None == 0         (* no host: NULL                                            *)
Unasked == MaxCalls + 1
NoAnswer == [async |-> NoAsync, call |-> 0, names |-> None]

VARIABLES
  exists,      (* the objects that have not been destroyed                    *)
  todo,        (* what the loop's thread does for which resolver              *)
  resolver,    (* host and addrinfo of each                                   *)
  asks,        (* what each thread passed to getaddrinfo                      *)
  wanted,      (* history: what the lookup in progress is for                 *)
  overtaken,   (* history: objects whose lookup was started while the thread  *)
               (* of an earlier one could still store its answer              *)
  unfreed,     (* the answers that have not been given to freeaddrinfo        *)
  strays,      (* history: of those, the ones stored when their call was not  *)
               (* in progress any more, and the ones they were stored over    *)
  mistaken     (* history: objects whose thread was cancelled for another     *)

answers == <<unfreed, strays>>
histories == <<wanted, overtaken, mistaken>>
all_vars == <<vars, exists, todo, resolver, asks, answers, histories>>

Empty == [host |-> None, addrinfo |-> NoAnswer]

ResolverInit ==
  /\ Init
  /\ exists = Asyncs /\ todo = Nothing
  /\ resolver = [a \in Asyncs |-> Empty]
  /\ asks = [t \in Threads |-> Unasked]
  /\ wanted = [a \in Asyncs |-> None]
  /\ overtaken = {} /\ unfreed = {} /\ strays = {} /\ mistaken = {}

-----------------------------------------------------------------------------
(* The thread of the event loop.                                              *)

LoopIdle == LoopRuns /\ todo = Nothing
Lookups == MapThenSumSet(LAMBDA a : calls[a], Asyncs)

(* resolver_lookup, resolver_cancel and resolver_destruct begin with          *)
(* async_cancel, which does nothing if no call is in progress ...             *)
Begin(a, op) ==
  /\ LoopIdle /\ a \in exists
  /\ op = "lookup" => calls[a] < MaxCalls /\ Lookups < MaxLookups
  /\ IF event[a] # 0 THEN async_cancel(a) ELSE UNCHANGED vars
  /\ todo' = [op |-> op, async |-> a, freed |-> FALSE]
  /\ UNCHANGED <<exists, resolver, asks, answers, histories>>

(* The thread that the object names may have exited, and its id may be that   *)
(* of a thread of another object.                                             *)
CancelThread ==
  /\ pthread_cancel
  /\ LET w == worker[thread[cancelling]]
     IN  mistaken' = IF w.pc # "free" /\ w.async # cancelling
                     THEN mistaken \cup {w.async} ELSE mistaken
  /\ UNCHANGED <<exists, todo, resolver, asks, answers, wanted, overtaken>>

(* ... go on with resolver_clear, which frees what the object points to, be   *)
(* it names that the cancelled thread still reads ...                         *)
Goes == Alive /\ cancelling = NoAsync /\ todo # Nothing

resolver_clear ==
  /\ Goes /\ ~todo.freed
  /\ todo' = [todo EXCEPT !.freed = TRUE]
  /\ unfreed' = unfreed \ {resolver[todo.async].addrinfo}
  /\ strays' = strays \ {resolver[todo.async].addrinfo}
  /\ wanted' = [wanted EXCEPT ![todo.async] = None]
  /\ overtaken' = overtaken \ {todo.async} /\ mistaken' = mistaken \ {todo.async}
  /\ UNCHANGED <<vars, exists, resolver, asks>>

(* Slips: what was asked for stays, or the pointer to the answer.             *)
ClearAnswer(r) == [r EXCEPT !.addrinfo = NoAnswer]
ClearHost(r) == [r EXCEPT !.host = None]

(* ... and then sets the pointers to NULL, whatever is stored there by now.   *)
Cleared(r) == Empty

Then(op) ==
  /\ Goes /\ todo.freed
  /\ todo.op = op
  /\ todo' = Nothing
  /\ UNCHANGED <<asks, answers>>

resolver_cancel ==
  /\ Then("cancel")
  /\ resolver' = [resolver EXCEPT ![todo.async] = Cleared(@)]
  /\ UNCHANGED <<vars, exists, histories>>

resolver_destruct ==
  /\ Then("destruct")
  /\ resolver' = [resolver EXCEPT ![todo.async] = Cleared(@)]
  /\ exists' = exists \ {todo.async}
  /\ UNCHANGED <<vars, histories>>

(* resolver_lookup ends with a new call; host is set if one is given.         *)
MayStore(t, a) == worker[t].pc = "call" /\ worker[t].async = a

resolver_lookup(t, given) ==
  LET a == todo.async
      query == IF given THEN calls[a] + 1 ELSE None
  IN  /\ Then("lookup")
      /\ async_call(a, t)
      /\ resolver' = [resolver EXCEPT
                        ![a] = [Cleared(@) EXCEPT !.host = IF given THEN query ELSE @]]
      /\ wanted' = [wanted EXCEPT ![a] = query]
      /\ overtaken' = IF \E u \in Threads : MayStore(u, a) THEN overtaken \cup {a}
                      ELSE overtaken
      /\ UNCHANGED <<exists, mistaken>>

(* ASYNC_DONE: RESOLVER_SUCCESS or RESOLVER_FAILURE is dispatched.            *)
resolver_callback(a) ==
  /\ todo = Nothing
  /\ async_callback(a)
  /\ UNCHANGED <<exists, todo, resolver, asks, answers, histories>>

-----------------------------------------------------------------------------
(* The thread t of a lookup.                                                  *)

(* ASYNC_CALL: the arguments of net_resolve are read from the object.         *)
net_resolve(t) ==
  /\ At(t, "call") /\ asks[t] = Unasked
  /\ asks' = [asks EXCEPT ![t] = resolver[worker[t].async].host]
  /\ UNCHANGED <<vars, exists, todo, resolver, answers, histories>>

Store(r, answer) == [r EXCEPT !.addrinfo = answer]

(* getaddrinfo has returned an answer, or none.  It is stored in the object   *)
(* over what is there.  If the object was destroyed the memory is not its any *)
(* more, and nothing finds the answer there.                                  *)
InProgress(t) == event[worker[t].async] = worker[t].call

Answered(t) ==
  LET a == worker[t].async
  IN  /\ asks[t] # Unasked
      /\ CallReturns(t)
      /\ \E answer \in {[async |-> a, call |-> worker[t].call, names |-> asks[t]], NoAnswer} :
           /\ resolver' = IF a \in exists THEN [resolver EXCEPT ![a] = Store(@, answer)]
                          ELSE resolver
           /\ unfreed' = unfreed \cup ({answer} \ {NoAnswer})
           /\ strays' = IF InProgress(t) THEN strays
                        ELSE strays \cup (unfreed' \cap {answer, resolver[a].addrinfo})
      /\ UNCHANGED <<exists, todo, asks, histories>>

(* The thread ends, as do the steps of async_thread.                          *)
ThreadRuns(t) ==
  /\ event_is_open(t) \/ descriptor_fd(t) \/ event_signal(t) \/ Cancelled(t) \/ Exit(t)
  /\ asks' = [asks EXCEPT ![t] = IF worker'[t].pc = "free" THEN Unasked ELSE @]
  /\ UNCHANGED <<exists, todo, resolver, answers, histories>>

-----------------------------------------------------------------------------
Thread(t) == net_resolve(t) \/ Answered(t) \/ ThreadRuns(t)
Finish ==
  \/ resolver_clear \/ resolver_cancel \/ resolver_destruct
  \/ \E t \in Threads, given \in BOOLEAN : resolver_lookup(t, given)

ResolverNext ==
  \/ \E a \in Asyncs : resolver_callback(a)
  \/ \E a \in Asyncs, op \in {"lookup", "cancel", "destruct"} : Begin(a, op)
  \/ CancelThread \/ Finish
  \/ \E t \in Threads : Thread(t)

ResolverSpec ==
  /\ ResolverInit /\ [][ResolverNext]_all_vars
  /\ WF_all_vars(CancelThread) /\ WF_all_vars(Finish)
  /\ \A t \in Threads : WF_all_vars(Thread(t))
  /\ \A a \in Asyncs : SF_all_vars(resolver_callback(a))

-----------------------------------------------------------------------------
(* What is reported for a lookup is its own answer or a failure, whatever     *)
(* lookups of the object came before, unless one of them was cancelled so     *)
(* late that its thread could still store an answer.                          *)
AnswerIsForLookup ==
  \A a \in Asyncs \ overtaken :
    event[a] # 0 /\ count[a] > 0 =>
      LET answer == resolver[a].addrinfo IN answer = NoAnswer \/ answer.names = wanted[a]

(* No object points to an answer that was freed, so that none is freed twice; *)
(* and one that was not is where its object finds it to free it.  Only        *)
(* answers of cancelled calls are lost, stored as they are in an object that  *)
(* was destroyed, is being cleared or has a new call, and answers that such a *)
(* late one was stored over.                                                  *)
Held ==
  {resolver[a].addrinfo : a \in {a \in exists : ~(todo.freed /\ todo.async = a)}} \ {NoAnswer}

AnswersFreed == Held \subseteq unfreed /\ unfreed \subseteq Held \cup strays

(* A lookup that is not cancelled is answered, unless its thread was          *)
(* cancelled for that of another object that had the same id before.          *)
LookupsEnd ==
  \A a \in Asyncs : event[a] # 0 ~> event[a] = 0 \/ a \in mistaken \/ ~Alive
=============================================================================
