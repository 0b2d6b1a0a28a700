------------------------------- MODULE Server -------------------------------
(***************************************************************************)
(* The HTTP server: src/reactor/server.c on top of src/reactor/stream.c.   *)
(*                                                                         *)
(* Each accepted connection has one server_request, a reference-counted    *)
(* object that parses the requests on the connection one after the other.  *)
(* The application is called back with a request and answers it from the   *)
(* callback or at any later time, possibly from the callback of another    *)
(* request, so server_request_update nests: the call stack is explicit.    *)
(*                                                                         *)
(* Below are the reactor, of which EventPort says what it promises, and    *)
(* the socket.  Bytes are abstracted to tokens: each message of Script is  *)
(* two tokens, so that it may arrive in two parts.                         *)
(***************************************************************************)
EXTENDS Integers, Sequences, FiniteSets

CONSTANTS
  Requests,        (* the memory of server_request objects                    *)
  Script,          (* what each client sends: a sequence of "get" and "bad"   *)
  Ssl,             (* whether the server was opened with an SSL_CTX           *)
  TcpWithSsl,      (* whether connections with SSL are TCP sockets            *)
  Resets,          (* whether clients may reset the connection                *)
  ShutdownInUse,   (* whether server_shutdown may be called while the         *)
                   (* application holds requests                              *)
  MaxAccepts,      (* bound: connections accepted                             *)
  MaxHeld          (* bound: references of the application to one request     *)

ASSUME ConstantsOK ==
  /\ IsFiniteSet(Requests)
  /\ Script \in Seq({"get", "bad"})
  /\ Ssl \in BOOLEAN /\ TcpWithSsl \in BOOLEAN
  /\ Resets \in BOOLEAN /\ ShutdownInUse \in BOOLEAN
  /\ MaxAccepts \in Nat /\ MaxHeld \in Nat \ {0}

VARIABLES
  request,   (* the objects; one with ref = 0 is free memory                  *)
  due,       (* events reported by epoll_wait and not yet delivered           *)
  stack,     (* the running calls of server_request_update, innermost last    *)
  held,      (* the references the application holds to each request          *)
  owed,      (* the message the application was handed and has not answered   *)
  is_open,   (* server->is_open                                               *)
  accepts    (* history: how many connections were accepted                   *)

vars == <<request, due, stack, held, owed, is_open, accepts>>

-----------------------------------------------------------------------------
(* The input buffer holds the tokens consumed+1..input of the client's        *)
(* messages; request->data is what follows the token data of them.  writing   *)
(* is the DESCRIPTOR_WRITE bit of the stream's mask.  Events are edges: edge  *)
(* says that epoll has yet to look whether there is room in the socket, or    *)
(* will be told of it.  The other end is sent, peer and got: what it has      *)
(* sent, whether it has closed, what it got.                                  *)
Free ==
  [ref |-> 0, state |-> "closed", event_triggered |-> FALSE, data |-> 0,
   consumed |-> 0, input |-> 0, output |-> <<>>, writing |-> FALSE, edge |-> FALSE,
   sent |-> 0, peer |-> "open", got |-> <<>>, aborted |-> FALSE]

Accepted == [Free EXCEPT !.ref = 1, !.state = "need_more_data"]

(* An assertion of the code has failed and the process is gone.               *)
Aborted(q) == [q EXCEPT !.aborted = TRUE]

server_hold(q) == [q EXCEPT !.ref = @ + 1]

(* The last release closes the stream and frees the object.                   *)
server_release(q) ==
  IF q.ref = 1 THEN [Free EXCEPT !.aborted = q.aborted] ELSE [q EXCEPT !.ref = @ - 1]

(* stream_close drops what is in the buffers.                                 *)
stream_close(q) ==
  [Free EXCEPT !.ref = q.ref, !.event_triggered = q.event_triggered,
               !.aborted = q.aborted]

(* Slip: server_close keeps the reference of the list.                        *)
CloseAndKeep(q) == IF q.state = "closed" THEN q ELSE stream_close(q)

server_close(q) ==
  IF q.state = "closed" THEN q ELSE server_release(stream_close(q))

http_write_response(q, m) == [q EXCEPT !.output = Append(@, m)]

(* What a flush can come to: how many answers the socket takes, and whether   *)
(* it is found full.  write is repeated until nothing is left or the socket   *)
(* is full; SSL_write sends one record, which ends anywhere in the buffer and *)
(* is either taken whole or finds the socket full.                            *)
stream_socket_write(q) ==
  {[sent |-> n, full |-> n < Len(q.output)] : n \in 0..Len(q.output)}
stream_ssl_flush(q) ==
  {[sent |-> n, full |-> FALSE] : n \in 0..Len(q.output)}
    \cup {[sent |-> 0, full |-> q.output # <<>>]}

(* The mask follows the buffer.  If that changes it, epoll_ctl looks anew; if *)
(* not, a TCP socket that was not found full tells of no room.                *)
Sent(q, w) ==
  LET left == w.sent < Len(q.output)
  IN  [q EXCEPT !.output = SubSeq(@, w.sent + 1, Len(@)),
                !.got = @ \o SubSeq(q.output, 1, w.sent),
                !.writing = left,
                !.edge = left /\ (@ \/ w.full \/ ~q.writing \/ ~TcpWithSsl)]

(* A write to a connection that was reset fails: stream_socket_write asserts, *)
(* SSL_write reports an error.                                                *)
WriteFails(q) ==
  IF Ssl THEN [q EXCEPT !.writing = TRUE, !.edge = @ \/ ~q.writing] ELSE Aborted(q)

stream_flush(q) ==
  IF q.peer = "reset" /\ q.output # <<>> THEN {WriteFails(q)}
  ELSE {Sent(q, w) : w \in IF Ssl THEN stream_ssl_flush(q) ELSE stream_socket_write(q)}

(* The condition and the first lines of server_request_update.                *)
Updates(q) == q.state = "need_more_data" /\ q.input > q.consumed
Updating(q) == [server_hold(q) EXCEPT !.event_triggered = TRUE,
                                      !.data = q.consumed, !.state = "read"]

(* What http_read_request_data makes of request->data.                        *)
Message(q) == q.data \div 2 + 1
Unread(q) == q.input - q.data
Malformed(q) == Unread(q) > 0 /\ Script[Message(q)] = "bad"
(* Slip: a request is taken for complete when its first part is there.        *)
CompleteTooSoon(q) == Unread(q) > 0 /\ Script[Message(q)] = "get"
Complete(q) == Unread(q) > 1 /\ Script[Message(q)] = "get"

(* A call of server_request_update: for which request, whether the caller is  *)
(* server_respond, and whether the application's handler is running.          *)
Call(r, answered) == [request |-> r, answered |-> answered, handler |-> FALSE]
Top == stack[Len(stack)]
Pop == SubSeq(stack, 1, Len(stack) - 1)

(* Where the thread is while the process lives: in the event loop, in the     *)
(* innermost call, or in its handler.  The application's code runs in the     *)
(* handler and in other callbacks of the loop.                                *)
Running == \A r \in Requests : ~request[r].aborted
InLoop == Running /\ stack = <<>>
InUpdate(r) == Running /\ stack # <<>> /\ Top.request = r /\ ~Top.handler
InHandler == Running /\ stack # <<>> /\ Top.handler
AppRuns == InLoop \/ InHandler

Open == {r \in Requests : request[r].state # "closed"}
Port == INSTANCE EventPort WITH Descriptors <- Requests, open <- Open, due <- due

(* Closing a descriptor takes back what is due to it.                         *)
KeepDue(d) ==
  due' = [r \in Requests |-> IF request'[r].state = "closed" THEN {} ELSE d[r]]

(* The object of r becomes q, with nothing else due or taken back by that.    *)
Becomes(r, q) == request' = [request EXCEPT ![r] = q] /\ KeepDue(due)

Init ==
  /\ request = [r \in Requests |-> Free]
  /\ due = Port!NothingDue
  /\ stack = <<>>
  /\ held = [r \in Requests |-> 0]
  /\ owed = [r \in Requests |-> 0]
  /\ is_open = FALSE
  /\ accepts = 0

-----------------------------------------------------------------------------
(* The event loop.                                                            *)

(* What epoll can report for the stream of r.                                 *)
Reportable(q) ==
  (IF q.sent > q.input \/ q.peer # "open" THEN {"read"} ELSE {})
    \cup (IF q.writing THEN {"write"} ELSE {})
    \cup (IF q.peer # "open" THEN {"close"} ELSE {})

(* A look finds all of that, but for room, which is up to the client; room    *)
(* alone makes epoll look only if there is an edge.                           *)
Reports(q) ==
  {d \in SUBSET Reportable(q) :
     /\ Reportable(q) \ {"write"} \subseteq d
     /\ d = {"write"} => q.edge}

(* The look uses up the edge, unless it finds the socket full.  Where every   *)
(* flush that leaves output gives a new edge, the one that answers the event  *)
(* does, before epoll looks again: there the edge is kept.                    *)
Looked(q, d) ==
  [q EXCEPT !.edge = q.writing /\ ("write" \notin d \/ ~Ssl \/ ~TcpWithSsl)]

Report ==
  /\ InLoop
  /\ due' \in [Requests -> SUBSET Port!Kinds]
  /\ \A r \in Requests : due'[r] # {} => due'[r] \in Reports(request[r])
  /\ request' = [r \in Requests |-> IF due'[r] = {} THEN request[r]
                                    ELSE Looked(request[r], due'[r])]
  /\ Port!Report
  /\ UNCHANGED <<stack, held, owed, is_open, accepts>>

(* The descriptor of r gets event k.                                          *)
Deliver(r, k) ==
  /\ InLoop
  /\ k \in due[r]
  /\ \A j \in due[r] : ~ Port!Precedes(j, k)
  /\ KeepDue([due EXCEPT ![r] = @ \ {k}])

(* DESCRIPTOR_READ: all that has arrived is read; if that is anything, the    *)
(* stream calls server_request_update.                                        *)
stream_read(r) ==
  LET q == [request[r] EXCEPT !.input = request[r].sent]
      update == q.input > request[r].input /\ Updates(q)
  IN  /\ request' = [request EXCEPT ![r] = IF update THEN Updating(q) ELSE q]
      /\ Deliver(r, "read")
      /\ stack' = IF update THEN Append(stack, Call(r, FALSE)) ELSE stack
      /\ UNCHANGED <<held, owed, is_open, accepts>>

(* Slip: STREAM_WRITE is dispatched with SSL too.                             *)
WriteAlwaysDispatches(r) ==
  /\ \E q \in stream_flush(request[r]) :
       request' = [request EXCEPT ![r] = IF q.output = <<>> THEN server_close(q) ELSE q]
  /\ Deliver(r, "write")
  /\ UNCHANGED <<stack, held, owed, is_open, accepts>>

(* DESCRIPTOR_WRITE: a plain stream that has written everything dispatches    *)
(* STREAM_WRITE, which server_request_callback takes for a close; with SSL    *)
(* that event is sent only after stream_notify, which the server never calls. *)
stream_write(r) ==
  /\ \E q \in stream_flush(request[r]) :
       request' = [request EXCEPT
                     ![r] = IF q.output = <<>> /\ ~Ssl THEN server_close(q) ELSE q]
  /\ Deliver(r, "write")
  /\ UNCHANGED <<stack, held, owed, is_open, accepts>>

(* DESCRIPTOR_CLOSE.                                                          *)
stream_hangup(r) ==
  /\ request' = [request EXCEPT ![r] = server_close(@)]
  /\ Deliver(r, "close")
  /\ UNCHANGED <<stack, held, owed, is_open, accepts>>

-----------------------------------------------------------------------------
(* The loop of server_request_update, in the innermost call.                  *)

Reads(r) == InUpdate(r) /\ request[r].state = "read"

(* server_request_read: nothing left, or an incomplete request.               *)
NeedMoreData(r) ==
  /\ Reads(r)
  /\ ~Malformed(request[r]) /\ ~Complete(request[r])
  /\ Becomes(r, [request[r] EXCEPT !.state = "need_more_data"])
  /\ UNCHANGED <<stack, held, owed, is_open, accepts>>

(* server_bad_request, on a request that is open and held by the caller.      *)
BadRequest(q) ==
  {server_release(server_close(p)) : p \in stream_flush(http_write_response(q, 0))}

ReadMalformed(r) ==
  /\ Reads(r)
  /\ Malformed(request[r])
  /\ \E q \in BadRequest(server_hold([request[r] EXCEPT !.state = "handling"])) :
       Becomes(r, q)
  /\ UNCHANGED <<stack, held, owed, is_open, accepts>>

(* A request is complete: the handler is called and given a reference.        *)
ReadRequest(r) ==
  /\ Reads(r)
  /\ Complete(request[r])
  /\ Becomes(r, [server_hold(request[r]) EXCEPT !.state = "handling", !.data = @ + 2])
  /\ stack' = [stack EXCEPT ![Len(stack)].handler = TRUE]
  /\ held' = [held EXCEPT ![r] = @ + 1]
  /\ owed' = [owed EXCEPT ![r] = Message(request[r])]
  /\ UNCHANGED <<is_open, accepts>>

(* The handler returns to the loop.                                           *)
Return ==
  /\ InHandler
  /\ stack' = [stack EXCEPT ![Len(stack)].handler = FALSE]
  /\ UNCHANGED <<request, due, held, owed, is_open, accepts>>

(* The end of server_request_update, and of server_respond if that called it. *)
UpdateReturns(r) ==
  /\ InUpdate(r)
  /\ request[r].state # "read"
  /\ \E q \in IF request[r].state = "closed" THEN {request[r]}
              ELSE stream_flush([request[r] EXCEPT !.consumed = request[r].data]) :
       LET p == server_release([q EXCEPT !.event_triggered = FALSE])
       IN  Becomes(r, IF Top.answered THEN server_release(p) ELSE p)
  /\ stack' = Pop
  /\ UNCHANGED <<held, owed, is_open, accepts>>

-----------------------------------------------------------------------------
(* What the application calls.  It answers each request it is handed once,    *)
(* with a reference it holds, and uses no request it holds no reference to;   *)
(* answers to a connection that has been closed are legal.                    *)

MayAnswer(r) ==
  /\ AppRuns
  /\ held[r] > 0
  /\ owed[r] > 0 \/ request[r].state = "closed"

GiveUp(r) ==
  /\ held' = [held EXCEPT ![r] = @ - 1]
  /\ owed' = [owed EXCEPT ![r] = 0]
  /\ UNCHANGED <<is_open, accepts>>

(* server_respond to a connection that has been closed.                       *)
RespondClosed(r) ==
  /\ request[r].state = "closed"
  /\ Becomes(r, server_release(request[r]))
  /\ UNCHANGED stack

(* server_respond from the handler of the same request: the loop goes on.     *)
RespondAtOnce(r) ==
  /\ request[r].state # "closed" /\ request[r].event_triggered
  /\ Becomes(r, server_release([http_write_response(request[r], owed[r])
                                  EXCEPT !.state = "read"]))
  /\ UNCHANGED stack

(* Slip: server_respond does not look for the next request.                   *)
RespondAndForget(r) ==
  /\ request[r].state # "closed" /\ ~request[r].event_triggered
  /\ \E p \in stream_flush([http_write_response(request[r], owed[r])
                             EXCEPT !.state = "need_more_data"]) :
       Becomes(r, server_release(p))
  /\ UNCHANGED stack

(* server_respond from anywhere else: the answer is flushed and what the      *)
(* client has sent meanwhile is looked at.                                    *)
RespondLater(r) ==
  /\ request[r].state # "closed" /\ ~request[r].event_triggered
  /\ \E p \in stream_flush([http_write_response(request[r], owed[r])
                             EXCEPT !.state = "need_more_data"]) :
       \/ /\ Updates(p)
          /\ Becomes(r, Updating(p))
          /\ stack' = Append(stack, Call(r, TRUE))
       \/ /\ ~Updates(p)
          /\ Becomes(r, server_release(p))
          /\ UNCHANGED stack

server_respond(r) ==
  /\ MayAnswer(r)
  /\ RespondClosed(r) \/ RespondAtOnce(r) \/ RespondLater(r)
  /\ GiveUp(r)

server_bad_request(r) ==
  /\ MayAnswer(r)
  /\ \E q \in IF request[r].state = "closed" THEN {server_release(request[r])}
              ELSE BadRequest(request[r]) :
       Becomes(r, q)
  /\ UNCHANGED stack
  /\ GiveUp(r)

(* The application closes a connection, or drops a reference it does not need *)
(* for its answer, or takes another.                                          *)
Close(r) ==
  /\ AppRuns /\ held[r] > 0
  /\ Becomes(r, server_close(request[r]))
  /\ UNCHANGED <<stack, held, owed, is_open, accepts>>

Release(r) ==
  /\ AppRuns /\ held[r] > 0
  /\ held[r] > 1 \/ owed[r] = 0 \/ request[r].state = "closed"
  /\ Becomes(r, server_release(request[r]))
  /\ held' = [held EXCEPT ![r] = @ - 1]
  /\ UNCHANGED <<stack, owed, is_open, accepts>>

Hold(r) ==
  /\ AppRuns /\ held[r] \in 1..MaxHeld - 1
  /\ Becomes(r, server_hold(request[r]))
  /\ held' = [held EXCEPT ![r] = @ + 1]
  /\ UNCHANGED <<stack, owed, is_open, accepts>>

server_open ==
  /\ AppRuns
  /\ ~is_open
  /\ is_open' = TRUE
  /\ UNCHANGED <<request, due, stack, held, owed, accepts>>

(* The listening socket's callback accepts while the server is open, and the  *)
(* application may pass a connection of its own to server_accept at any time. *)
server_accept(r) ==
  /\ AppRuns
  /\ request[r].ref = 0
  /\ accepts < MaxAccepts
  /\ accepts' = accepts + 1
  /\ Becomes(r, Accepted)
  /\ owed' = [owed EXCEPT ![r] = 0]
  /\ UNCHANGED <<stack, held, is_open>>

(* server_shutdown, or server_destruct: every request in the list is released.*)
server_shutdown ==
  /\ AppRuns
  /\ ShutdownInUse \/ (stack = <<>> /\ \A r \in Requests : held[r] = 0)
  /\ request' = [r \in Requests |->
                   IF request[r].ref > 0 THEN server_release(request[r]) ELSE request[r]]
  /\ KeepDue(due)
  /\ is_open' = FALSE
  /\ UNCHANGED <<stack, held, owed, accepts>>

-----------------------------------------------------------------------------
(* The clients.  What arrives makes epoll look, and then at room too.         *)

Send(r) ==
  /\ r \in Open
  /\ request[r].peer = "open"
  /\ request[r].sent < 2 * Len(Script)
  /\ Becomes(r, [request[r] EXCEPT !.sent = @ + 1, !.edge = request[r].writing])
  /\ UNCHANGED <<stack, held, owed, is_open, accepts>>

HangUp(r, how) ==
  /\ r \in Open
  /\ request[r].peer = "open"
  /\ Becomes(r, [request[r] EXCEPT !.peer = how])
  /\ UNCHANGED <<stack, held, owed, is_open, accepts>>

-----------------------------------------------------------------------------
EventLoop ==
  \/ Report
  \/ \E r \in Requests : stream_read(r) \/ stream_write(r) \/ stream_hangup(r)

Update ==
  \/ \E r \in Requests :
       NeedMoreData(r) \/ ReadMalformed(r) \/ ReadRequest(r) \/ UpdateReturns(r)
  \/ Return

Application ==
  \/ \E r \in Requests :
       \/ server_respond(r) \/ server_bad_request(r)
       \/ Close(r) \/ Release(r) \/ Hold(r) \/ server_accept(r)
  \/ server_open
  \/ server_shutdown

Clients ==
  \E r \in Requests : Send(r) \/ HangUp(r, "closed") \/ (Resets /\ HangUp(r, "reset"))

Next == EventLoop \/ Update \/ Application \/ Clients

Spec == Init /\ [][Next]_vars

(* The thread keeps running and handlers return; epoll reports what it has    *)
(* an edge for; the application answers and lets go of what it holds.  The    *)
(* clients need do nothing but take, now and then, some of what is written to *)
(* them, and then tell of room where there is an edge to come.                *)
Fairness ==
  /\ WF_vars(Update)
  /\ \A r \in Requests :
       /\ SF_vars(Report /\ due'[r] # {})
       /\ WF_vars(stream_read(r) \/ stream_write(r) \/ stream_hangup(r))
       /\ SF_vars(stream_write(r) /\ request'[r].output # request[r].output)
       /\ SF_vars(server_respond(r) \/ server_bad_request(r))
       /\ SF_vars(Release(r))

FairSpec == Spec /\ Fairness

-----------------------------------------------------------------------------
(* Properties.                                                                *)

(* Every variable keeps its type.                                             *)
TypeOK ==
  /\ request \in
       [Requests ->
          [ref : Nat, state : {"need_more_data", "read", "handling", "closed"},
           event_triggered : BOOLEAN, data : Nat, consumed : Nat, input : Nat,
           output : Seq(Nat), writing : BOOLEAN, edge : BOOLEAN, sent : Nat,
           peer : {"open", "closed", "reset"}, got : Seq(Nat), aborted : BOOLEAN]]
  /\ due \in [Requests -> SUBSET Port!Kinds]
  /\ stack \in Seq([request : Requests, answered : BOOLEAN, handler : BOOLEAN])
  /\ held \in [Requests -> Nat]
  /\ owed \in [Requests -> Nat]
  /\ is_open \in BOOLEAN
  /\ accepts \in Nat

Calls(r) == {i \in DOMAIN stack : stack[i].request = r}
AnsweringCalls(r) == {i \in Calls(r) : stack[i].answered}

(* request->ref counts exactly the references there are: the list's until the *)
(* connection is closed, the application's, and those of the running calls.   *)
(* One too many leaks the request, one too few frees it under its user.       *)
RefCount ==
  \A r \in Requests :
    request[r].ref = (IF r \in Open THEN 1 ELSE 0) + held[r]
                       + Cardinality(Calls(r)) + Cardinality(AnsweringCalls(r))

(* A request that the application or a running call still uses is not freed.  *)
UsedIsAllocated ==
  \A r \in Requests : held[r] > 0 \/ Calls(r) # {} => request[r].ref > 0

(* An open connection never waits for nobody: either the buffered input holds *)
(* no further request and the client has to send one, or the application has  *)
(* been handed a request and still has to answer it.                          *)
NeverStuck ==
  \A r \in Open :
    Calls(r) = {} =>
      LET q == [request[r] EXCEPT !.data = request[r].consumed]
      IN  \/ q.state = "need_more_data" /\ owed[r] = 0 /\ ~Complete(q) /\ ~Malformed(q)
          \/ q.state = "handling" /\ owed[r] > 0 /\ held[r] > 0

(* The server keeps its promise to the clients, see Pipeline, which sees of   *)
(* each connection what follows.                                              *)
View(q) ==
  [open |-> q.state # "closed", arrived |-> q.sent \div 2, asked |-> q.data \div 2,
   answers |-> q.got \o q.output, sent |-> Len(q.got)]
Views == [r \in Requests |-> View(request[r])]

Promise == INSTANCE Pipeline WITH Connections <- Requests, conn <- Views

ImplementsPipeline == Promise!Spec

(* The server closes a connection only if the client has closed it or sent a  *)
(* malformed request, or the application wants it closed.                     *)
HangsUpForAReason ==
  [][\A r \in Requests :
       r \in Open /\ request[r].peer = "open" /\ request'[r].state = "closed" =>
         Application \/ ReadMalformed(r)]_vars

(* A write to a plain stream fails only when the socket is full: the assertion*)
(* in stream_socket_write.                                                    *)
WritesOnlyBlock == Running

(* Every complete request gets its answer to the client, unless the           *)
(* connection is closed: none is forgotten in the buffer while an earlier one *)
(* is being handled, and no answer is left in the output buffer for want of   *)
(* an event.  That is so of plain connections and of SSL over Unix domain     *)
(* sockets; with TcpWithSsl an answer of more than a record may be left.      *)
AllGet(m) == \A i \in 1..m : Script[i] = "get"
EveryRequestAnswered ==
  \A r \in Requests, m \in 1..Len(Script) :
    r \in Open /\ AllGet(m) /\ request[r].sent >= 2 * m ~>
      r \notin Open \/ Len(request[r].got) >= m

(* The object of a closed connection is freed.                                *)
ClosedIsFreed ==
  \A r \in Requests :
    request[r].state = "closed" /\ request[r].ref > 0 ~> request[r].ref = 0
=============================================================================
