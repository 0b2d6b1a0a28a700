------------------------------ MODULE Pipeline ------------------------------
(***************************************************************************)
(* What the HTTP server promises on each connection, whatever the          *)
(* application does with the requests it is handed and whenever it answers:*)
(*                                                                         *)
(*  - a request is handed out only when all of it has arrived, in the order*)
(*    of arrival and never twice;                                          *)
(*  - one request at a time: the next is handed out after the answer;      *)
(*  - the answers the client gets are those of requests 1, 2, 3, ...       *)
(***************************************************************************)
EXTENDS Naturals, Sequences

CONSTANT
  Connections

VARIABLE
  conn          (* conn[c]: what has happened on connection c              *)

None == [open |-> FALSE, arrived |-> 0, asked |-> 0, answers |-> <<>>, sent |-> 0]
Fresh == [None EXCEPT !.open = TRUE]

Init == conn = [c \in Connections |-> None]

(* One connection changes to p.                                              *)
Becomes(c, p) == conn' = [conn EXCEPT ![c] = p]

Accept(c) == ~conn[c].open /\ Becomes(c, Fresh)

Close(c) == conn[c].open /\ Becomes(c, None)

(* The client's next request has arrived in full.                            *)
Arrive(c) ==
  conn[c].open /\ Becomes(c, [conn[c] EXCEPT !.arrived = @ + 1])

(* The next request is handed to the application.                            *)
Ask(c) ==
  /\ conn[c].open
  /\ conn[c].asked = Len(conn[c].answers)
  /\ conn[c].asked < conn[c].arrived
  /\ Becomes(c, [conn[c] EXCEPT !.asked = @ + 1])

(* Some of the answers that are waiting go out, in order.                    *)
Transmitted(p) == {[p EXCEPT !.sent = n] : n \in p.sent..Len(p.answers)}

Transmit(c) ==
  conn[c].open /\ \E p \in Transmitted(conn[c]) : Becomes(c, p)

(* The request in hand is answered; the answer may go out at once.           *)
Answer(c) ==
  /\ conn[c].open
  /\ conn[c].asked = Len(conn[c].answers) + 1
  /\ \E p \in Transmitted([conn[c] EXCEPT !.answers = Append(@, conn[c].asked)]) :
       Becomes(c, p)

(* The server is shut down: any number of connections close together.        *)
Shutdown ==
  \E C \in SUBSET Connections :
    conn' = [c \in Connections |-> IF c \in C THEN None ELSE conn[c]]

Next ==
  \/ \E c \in Connections :
       Accept(c) \/ Close(c) \/ Arrive(c) \/ Ask(c) \/ Transmit(c) \/ Answer(c)
  \/ Shutdown

Spec == Init /\ [][Next]_conn
=============================================================================
