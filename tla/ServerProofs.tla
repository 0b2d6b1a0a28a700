----------------------------- MODULE ServerProofs -----------------------------
(***************************************************************************)
(* Proofs about Server, for any number of connections and any requests, as *)
(* long as server_shutdown is not called while requests are in use.        *)
(***************************************************************************)
EXTENDS Server, SequenceTheorems, FiniteSetTheorems, TLAPS

(* What TypeOK says of an object.                                             *)
Objects ==
  [ref : Nat, state : {"need_more_data", "read", "handling", "closed"},
   event_triggered : BOOLEAN, data : Nat, consumed : Nat, input : Nat,
   output : Seq(Nat), writing : BOOLEAN, edge : BOOLEAN, sent : Nat,
   peer : {"open", "closed", "reset"}, got : Seq(Nat), aborted : BOOLEAN]

(* The running calls for r, and those of them made by server_respond: 0 or 1. *)
CallsOf(r) == IF Calls(r) = {} THEN 0 ELSE 1
AnswersOf(r) == IF AnsweringCalls(r) = {} THEN 0 ELSE 1

(* server_request_update never runs twice for one request at a time.          *)
NoReentry == \A i, j \in DOMAIN stack : stack[i].request = stack[j].request => i = j

(* Below, q is an object of which the application holds h references and owes *)
(* message o, and for which c calls run, a of them made by server_respond.    *)

(* The references, and event_triggered, which tells whether a call runs.      *)
Counted(q, h, c, a) ==
  /\ q.ref = (IF q.state = "closed" THEN 0 ELSE 1) + h + c + a
  /\ q.event_triggered <=> c = 1

(* Nothing is left of a closed connection.                                    *)
Emptied(q) ==
  /\ q.data = 0 /\ q.consumed = 0 /\ q.input = 0 /\ q.sent = 0
  /\ q.output = <<>> /\ q.got = <<>>
  /\ q.peer = "open"

(* How far an open connection has come: each message handed out is answered,  *)
(* but for the one in hand; between two calls the messages handed out are     *)
(* those consumed, and what follows them is no message yet.                   *)
Taken(q) == q.data % 2 = 0 /\ q.data <= q.input /\ q.input <= q.sent

Progress(q, h, o, c) ==
  /\ Taken(q)
  /\ IF q.state = "handling" THEN Len(q.got) + Len(q.output) + 1 = q.data \div 2
                            ELSE Len(q.got) + Len(q.output) = q.data \div 2
  /\ c = 0 => q.data = q.consumed /\ q.state # "read"
  /\ q.state = "need_more_data" => ~Complete(q) /\ ~Malformed(q)
  /\ IF q.state = "handling" THEN o = q.data \div 2 /\ o > 0 /\ h > 0 ELSE o = 0

Sound(q, h, o, c, a) ==
  /\ Counted(q, h, c, a)
  /\ IF q.state = "closed" THEN Emptied(q) ELSE Progress(q, h, o, c)

(* Nothing is due to a closed connection, and no end to one that has not      *)
(* ended.                                                                     *)
DueIsTrue(q, d) ==
  /\ q.state = "closed" => d = {}
  /\ "close" \in d => q.peer # "open"

IInv ==
  /\ TypeOK
  /\ NoReentry
  /\ \A r \in Requests : Sound(request[r], held[r], owed[r], CallsOf(r), AnswersOf(r))
  /\ \A r \in Requests : DueIsTrue(request[r], due[r])

Frames == [request : Requests, answered : BOOLEAN, handler : BOOLEAN]

-----------------------------------------------------------------------------
(* The call stack.                                                            *)

LEMMA StackIs ==
  ASSUME TypeOK
  PROVE  /\ stack \in Seq(Frames) /\ Len(stack) \in Nat /\ DOMAIN stack = 1..Len(stack)
         /\ \A i \in 1..Len(stack) :
              /\ stack[i] \in Frames
              /\ stack[i].request \in Requests
         /\ stack # <<>> => Len(stack) \in 1..Len(stack)
<1>1. stack \in Seq(Frames)
  BY DEF TypeOK, Frames
<1>2. Len(stack) \in Nat /\ DOMAIN stack = 1..Len(stack)
  BY <1>1, LenProperties
<1>3. \A i \in 1..Len(stack) : stack[i] \in Frames
  BY <1>1, ElementOfSeq
<1>4. stack # <<>> => Len(stack) # 0
  BY <1>1, EmptySeq
<1> QED
  BY <1>1, <1>2, <1>3, <1>4 DEF Frames

(* A call begins.                                                             *)
LEMMA PushKeeps ==
  ASSUME TypeOK, NoReentry, NEW r \in Requests, NEW b \in BOOLEAN,
         CallsOf(r) = 0, stack' = Append(stack, Call(r, b))
  PROVE  /\ stack' \in Seq(Frames) /\ NoReentry'
         /\ CallsOf(r)' = 1 /\ AnswersOf(r)' = (IF b THEN 1 ELSE 0)
         /\ \A s \in Requests \ {r} :
              CallsOf(s)' = CallsOf(s) /\ AnswersOf(s)' = AnswersOf(s)
<1> DEFINE n == Len(stack)
<1>1. stack \in Seq(Frames) /\ n \in Nat /\ DOMAIN stack = 1..n
  BY StackIs
<1>2. Call(r, b) \in Frames /\ Call(r, b).request = r /\ Call(r, b).answered = b
  BY DEF Call, Frames
<1>3. /\ stack' \in Seq(Frames) /\ Len(stack') = n + 1
      /\ \A i \in 1..n : stack'[i] = stack[i]
      /\ stack'[n + 1] = Call(r, b)
  BY <1>1, <1>2, AppendProperties
<1>4. DOMAIN stack' = 1..n + 1
  BY <1>1, <1>3, LenProperties
<1>5. \A i \in 1..n : stack[i].request # r
  BY <1>1 DEF CallsOf, Calls
<1>6. \A s \in Requests \ {r} : Calls(s)' = Calls(s) /\ AnsweringCalls(s)' = AnsweringCalls(s)
  BY <1>1, <1>2, <1>3, <1>4 DEF Calls, AnsweringCalls
<1>7. Calls(r)' = {n + 1}
  BY <1>1, <1>2, <1>3, <1>4, <1>5 DEF Calls
<1>8. AnsweringCalls(r)' = IF b THEN {n + 1} ELSE {}
  BY <1>2, <1>3, <1>7 DEF AnsweringCalls
<1>9. NoReentry'
  <2> SUFFICES ASSUME NEW i \in 1..n + 1, NEW j \in 1..n + 1,
                      stack'[i].request = stack'[j].request
               PROVE  i = j
    BY <1>4 DEF NoReentry
  <2> QED
    BY <1>1, <1>2, <1>3, <1>5 DEF NoReentry
<1> QED
  BY <1>3, <1>6, <1>7, <1>8, <1>9 DEF CallsOf, AnswersOf

(* The innermost call returns.                                                *)
LEMMA PopKeeps ==
  ASSUME TypeOK, NoReentry, NEW r \in Requests, stack # <<>>, Top.request = r, stack' = Pop
  PROVE  /\ stack' \in Seq(Frames) /\ NoReentry'
         /\ CallsOf(r) = 1 /\ AnswersOf(r) = (IF Top.answered THEN 1 ELSE 0)
         /\ CallsOf(r)' = 0 /\ AnswersOf(r)' = 0
         /\ \A s \in Requests \ {r} :
              CallsOf(s)' = CallsOf(s) /\ AnswersOf(s)' = AnswersOf(s)
<1> DEFINE n == Len(stack)
<1>1. stack \in Seq(Frames) /\ n \in Nat /\ DOMAIN stack = 1..n /\ n > 0
      /\ \A i \in 1..n : stack[i] \in Frames
  BY StackIs
<1>2. /\ stack' \in Seq(Frames) /\ Len(stack') = n - 1
      /\ \A i \in 1..n - 1 : stack'[i] = stack[i]
  <2>1. \A i \in 1..n - 1 : stack[i] \in Frames
    BY <1>1
  <2>2. stack' = SubSeq(stack, 1, n - 1) /\ n - 1 \in Int
    BY <1>1 DEF Pop
  <2> QED
    BY <1>1, <2>1, <2>2, SubSeqProperties
<1>3. DOMAIN stack' = 1..n - 1
  BY <1>1, <1>2, LenProperties
<1>4. \A i \in 1..n - 1 : stack[i].request # r
  BY <1>1 DEF NoReentry, Top
<1>5. stack[n].request = r
  BY DEF Top
<1>6. Calls(r) = {n} /\ Calls(r)' = {}
  BY <1>1, <1>2, <1>3, <1>4, <1>5 DEF Calls
<1>7. AnsweringCalls(r)' = {} /\ AnsweringCalls(r) = IF Top.answered THEN {n} ELSE {}
  BY <1>6 DEF AnsweringCalls, Top
<1>8. \A s \in Requests \ {r} : Calls(s)' = Calls(s) /\ AnsweringCalls(s)' = AnsweringCalls(s)
  BY <1>1, <1>2, <1>3, <1>5 DEF Calls, AnsweringCalls
<1>9. NoReentry'
  BY <1>1, <1>2, <1>3 DEF NoReentry
<1> QED
  BY <1>2, <1>6, <1>7, <1>8, <1>9 DEF CallsOf, AnswersOf

(* The handler is called by the innermost call, or returns to it.             *)
LEMMA FlagKeeps ==
  ASSUME TypeOK, NoReentry, stack # <<>>, NEW b \in BOOLEAN,
         stack' = [stack EXCEPT ![Len(stack)].handler = b]
  PROVE  /\ stack' \in Seq(Frames) /\ NoReentry'
         /\ \A s \in Requests : CallsOf(s)' = CallsOf(s) /\ AnswersOf(s)' = AnswersOf(s)
<1> DEFINE n == Len(stack)
           e == [stack[n] EXCEPT !.handler = b]
<1>1. stack \in Seq(Frames) /\ n \in Nat /\ DOMAIN stack = 1..n /\ n \in 1..n
      /\ \A i \in 1..n : stack[i] \in Frames
  BY StackIs
<1>2. e \in Frames /\ e.request = stack[n].request /\ e.answered = stack[n].answered
  BY <1>1 DEF Frames
<1>3. stack' = [stack EXCEPT ![n] = e]
  OBVIOUS
<1> HIDE DEF e
<1>4. /\ stack' \in Seq(Frames) /\ Len(stack') = n
      /\ \A j \in 1..n : stack'[j] = IF j = n THEN e ELSE stack[j]
  BY <1>1, <1>2, <1>3, ExceptSeq
<1>5. DOMAIN stack' = 1..n
  BY <1>4, LenProperties
<1>6. \A j \in 1..n : /\ stack'[j].request = stack[j].request
                      /\ stack'[j].answered = stack[j].answered
  BY <1>2, <1>4
<1>7. \A s \in Requests : Calls(s)' = Calls(s) /\ AnsweringCalls(s)' = AnsweringCalls(s)
  BY <1>1, <1>5, <1>6 DEF Calls, AnsweringCalls
<1>8. NoReentry'
  BY <1>1, <1>5, <1>6 DEF NoReentry
<1> QED
  BY <1>4, <1>7, <1>8 DEF CallsOf, AnswersOf

-----------------------------------------------------------------------------
(* The operators on objects.                                                  *)

(* Flushing moves answers from the output to the client and does nothing else.*)
Flushed(q, p) ==
  /\ p \in Objects
  /\ p.ref = q.ref /\ p.state = q.state /\ p.event_triggered = q.event_triggered
  /\ p.data = q.data /\ p.consumed = q.consumed /\ p.input = q.input /\ p.sent = q.sent
  /\ p.peer = q.peer
  /\ p.got \o p.output = q.got \o q.output
  /\ Len(p.got) >= Len(q.got)
  /\ Len(p.got) + Len(p.output) = Len(q.got) + Len(q.output)

LEMMA ObjectIs ==
  ASSUME NEW q \in Objects
  PROVE  /\ q.ref \in Nat /\ q.state \in {"need_more_data", "read", "handling", "closed"}
         /\ q.event_triggered \in BOOLEAN /\ q.aborted \in BOOLEAN /\ q.writing \in BOOLEAN
         /\ q.data \in Nat /\ q.consumed \in Nat /\ q.input \in Nat /\ q.sent \in Nat
         /\ q.output \in Seq(Nat) /\ q.got \in Seq(Nat)
         /\ Len(q.output) \in Nat /\ Len(q.got) \in Nat
         /\ q.peer \in {"open", "closed", "reset"}
BY LenProperties DEF Objects

LEMMA ConcatIsAssociative ==
  ASSUME NEW x \in Seq(Nat), NEW y \in Seq(Nat), NEW z \in Seq(Nat)
  PROVE  (x \o y) \o z = x \o (y \o z)
BY ConcatAssociative, SMTT(60)

LEMMA SplitKeeps ==
  ASSUME NEW s \in Seq(Nat), NEW t \in Seq(Nat), NEW n \in 0..Len(s)
  PROVE  /\ SubSeq(s, 1, n) \in Seq(Nat) /\ SubSeq(s, n + 1, Len(s)) \in Seq(Nat)
         /\ t \o SubSeq(s, 1, n) \in Seq(Nat)
         /\ Len(SubSeq(s, n + 1, Len(s))) = Len(s) - n
         /\ Len(t \o SubSeq(s, 1, n)) = Len(t) + n
         /\ (t \o SubSeq(s, 1, n)) \o SubSeq(s, n + 1, Len(s)) = t \o s
<1>1. Len(s) \in Nat /\ n \in Nat /\ n <= Len(s) /\ \A i \in 1..Len(s) : s[i] \in Nat
  BY LenProperties, ElementOfSeq
<1>2. /\ SubSeq(s, 1, n) \in Seq(Nat)
      /\ Len(SubSeq(s, 1, n)) = n
  <2>1. \A i \in 1..n : s[i] \in Nat
    BY <1>1
  <2>2. Len(SubSeq(s, 1, n)) = IF 1 <= n THEN n - 1 + 1 ELSE 0
    BY <1>1, <2>1, SubSeqProperties
  <2> QED
    BY <1>1, <2>1, <2>2, SubSeqProperties
<1>3. /\ SubSeq(s, n + 1, Len(s)) \in Seq(Nat)
      /\ Len(SubSeq(s, n + 1, Len(s))) = Len(s) - n
  <2>1. \A i \in n + 1..Len(s) : s[i] \in Nat
    BY <1>1
  <2>2. Len(SubSeq(s, n + 1, Len(s)))
          = IF n + 1 <= Len(s) THEN Len(s) - (n + 1) + 1 ELSE 0
    BY <1>1, <2>1, SubSeqProperties
  <2> QED
    BY <1>1, <2>1, <2>2, SubSeqProperties
<1>4. SubSeq(s, 1, n) \o SubSeq(s, n + 1, Len(s)) = s
  <2>1. 1 \in 1..Len(s) + 1 /\ n \in 1 - 1..Len(s) /\ Len(s) \in n..Len(s)
    BY <1>1
  <2>2. SubSeq(s, 1, n) \o SubSeq(s, n + 1, Len(s)) = SubSeq(s, 1, Len(s))
    BY <2>1, ConcatAdjacentSubSeq, Zenon
  <2> QED
    BY <2>2, SubSeqFull
<1>5. (t \o SubSeq(s, 1, n)) \o SubSeq(s, n + 1, Len(s)) = t \o s
  <2>1. (t \o SubSeq(s, 1, n)) \o SubSeq(s, n + 1, Len(s))
          = t \o (SubSeq(s, 1, n) \o SubSeq(s, n + 1, Len(s)))
    BY <1>2, <1>3, ConcatIsAssociative
  <2> QED
    BY <2>1, <1>4
<1>6. /\ t \o SubSeq(s, 1, n) \in Seq(Nat)
      /\ Len(t \o SubSeq(s, 1, n)) = Len(t) + Len(SubSeq(s, 1, n))
  BY <1>2, ConcatProperties, Zenon
<1> QED
  BY <1>2, <1>3, <1>5, <1>6

LEMMA FlushKeeps ==
  ASSUME NEW q \in Objects, NEW p \in stream_flush(q)
  PROVE  Flushed(q, p)
<1>1. CASE q.peer = "reset" /\ q.output # <<>>
  <2> DEFINE look == q.edge \/ ~q.writing
  <2>1. p = [q EXCEPT !.writing = TRUE, !.edge = look] \/ p = [q EXCEPT !.aborted = TRUE]
    BY <1>1 DEF stream_flush, WriteFails, Aborted
  <2>2. look \in BOOLEAN
    OBVIOUS
  <2> HIDE DEF look
  <2>3. p \in Objects
    BY <2>1, <2>2 DEF Objects
  <2>4. /\ p.ref = q.ref /\ p.state = q.state /\ p.event_triggered = q.event_triggered
        /\ p.data = q.data /\ p.consumed = q.consumed /\ p.input = q.input
        /\ p.sent = q.sent /\ p.peer = q.peer /\ p.got = q.got /\ p.output = q.output
    BY <2>1 DEF Objects
  <2> QED
    BY <2>3, <2>4, ObjectIs DEF Flushed
<1>2. CASE ~(q.peer = "reset" /\ q.output # <<>>)
  <2>1. PICK n \in 0..Len(q.output), full \in BOOLEAN : p = Sent(q, [sent |-> n, full |-> full])
    <3>1. PICK w \in stream_ssl_flush(q) \cup stream_socket_write(q) : p = Sent(q, w)
      BY <1>2 DEF stream_flush
    <3>2. \E n \in 0..Len(q.output), full \in BOOLEAN : w = [sent |-> n, full |-> full]
      <4>1. Len(q.output) \in Nat
        BY ObjectIs
      <4>2. CASE w \in stream_socket_write(q)
        <5>1. PICK n \in 0..Len(q.output) : w = [sent |-> n, full |-> n < Len(q.output)]
          BY <4>2 DEF stream_socket_write
        <5>2. (n < Len(q.output)) \in BOOLEAN
          OBVIOUS
        <5> QED
          BY <5>1, <5>2, Zenon
      <4>3. CASE w \in stream_ssl_flush(q)
        <5>1. \/ \E n \in 0..Len(q.output) : w = [sent |-> n, full |-> FALSE]
              \/ w = [sent |-> 0, full |-> q.output # <<>>]
          BY <4>3, Zenon DEF stream_ssl_flush
        <5>2. 0 \in 0..Len(q.output) /\ (q.output # <<>>) \in BOOLEAN
          BY <4>1
        <5>3. FALSE \in BOOLEAN
          OBVIOUS
        <5> QED
          BY <5>1, <5>2, <5>3, Zenon
      <4> QED
        BY <3>1, <4>2, <4>3
    <3> QED
      BY <3>1, <3>2
  <2> DEFINE rest == SubSeq(q.output, n + 1, Len(q.output))
             gone == q.got \o SubSeq(q.output, 1, n)
             more == n < Len(q.output)
             look == more /\ (q.edge \/ full \/ ~q.writing \/ ~TcpWithSsl)
  <2>2. q.output \in Seq(Nat) /\ q.got \in Seq(Nat) /\ Len(q.output) \in Nat
        /\ Len(q.got) \in Nat /\ n \in Nat /\ n <= Len(q.output)
    BY ObjectIs
  <2>3. /\ rest \in Seq(Nat) /\ gone \in Seq(Nat)
        /\ Len(rest) = Len(q.output) - n /\ Len(gone) = Len(q.got) + n
        /\ gone \o rest = q.got \o q.output
    BY <2>2, SplitKeeps
  <2>4. more \in BOOLEAN /\ look \in BOOLEAN
    OBVIOUS
  <2>5. p = [q EXCEPT !.output = rest, !.got = gone, !.writing = more, !.edge = look]
    BY <2>1 DEF Sent
  <2> HIDE DEF rest, gone, more, look
  <2>6. p \in Objects
    BY <2>3, <2>4, <2>5 DEF Objects
  <2>7. /\ p.ref = q.ref /\ p.state = q.state /\ p.event_triggered = q.event_triggered
        /\ p.data = q.data /\ p.consumed = q.consumed /\ p.input = q.input
        /\ p.sent = q.sent /\ p.peer = q.peer /\ p.got = gone /\ p.output = rest
    BY <2>5 DEF Objects
  <2>8. /\ p.got \o p.output = q.got \o q.output
        /\ Len(p.got) = Len(q.got) + n /\ Len(p.output) = Len(q.output) - n
    BY <2>3, <2>7
  <2>9. /\ Len(p.got) >= Len(q.got)
        /\ Len(p.got) + Len(p.output) = Len(q.got) + Len(q.output)
    <3> DEFINE a == Len(q.got)
               b == Len(q.output)
    <3>1. a \in Nat /\ b \in Nat /\ n \in Nat /\ n <= b
      BY <2>2
    <3>2. Len(p.got) = a + n /\ Len(p.output) = b - n
      BY <2>8
    <3> HIDE DEF a, b
    <3>3. Len(p.got) >= a /\ Len(p.got) + Len(p.output) = a + b
      BY <3>1, <3>2
    <3> QED
      BY <3>3 DEF a, b
  <2> QED
    BY <2>6, <2>7, <2>8, <2>9 DEF Flushed
<1> QED
  BY <1>1, <1>2

(* An answer is appended to those written before.                             *)
LEMMA WriteIs ==
  ASSUME NEW q \in Objects, NEW m \in Nat
  PROVE  /\ http_write_response(q, m) \in Objects
         /\ http_write_response(q, m) = [q EXCEPT !.output = Append(q.output, m)]
         /\ Len(Append(q.output, m)) = Len(q.output) + 1
         /\ q.got \o Append(q.output, m) = Append(q.got \o q.output, m)
         /\ Append(q.output, m) \in Seq(Nat)
<1>1. q.output \in Seq(Nat) /\ q.got \in Seq(Nat)
  BY ObjectIs
<1>2. Append(q.output, m) \in Seq(Nat) /\ Len(Append(q.output, m)) = Len(q.output) + 1
  BY <1>1, AppendProperties
<1>3. http_write_response(q, m) = [q EXCEPT !.output = Append(q.output, m)]
  BY DEF http_write_response
<1>4. http_write_response(q, m) \in Objects
  BY <1>2, <1>3 DEF Objects
<1>5. q.got \o Append(q.output, m) = Append(q.got \o q.output, m)
  <2>1. q.got \o q.output \in Seq(Nat) /\ <<m>> \in Seq(Nat)
    BY <1>1, ConcatProperties
  <2>2. Append(q.output, m) = q.output \o <<m>>
    BY <1>1, AppendIsConcat
  <2>3. Append(q.got \o q.output, m) = (q.got \o q.output) \o <<m>>
    BY <2>1, AppendIsConcat
  <2>4. (q.got \o q.output) \o <<m>> = q.got \o (q.output \o <<m>>)
    BY <1>1, <2>1, ConcatIsAssociative
  <2> QED
    BY <2>2, <2>3, <2>4
<1> QED
  BY <1>2, <1>3, <1>4, <1>5

LEMMA FreeIs ==
  /\ Free \in Objects /\ Free.ref = 0 /\ Free.state = "closed"
  /\ Free.event_triggered = FALSE /\ Emptied(Free)
BY EmptySeq DEF Free, Objects, Emptied

(* p is what remains of the closed connection of q when a reference is given  *)
(* up.                                                                        *)
Remains(q, p) ==
  /\ p \in Objects
  /\ p.state = "closed" /\ Emptied(p)
  /\ p.ref = q.ref - 1
  /\ p.event_triggered <=> q.event_triggered /\ q.ref > 1

LEMMA ReleaseClosedIs ==
  ASSUME NEW q \in Objects, q.state = "closed", Emptied(q), q.ref > 0
  PROVE  Remains(q, server_release(q))
<1>1. CASE q.ref = 1
  <2>1. server_release(q) = [Free EXCEPT !.aborted = q.aborted]
    BY <1>1 DEF server_release
  <2>2. Free \in Objects /\ q.aborted \in BOOLEAN
    BY ObjectIs, FreeIs
  <2>3. server_release(q) \in Objects
    BY <2>1, <2>2 DEF Objects
  <2>4. /\ server_release(q).state = "closed" /\ Emptied(server_release(q))
        /\ server_release(q).ref = 0 /\ server_release(q).event_triggered = FALSE
    BY <2>1 DEF Emptied, Free
  <2> QED
    BY <1>1, <2>3, <2>4 DEF Remains
<1>2. CASE q.ref # 1
  <2>1. server_release(q) = [q EXCEPT !.ref = @ - 1]
    BY <1>2 DEF server_release
  <2>2. q.ref - 1 \in Nat /\ q.ref > 1
    BY <1>2, ObjectIs
  <2> QED
    BY <2>1, <2>2 DEF Remains, Emptied, Objects
<1> QED
  BY <1>1, <1>2

LEMMA CloseIs ==
  ASSUME NEW q \in Objects, q.state # "closed", q.ref > 0
  PROVE  Remains(q, server_close(q))
<1> DEFINE p == stream_close(q)
<1>1. p = [Free EXCEPT !.ref = q.ref, !.event_triggered = q.event_triggered,
                       !.aborted = q.aborted]
  BY DEF stream_close
<1>2. server_close(q) = server_release(p)
  BY DEF server_close
<1> HIDE DEF p
<1>3. /\ p \in Objects /\ p.state = "closed" /\ Emptied(p) /\ p.ref = q.ref
      /\ p.event_triggered = q.event_triggered
  BY <1>1, ObjectIs, EmptySeq DEF Free, Objects, Emptied
<1>4. Remains(p, server_release(p))
  BY <1>3, ReleaseClosedIs
<1> QED
  BY <1>2, <1>3, <1>4 DEF Remains

LEMMA ReleaseIs ==
  ASSUME NEW q \in Objects, q.ref > 1
  PROVE  /\ server_release(q) = [q EXCEPT !.ref = q.ref - 1]
         /\ server_release(q) \in Objects
<1>1. server_release(q) = [q EXCEPT !.ref = q.ref - 1]
  BY DEF server_release
<1>2. q.ref - 1 \in Nat
  BY ObjectIs
<1> QED
  BY <1>1, <1>2 DEF Objects

LEMMA HoldIs ==
  ASSUME NEW q \in Objects
  PROVE  /\ server_hold(q) = [q EXCEPT !.ref = q.ref + 1]
         /\ server_hold(q) \in Objects
<1>1. server_hold(q) = [q EXCEPT !.ref = q.ref + 1]
  BY DEF server_hold
<1>2. q.ref + 1 \in Nat
  BY ObjectIs
<1> QED
  BY <1>1, <1>2 DEF Objects

(* The kinds of change the handlers make, and that they leave an object sound.*)

LEMMA HalfIs ==
  ASSUME NEW n \in Nat
  PROVE  /\ n \div 2 \in Nat
         /\ (n + 2) \div 2 = n \div 2 + 1
         /\ n % 2 = 0 => (n + 2) % 2 = 0
OBVIOUS

LEMMA ScriptIs ==
  ASSUME NEW q \in Objects, NEW p \in Objects, p.data = q.data, p.input = q.input
  PROVE  (Complete(p) <=> Complete(q)) /\ (Malformed(p) <=> Malformed(q))
BY DEF Complete, Malformed, Unread, Message

LEMMA FlushSound ==
  ASSUME NEW q \in Objects, NEW p, Flushed(q, p), q.state # "closed",
         NEW h, NEW o, NEW c, NEW a, Sound(q, h, o, c, a)
  PROVE  p \in Objects /\ Sound(p, h, o, c, a)
<1>1. p \in Objects /\ p.state # "closed"
  BY DEF Flushed
<1>2. (Complete(p) <=> Complete(q)) /\ (Malformed(p) <=> Malformed(q))
  BY <1>1, ScriptIs DEF Flushed
<1>3. Counted(p, h, c, a)
  BY DEF Flushed, Sound, Counted
<1>4. Len(p.got) + Len(p.output) = Len(q.got) + Len(q.output)
  BY DEF Flushed
<1>5. Progress(p, h, o, c)
  BY <1>2, <1>4 DEF Flushed, Sound, Progress, Taken
<1> QED
  BY <1>1, <1>3, <1>5 DEF Sound

(* A close leaves nothing open.                                               *)
LEMMA ClosedIs ==
  ASSUME NEW q \in Objects
  PROVE  /\ server_close(q).state = "closed"
         /\ server_release(server_close(q)).state = "closed"
         /\ q.state = "closed" => server_release(q).state = "closed"
<1>1. q.state = "closed" => server_release(q).state = "closed"
  BY DEF server_release, Free, Objects
<1>2. CASE q.state = "closed"
  BY <1>1, <1>2 DEF server_close
<1>3. CASE q.state # "closed"
  <2> DEFINE p == stream_close(q)
             e == server_release(p)
  <2>1. p = [Free EXCEPT !.ref = q.ref, !.event_triggered = q.event_triggered,
                         !.aborted = q.aborted]
    BY DEF stream_close
  <2>2. server_close(q) = e
    BY <1>3 DEF server_close
  <2>3. e = [Free EXCEPT !.aborted = p.aborted] \/ e = [p EXCEPT !.ref = @ - 1]
    BY DEF server_release
  <2> HIDE DEF p
  <2>4. e.state = "closed" /\ "state" \in DOMAIN e
    BY <2>1, <2>3 DEF Free
  <2>5. server_release(e) = [Free EXCEPT !.aborted = e.aborted]
          \/ server_release(e) = [e EXCEPT !.ref = @ - 1]
    BY DEF server_release
  <2> HIDE DEF e
  <2>6. server_release(e).state = "closed"
    <3>1. [Free EXCEPT !.aborted = e.aborted].state = "closed"
      BY DEF Free
    <3>2. [e EXCEPT !.ref = @ - 1].state = "closed"
      BY <2>4
    <3> QED
      BY <2>5, <3>1, <3>2
  <2> QED
    BY <1>1, <1>3, <2>2, <2>4, <2>6
<1> QED
  BY <1>2, <1>3

(* A reference to a closed connection is given up: the application's, or one  *)
(* of a running call.                                                         *)
LEMMA CloseSound ==
  ASSUME NEW q \in Objects, NEW h \in Nat, NEW o, NEW c \in {0, 1}, NEW a \in Nat,
         Sound(q, h, o, c, a)
  PROVE  server_close(q) \in Objects /\ Sound(server_close(q), h, o, c, a)
<1>1. CASE q.state = "closed"
  BY <1>1 DEF server_close
<1>2. CASE q.state # "closed"
  <2>1. q.ref = 1 + h + c + a /\ (q.event_triggered <=> c = 1)
    BY <1>2 DEF Sound, Counted
  <2>2. Remains(q, server_close(q))
    BY <1>2, <2>1, CloseIs
  <2>3. server_close(q).ref = h + c + a
    BY <2>1, <2>2 DEF Remains
  <2>4. server_close(q).event_triggered <=> c = 1
    BY <2>1, <2>2 DEF Remains
  <2>5. Counted(server_close(q), h, c, a)
    BY <2>2, <2>3, <2>4 DEF Remains, Counted
  <2> QED
    BY <2>2, <2>5 DEF Remains, Sound
<1> QED
  BY <1>1, <1>2

LEMMA GiveUpSound ==
  ASSUME NEW q \in Objects, NEW h \in Nat \ {0}, NEW o, NEW c \in {0, 1}, NEW a \in Nat,
         NEW m, q.state = "closed", Sound(q, h, o, c, a)
  PROVE  server_release(q) \in Objects /\ Sound(server_release(q), h - 1, m, c, a)
<1>1. q.ref = h + c + a /\ (q.event_triggered <=> c = 1) /\ Emptied(q)
  BY DEF Sound, Counted
<1>2. Remains(q, server_release(q))
  BY <1>1, ReleaseClosedIs
<1>3. server_release(q).ref = h - 1 + c + a
  BY <1>1, <1>2 DEF Remains
<1>4. server_release(q).event_triggered <=> c = 1
  BY <1>1, <1>2 DEF Remains
<1>5. Counted(server_release(q), h - 1, c, a)
  BY <1>2, <1>3, <1>4 DEF Remains, Counted
<1> QED
  BY <1>2, <1>5 DEF Remains, Sound

LEMMA BadRequestCloses ==
  ASSUME NEW q \in Objects, NEW p \in BadRequest(q)
  PROVE  p.state = "closed"
<1>1. http_write_response(q, 0) \in Objects
  BY WriteIs
<1>2. PICK f \in stream_flush(http_write_response(q, 0)) : p = server_release(server_close(f))
  BY DEF BadRequest
<1>3. f \in Objects
  BY <1>1, <1>2, FlushKeeps DEF Flushed
<1> QED
  BY <1>2, <1>3, ClosedIs

(* server_bad_request closes the connection and gives up a reference.         *)
LEMMA BadRequestIs ==
  ASSUME NEW q \in Objects, q.state # "closed", q.ref > 1, NEW p \in BadRequest(q)
  PROVE  /\ p \in Objects /\ p.state = "closed" /\ Emptied(p)
         /\ p.ref = q.ref - 2
         /\ p.event_triggered <=> q.event_triggered /\ q.ref > 2
<1> DEFINE w == http_write_response(q, 0)
<1>1. /\ w \in Objects /\ w.state = q.state /\ w.ref = q.ref
      /\ w.event_triggered = q.event_triggered
  <2>1. w \in Objects /\ w = [q EXCEPT !.output = Append(q.output, 0)]
    BY WriteIs
  <2> QED
    BY <2>1 DEF Objects
<1>2. PICK f \in stream_flush(w) : p = server_release(server_close(f))
  BY DEF BadRequest
<1> HIDE DEF w
<1>3. /\ f \in Objects /\ f.state # "closed" /\ f.ref = q.ref
      /\ f.event_triggered = q.event_triggered /\ f.ref > 0
  <2>1. Flushed(w, f)
    BY <1>1, <1>2, FlushKeeps
  <2> QED
    BY <1>1, <2>1, ObjectIs DEF Flushed
<1>4. Remains(f, server_close(f))
  BY <1>3, CloseIs
<1> DEFINE g == server_close(f)
<1>5. /\ g \in Objects /\ g.state = "closed" /\ Emptied(g) /\ g.ref = q.ref - 1
      /\ g.event_triggered <=> q.event_triggered
  BY <1>3, <1>4 DEF Remains
<1>6. p = server_release(g)
  BY <1>2
<1> HIDE DEF g
<1>7. Remains(g, p)
  BY <1>5, <1>6, ReleaseClosedIs, ObjectIs
<1> QED
  BY <1>5, <1>7, ObjectIs DEF Remains

-----------------------------------------------------------------------------
(* The steps.  A step of Server changes one object and what counts towards it,*)
(* and leaves the other requests alone.                                       *)

LEMMA CallsAre ==
  ASSUME NEW r
  PROVE  /\ CallsOf(r) \in {0, 1} /\ AnswersOf(r) \in {0, 1}
         /\ AnswersOf(r) = 1 => CallsOf(r) = 1
BY DEF CallsOf, AnswersOf, AnsweringCalls

(* What a step that changes the object of r leaves alone.                     *)
OthersKept(r) ==
  /\ stack' \in Seq(Frames) /\ NoReentry'
  /\ held' \in [Requests -> Nat] /\ owed' \in [Requests -> Nat]
  /\ is_open' \in BOOLEAN /\ accepts' \in Nat
  /\ \A s \in Requests \ {r} :
       /\ held'[s] = held[s] /\ owed'[s] = owed[s]
       /\ CallsOf(s)' = CallsOf(s) /\ AnswersOf(s)' = AnswersOf(s)

(* An end of the connection is not undone.                                    *)
EndsStay(q, p) == p.state # "closed" /\ q.peer # "open" => p.peer # "open"

LEMMA StepKeeps ==
  ASSUME IInv, NEW r \in Requests, NEW q \in Objects,
         request' = [request EXCEPT ![r] = q],
         NEW d \in [Requests -> SUBSET Port!Kinds], \A s \in Requests : d[s] \subseteq due[s],
         KeepDue(d), OthersKept(r), EndsStay(request[r], q),
         Sound(q, held'[r], owed'[r], CallsOf(r)', AnswersOf(r)')
  PROVE  IInv'
<1>1. request \in [Requests -> Objects]
  BY DEF IInv, TypeOK, Objects
<1>2. /\ request' \in [Requests -> Objects] /\ request'[r] = q
      /\ \A s \in Requests \ {r} : request'[s] = request[s]
  BY <1>1
<1>3. /\ due' \in [Requests -> SUBSET Port!Kinds]
      /\ \A s \in Requests : due'[s] \subseteq due[s]
      /\ \A s \in Requests : request'[s].state = "closed" => due'[s] = {}
  BY DEF KeepDue
<1>4. TypeOK'
  BY <1>2, <1>3 DEF OthersKept, TypeOK, Objects, Frames
<1>5. \A s \in Requests :
        Sound(request'[s], held'[s], owed'[s], CallsOf(s)', AnswersOf(s)')
  <2>1. ASSUME NEW s \in Requests \ {r}
        PROVE  Sound(request'[s], held'[s], owed'[s], CallsOf(s)', AnswersOf(s)')
    BY <1>2 DEF IInv, OthersKept
  <2> QED
    BY <1>2, <2>1
<1>6. \A s \in Requests : DueIsTrue(request'[s], due'[s])
  <2>1. ASSUME NEW s \in Requests
        PROVE  DueIsTrue(request'[s], due'[s])
    <3>1. "close" \in due'[s] => "close" \in due[s] /\ request'[s].state # "closed"
      BY <1>3
    <3>2. "close" \in due[s] => request[s].peer # "open"
      BY DEF IInv, DueIsTrue
    <3>3. "close" \in due'[s] => request'[s].peer # "open"
      BY <1>2, <3>1, <3>2 DEF EndsStay
    <3> QED
      BY <1>3, <3>3 DEF DueIsTrue
  <2> QED
    BY <2>1
<1> QED
  BY <1>4, <1>5, <1>6 DEF IInv, OthersKept

(* The steps that take back nothing but what the closing of r takes back.     *)
LEMMA BecomesKeeps ==
  ASSUME IInv, NEW r \in Requests, NEW q \in Objects, Becomes(r, q),
         OthersKept(r), EndsStay(request[r], q),
         Sound(q, held'[r], owed'[r], CallsOf(r)', AnswersOf(r)')
  PROVE  IInv'
<1>1. due \in [Requests -> SUBSET Port!Kinds] /\ \A s \in Requests : due[s] \subseteq due[s]
  BY DEF IInv, TypeOK
<1> QED
  BY <1>1, StepKeeps DEF Becomes

(* The steps of the event loop, which deliver an event to r.                  *)
LEMMA DeliverKeeps ==
  ASSUME IInv, NEW r \in Requests, NEW q \in Objects, NEW k, Deliver(r, k),
         request' = [request EXCEPT ![r] = q], OthersKept(r), EndsStay(request[r], q),
         Sound(q, held'[r], owed'[r], CallsOf(r)', AnswersOf(r)')
  PROVE  IInv'
<1> DEFINE d == [due EXCEPT ![r] = @ \ {k}]
<1>1. due \in [Requests -> SUBSET Port!Kinds]
  BY DEF IInv, TypeOK
<1>2. d \in [Requests -> SUBSET Port!Kinds] /\ \A s \in Requests : d[s] \subseteq due[s]
  BY <1>1
<1>3. KeepDue(d)
  BY DEF Deliver
<1> HIDE DEF d
<1> QED
  BY <1>2, <1>3, StepKeeps

LEMMA StackKept ==
  ASSUME IInv, UNCHANGED stack
  PROVE  /\ stack' \in Seq(Frames) /\ NoReentry'
         /\ \A s \in Requests : CallsOf(s)' = CallsOf(s) /\ AnswersOf(s)' = AnswersOf(s)
BY DEF IInv, TypeOK, Frames, NoReentry, CallsOf, AnswersOf, Calls, AnsweringCalls

(* The application's references and what it owes change for r alone.          *)
LEMMA GiveUpKeeps ==
  ASSUME IInv, NEW r \in Requests, held[r] > 0, GiveUp(r)
  PROVE  /\ held' \in [Requests -> Nat] /\ owed' \in [Requests -> Nat]
         /\ is_open' \in BOOLEAN /\ accepts' \in Nat
         /\ held'[r] = held[r] - 1 /\ owed'[r] = 0
         /\ \A s \in Requests \ {r} : held'[s] = held[s] /\ owed'[s] = owed[s]
<1>1. held \in [Requests -> Nat] /\ owed \in [Requests -> Nat]
      /\ is_open \in BOOLEAN /\ accepts \in Nat
  BY DEF IInv, TypeOK
<1>2. held[r] - 1 \in Nat
  BY <1>1
<1>3. is_open' = is_open /\ accepts' = accepts
  BY DEF GiveUp
<1> QED
  BY <1>1, <1>2, <1>3 DEF GiveUp

(* What IInv says of one request.                                             *)
LEMMA RequestIs ==
  ASSUME IInv, NEW r \in Requests
  PROVE  /\ request[r] \in Objects /\ held[r] \in Nat /\ owed[r] \in Nat
         /\ CallsOf(r) \in {0, 1} /\ AnswersOf(r) \in {0, 1}
         /\ AnswersOf(r) = 1 => CallsOf(r) = 1
         /\ Sound(request[r], held[r], owed[r], CallsOf(r), AnswersOf(r))
         /\ held \in [Requests -> Nat] /\ owed \in [Requests -> Nat]
         /\ is_open \in BOOLEAN /\ accepts \in Nat
BY CallsAre DEF IInv, TypeOK, Objects

(* In the event loop no call runs; the innermost call is the only one of its  *)
(* request.                                                                   *)
LEMMA LoopIs ==
  ASSUME IInv, InLoop, NEW r \in Requests
  PROVE  CallsOf(r) = 0 /\ AnswersOf(r) = 0
BY EmptySeq DEF InLoop, CallsOf, AnswersOf, Calls, AnsweringCalls

LEMMA UpdateIs ==
  ASSUME IInv, NEW r \in Requests, InUpdate(r)
  PROVE  CallsOf(r) = 1 /\ stack # <<>>
<1>1. stack # <<>> /\ Top.request = r
  BY DEF InUpdate
<1>2. DOMAIN stack = 1..Len(stack) /\ Len(stack) \in 1..Len(stack)
  BY <1>1, StackIs DEF IInv
<1>3. Len(stack) \in Calls(r)
  BY <1>1, <1>2 DEF Calls, Top
<1> QED
  BY <1>1, <1>3 DEF CallsOf

(* Nothing but the object of r changes.                                       *)
LEMMA QuietKeeps ==
  ASSUME IInv, NEW r \in Requests, UNCHANGED <<stack, held, owed, is_open, accepts>>
  PROVE  /\ OthersKept(r)
         /\ held'[r] = held[r] /\ owed'[r] = owed[r]
         /\ CallsOf(r)' = CallsOf(r) /\ AnswersOf(r)' = AnswersOf(r)
<1>1. held' = held /\ owed' = owed /\ is_open' = is_open /\ accepts' = accepts
      /\ stack' = stack
  OBVIOUS
<1> QED
  BY <1>1, StackKept, RequestIs DEF OthersKept

-----------------------------------------------------------------------------
(* The event loop.                                                            *)

(* A look of epoll at the socket changes nothing but the edge.                *)
EdgeOnly(q, p) ==
  /\ p \in Objects
  /\ p.ref = q.ref /\ p.state = q.state /\ p.event_triggered = q.event_triggered
  /\ p.data = q.data /\ p.consumed = q.consumed /\ p.input = q.input /\ p.sent = q.sent
  /\ p.peer = q.peer /\ p.got = q.got /\ p.output = q.output

LEMMA ReportIs ==
  ASSUME IInv, Report, NEW r \in Requests
  PROVE  EdgeOnly(request[r], request'[r])
<1> DEFINE look == request[r].writing /\ ("write" \notin due'[r] \/ ~Ssl \/ ~TcpWithSsl)
<1>1. request[r] \in Objects
  BY RequestIs
<1>2. request'[r] = request[r] \/ request'[r] = [request[r] EXCEPT !.edge = look]
  BY DEF Report, Looked
<1>3. look \in BOOLEAN
  BY <1>1, ObjectIs
<1> HIDE DEF look
<1> QED
  BY <1>1, <1>2, <1>3 DEF EdgeOnly, Objects

LEMMA EdgeSound ==
  ASSUME NEW q \in Objects, NEW p, EdgeOnly(q, p),
         NEW h, NEW o, NEW c, NEW a, Sound(q, h, o, c, a)
  PROVE  Sound(p, h, o, c, a)
<1>1. (Complete(p) <=> Complete(q)) /\ (Malformed(p) <=> Malformed(q))
  BY ScriptIs DEF EdgeOnly
<1>2. Counted(p, h, c, a)
  BY DEF EdgeOnly, Sound, Counted
<1>3. CASE q.state = "closed"
  <2>1. Emptied(p)
    BY <1>3 DEF EdgeOnly, Sound, Emptied
  <2> QED
    BY <1>2, <1>3, <2>1 DEF EdgeOnly, Sound
<1>4. CASE q.state # "closed"
  <2>1. Progress(p, h, o, c)
    BY <1>1, <1>4 DEF EdgeOnly, Sound, Progress, Taken
  <2> QED
    BY <1>2, <1>4, <2>1 DEF EdgeOnly, Sound
<1> QED
  BY <1>3, <1>4

LEMMA ReportKeeps == ASSUME IInv, Report PROVE IInv'
<1>1. UNCHANGED <<stack, held, owed, is_open, accepts>>
  BY DEF Report
<1>2. due' \in [Requests -> SUBSET Port!Kinds]
  BY DEF Report, Port!Report
<1>3. TypeOK'
  <2>1. request' \in [Requests -> Objects]
    <3>1. \A r \in Requests : request'[r] \in Objects
      BY ReportIs DEF EdgeOnly
    <3>2. request' = [r \in Requests |-> request'[r]]
      BY DEF Report
    <3> QED
      BY <3>1, <3>2
  <2> QED
    BY <1>1, <1>2, <2>1 DEF IInv, TypeOK, Objects
<1>4. NoReentry' /\ \A r \in Requests : CallsOf(r)' = CallsOf(r) /\ AnswersOf(r)' = AnswersOf(r)
  BY <1>1, StackKept
<1>5. ASSUME NEW r \in Requests
      PROVE  Sound(request'[r], held'[r], owed'[r], CallsOf(r)', AnswersOf(r)')
  <2>1. held' = held /\ owed' = owed
    BY <1>1
  <2>2. Sound(request'[r], held[r], owed[r], CallsOf(r), AnswersOf(r))
    BY ReportIs, RequestIs, EdgeSound
  <2> QED
    BY <1>4, <2>1, <2>2
<1>6. ASSUME NEW r \in Requests
      PROVE  DueIsTrue(request'[r], due'[r])
  <2>1. due'[r] # {} => r \in Open /\ due'[r] \subseteq Reportable(request[r])
    BY DEF Report, Reports, Port!Report
  <2>2. "close" \in Reportable(request[r]) => request[r].peer # "open"
    BY DEF Reportable
  <2>3. due'[r] # {} => request[r].state # "closed"
    BY <2>1 DEF Open
  <2>4. request'[r].state = request[r].state /\ request'[r].peer = request[r].peer
    BY ReportIs DEF EdgeOnly
  <2> QED
    BY <2>1, <2>2, <2>3, <2>4 DEF DueIsTrue
<1> QED
  BY <1>3, <1>4, <1>5, <1>6 DEF IInv

LEMMA DueIs ==
  ASSUME IInv, NEW r \in Requests, NEW k, Deliver(r, k)
  PROVE  /\ request[r].state # "closed" /\ CallsOf(r) = 0 /\ AnswersOf(r) = 0
BY LoopIs DEF Deliver, IInv, DueIsTrue

LEMMA UpdatingIs ==
  ASSUME NEW q \in Objects
  PROVE  LET p == Updating(q) IN
         /\ p \in Objects
         /\ p.ref = q.ref + 1 /\ p.event_triggered = TRUE /\ p.data = q.consumed
         /\ p.state = "read" /\ p.input = q.input /\ p.sent = q.sent /\ p.peer = q.peer
         /\ p.got = q.got /\ p.output = q.output
<1> DEFINE p == Updating(q)
<1>1. p = [q EXCEPT !.ref = q.ref + 1, !.event_triggered = TRUE,
                    !.data = q.consumed, !.state = "read"]
  BY DEF Updating, server_hold
<1>2. q.ref + 1 \in Nat /\ q.consumed \in Nat
  BY ObjectIs
<1> HIDE DEF p
<1>3. p \in Objects
  BY <1>1, <1>2 DEF Objects
<1>4. /\ p.ref = q.ref + 1 /\ p.event_triggered = TRUE /\ p.data = q.consumed
      /\ p.state = "read" /\ p.input = q.input /\ p.sent = q.sent /\ p.peer = q.peer
      /\ p.got = q.got /\ p.output = q.output
  BY <1>1 DEF Objects
<1> QED
  BY <1>3, <1>4 DEF p

(* A call begins for a request that has answered all it was handed.           *)
LEMMA UpdatingSound ==
  ASSUME NEW q \in Objects, NEW h \in Nat, NEW a \in {0, 1}, q.ref = 1 + h + a,
         q.data = q.consumed, Taken(q), Len(q.got) + Len(q.output) = q.data \div 2
  PROVE  /\ Updating(q) \in Objects /\ Updating(q).peer = q.peer
         /\ Sound(Updating(q), h, 0, 1, a)
<1> DEFINE p == Updating(q)
<1>1. p \in Objects
  BY UpdatingIs
<1>2. /\ p.ref = q.ref + 1 /\ p.event_triggered = TRUE /\ p.data = q.consumed
      /\ p.state = "read" /\ p.input = q.input /\ p.sent = q.sent /\ p.peer = q.peer
      /\ p.got = q.got /\ p.output = q.output
  BY UpdatingIs
<1> HIDE DEF p
<1>3. Counted(p, h, 1, a)
  BY <1>2 DEF Counted
<1>4. Taken(p)
  BY <1>2 DEF Taken
<1>5. Len(p.got) + Len(p.output) = p.data \div 2
  BY <1>2, Zenon
<1>6. p.state = "read" /\ 1 # 0
  BY <1>2
<1>7. Progress(p, h, 0, 1)
  BY <1>4, <1>5, <1>6, Zenon DEF Progress
<1> QED
  BY <1>1, <1>2, <1>3, <1>7 DEF Sound, p

LEMMA ReadKeeps == ASSUME IInv, NEW r \in Requests, stream_read(r) PROVE IInv'
<1> DEFINE q == [request[r] EXCEPT !.input = request[r].sent]
           update == q.input > request[r].input /\ Updates(q)
<1>1. /\ Deliver(r, "read") /\ UNCHANGED <<held, owed, is_open, accepts>>
      /\ request' = [request EXCEPT ![r] = IF update THEN Updating(q) ELSE q]
      /\ stack' = IF update THEN Append(stack, Call(r, FALSE)) ELSE stack
  BY DEF stream_read
<1>2. /\ request[r] \in Objects /\ request[r].state # "closed"
      /\ CallsOf(r) = 0 /\ AnswersOf(r) = 0 /\ held[r] \in Nat
      /\ Sound(request[r], held[r], owed[r], 0, 0)
  BY <1>1, DueIs, RequestIs
<1>3. q \in Objects
  BY <1>2 DEF Objects
<1>4. /\ q.ref = request[r].ref /\ q.event_triggered = request[r].event_triggered
      /\ q.data = request[r].data /\ q.consumed = request[r].consumed
      /\ q.input = request[r].sent /\ q.sent = request[r].sent
      /\ q.state = request[r].state /\ q.peer = request[r].peer
      /\ q.got = request[r].got /\ q.output = request[r].output
  BY <1>2 DEF Objects
<1> HIDE DEF q
<1>7. Taken(q)
  BY <1>2, <1>3, <1>4, ObjectIs DEF Sound, Progress, Taken
<1>5. CASE ~update
  <2>1. Counted(q, held[r], 0, 0)
    BY <1>2, <1>4 DEF Sound, Counted
  <2>2. q.state = "need_more_data" => ~Complete(q) /\ ~Malformed(q)
    <3>1. CASE q.input > request[r].input
      <4>1. q.state = "need_more_data" => q.input <= q.consumed /\ q.consumed = q.data
        BY <1>2, <1>3, <1>4, <1>5, <3>1, ObjectIs DEF Updates, Sound, Progress
      <4> QED
        BY <1>3, <4>1, ObjectIs DEF Complete, Malformed, Unread
    <3>2. CASE ~(q.input > request[r].input)
      <4>1. q.input = request[r].input
        BY <1>2, <1>4, <3>2, ObjectIs DEF Sound, Progress, Taken
      <4>2. (Complete(q) <=> Complete(request[r])) /\ (Malformed(q) <=> Malformed(request[r]))
        BY <1>2, <1>3, <1>4, <4>1, ScriptIs
      <4> QED
        BY <1>2, <1>4, <4>2 DEF Sound, Progress
    <3> QED
      BY <3>1, <3>2
  <2>3. Progress(q, held[r], owed[r], 0)
    BY <1>2, <1>4, <1>7, <2>2 DEF Sound, Progress
  <2>4. Sound(q, held[r], owed[r], 0, 0)
    BY <1>2, <1>4, <2>1, <2>3 DEF Sound
  <2>5. request' = [request EXCEPT ![r] = q] /\ EndsStay(request[r], q)
    BY <1>1, <1>4, <1>5 DEF EndsStay
  <2>6. UNCHANGED <<stack, held, owed, is_open, accepts>>
    BY <1>1, <1>5
  <2>7. OthersKept(r) /\ Sound(q, held'[r], owed'[r], CallsOf(r)', AnswersOf(r)')
    BY <1>2, <2>4, <2>6, QuietKeeps
  <2> QED
    BY <1>1, <1>3, <2>5, <2>7, DeliverKeeps
<1>6. CASE update
  <2>1. q.state = "need_more_data" /\ owed[r] = 0
    BY <1>2, <1>4, <1>6 DEF Updates, Sound, Progress
  <2>2. q.ref = 1 + held[r] + 0
    BY <1>2, <1>4 DEF Sound, Counted
  <2>3. q.data = q.consumed /\ Len(q.got) + Len(q.output) = q.data \div 2
    BY <1>2, <1>4, <2>1 DEF Sound, Progress
  <2>5. Updating(q) \in Objects /\ Updating(q).peer = q.peer
        /\ Sound(Updating(q), held[r], owed[r], 1, 0)
    BY <1>2, <1>3, <1>7, <2>1, <2>2, <2>3, UpdatingSound
  <2>6. stack' = Append(stack, Call(r, FALSE))
    BY <1>1, <1>6
  <2>7. /\ stack' \in Seq(Frames) /\ NoReentry'
        /\ CallsOf(r)' = 1 /\ AnswersOf(r)' = 0
        /\ \A s \in Requests \ {r} :
             CallsOf(s)' = CallsOf(s) /\ AnswersOf(s)' = AnswersOf(s)
    BY <1>2, <2>6, PushKeeps DEF IInv
  <2>8. /\ OthersKept(r)
        /\ Sound(Updating(q), held'[r], owed'[r], CallsOf(r)', AnswersOf(r)')
    <3>1. held' = held /\ owed' = owed /\ is_open' = is_open /\ accepts' = accepts
      BY <1>1
    <3> QED
      BY <2>5, <2>7, <3>1, RequestIs DEF OthersKept
  <2>9. /\ request' = [request EXCEPT ![r] = Updating(q)]
        /\ EndsStay(request[r], Updating(q))
    BY <1>1, <1>4, <1>6, <2>5 DEF EndsStay
  <2> QED
    BY <1>1, <2>5, <2>8, <2>9, DeliverKeeps
<1> QED
  BY <1>5, <1>6

LEMMA WriteKeeps == ASSUME IInv, NEW r \in Requests, stream_write(r) PROVE IInv'
<1>1. /\ Deliver(r, "write") /\ UNCHANGED <<stack, held, owed, is_open, accepts>>
  BY DEF stream_write
<1>2. PICK q \in stream_flush(request[r]) :
        request' = [request EXCEPT
                      ![r] = IF q.output = <<>> /\ ~Ssl THEN server_close(q) ELSE q]
  BY DEF stream_write
<1>3. /\ request[r] \in Objects /\ request[r].state # "closed"
      /\ CallsOf(r) = 0 /\ AnswersOf(r) = 0 /\ held[r] \in Nat
      /\ Sound(request[r], held[r], owed[r], 0, 0)
  BY <1>1, DueIs, RequestIs
<1>4. Flushed(request[r], q)
  BY <1>2, <1>3, FlushKeeps
<1>5. q \in Objects /\ Sound(q, held[r], owed[r], 0, 0)
  BY <1>3, <1>4, FlushSound
<1>6. server_close(q) \in Objects /\ Sound(server_close(q), held[r], owed[r], 0, 0)
  BY <1>3, <1>5, CloseSound
<1>7. /\ OthersKept(r) /\ held'[r] = held[r] /\ owed'[r] = owed[r]
      /\ CallsOf(r)' = 0 /\ AnswersOf(r)' = 0
  BY <1>1, <1>3, QuietKeeps
<1>8. CASE q.output = <<>> /\ ~Ssl
  <2>1. request' = [request EXCEPT ![r] = server_close(q)]
    BY <1>2, <1>8
  <2>2. EndsStay(request[r], server_close(q))
    BY <1>3, <1>4, <1>5, ClosedIs DEF EndsStay, Flushed
  <2> QED
    BY <1>1, <1>6, <1>7, <2>1, <2>2, DeliverKeeps
<1>9. CASE ~(q.output = <<>> /\ ~Ssl)
  <2>1. request' = [request EXCEPT ![r] = q] /\ EndsStay(request[r], q)
    BY <1>2, <1>4, <1>9 DEF EndsStay, Flushed
  <2> QED
    BY <1>1, <1>5, <1>7, <2>1, DeliverKeeps
<1> QED
  BY <1>8, <1>9

LEMMA HangupKeeps == ASSUME IInv, NEW r \in Requests, stream_hangup(r) PROVE IInv'
<1> DEFINE q == server_close(request[r])
<1>1. /\ Deliver(r, "close") /\ UNCHANGED <<stack, held, owed, is_open, accepts>>
      /\ request' = [request EXCEPT ![r] = q]
  BY DEF stream_hangup
<1>2. q \in Objects /\ Sound(q, held[r], owed[r], CallsOf(r), AnswersOf(r))
      /\ EndsStay(request[r], q)
  <2>1. request[r] \in Objects /\ held[r] \in Nat /\ CallsOf(r) \in {0, 1}
        /\ AnswersOf(r) \in Nat
        /\ Sound(request[r], held[r], owed[r], CallsOf(r), AnswersOf(r))
    BY RequestIs
  <2>2. q.state = "closed"
    BY <2>1, ClosedIs
  <2> QED
    BY <2>1, <2>2, CloseSound DEF EndsStay
<1>3. OthersKept(r) /\ Sound(q, held'[r], owed'[r], CallsOf(r)', AnswersOf(r)')
  BY <1>1, <1>2, QuietKeeps
<1> HIDE DEF q
<1> QED
  BY <1>1, <1>2, <1>3, DeliverKeeps

-----------------------------------------------------------------------------
(* The loop of server_request_update.                                         *)

LEMMA NeedMoreDataKeeps == ASSUME IInv, NEW r \in Requests, NeedMoreData(r) PROVE IInv'
<1> DEFINE q == [request[r] EXCEPT !.state = "need_more_data"]
<1>1. /\ UNCHANGED <<stack, held, owed, is_open, accepts>> /\ Becomes(r, q)
      /\ request[r].state = "read" /\ InUpdate(r)
      /\ ~Malformed(request[r]) /\ ~Complete(request[r])
  BY DEF NeedMoreData, Reads
<1>2. /\ request[r] \in Objects /\ CallsOf(r) = 1 /\ AnswersOf(r) \in {0, 1}
      /\ Sound(request[r], held[r], owed[r], 1, AnswersOf(r))
  BY <1>1, UpdateIs, RequestIs
<1>3. q \in Objects
  BY <1>2 DEF Objects
<1>4. /\ q.ref = request[r].ref /\ q.event_triggered = request[r].event_triggered
      /\ q.data = request[r].data /\ q.input = request[r].input
      /\ q.sent = request[r].sent /\ q.state = "need_more_data"
      /\ q.peer = request[r].peer /\ q.got = request[r].got
      /\ q.output = request[r].output
  BY <1>2 DEF Objects
<1> HIDE DEF q
<1>5. ~Complete(q) /\ ~Malformed(q)
  BY <1>1, <1>2, <1>3, <1>4, ScriptIs
<1>6. Counted(q, held[r], 1, AnswersOf(r))
  BY <1>1, <1>2, <1>4 DEF Sound, Counted
<1>7. Progress(q, held[r], owed[r], 1)
  <2>1. Taken(q)
    BY <1>1, <1>2, <1>4 DEF Sound, Progress, Taken
  <2>2. Len(q.got) + Len(q.output) = q.data \div 2 /\ owed[r] = 0
    BY <1>1, <1>2, <1>4 DEF Sound, Progress
  <2>3. 1 # 0
    OBVIOUS
  <2> QED
    BY <1>4, <1>5, <2>1, <2>2, <2>3, Zenon DEF Progress
<1>8. Sound(q, held[r], owed[r], 1, AnswersOf(r)) /\ EndsStay(request[r], q)
  BY <1>4, <1>6, <1>7 DEF Sound, EndsStay
<1>9. OthersKept(r) /\ Sound(q, held'[r], owed'[r], CallsOf(r)', AnswersOf(r)')
  BY <1>1, <1>2, <1>8, QuietKeeps
<1> QED
  BY <1>1, <1>3, <1>8, <1>9, BecomesKeeps

LEMMA ReadMalformedKeeps == ASSUME IInv, NEW r \in Requests, ReadMalformed(r) PROVE IInv'
<1> DEFINE s == [request[r] EXCEPT !.state = "handling"]
           q == server_hold(s)
<1>1. /\ UNCHANGED <<stack, held, owed, is_open, accepts>>
      /\ request[r].state = "read" /\ InUpdate(r)
  BY DEF ReadMalformed, Reads
<1>2. PICK p \in BadRequest(q) : Becomes(r, p)
  BY DEF ReadMalformed
<1>3. /\ request[r] \in Objects /\ CallsOf(r) = 1 /\ AnswersOf(r) \in {0, 1}
      /\ held[r] \in Nat /\ Sound(request[r], held[r], owed[r], 1, AnswersOf(r))
  BY <1>1, UpdateIs, RequestIs
<1>4. /\ request[r].ref = 1 + held[r] + 1 + AnswersOf(r)
      /\ request[r].event_triggered = TRUE
  BY <1>1, <1>3, ObjectIs DEF Sound, Counted
<1>5. /\ q \in Objects /\ q.state = "handling" /\ q.ref = request[r].ref + 1
      /\ q.event_triggered = TRUE
  <2>1. s \in Objects
    BY <1>3 DEF Objects
  <2>2. s.state = "handling" /\ s.ref = request[r].ref /\ s.event_triggered = TRUE
    BY <1>3, <1>4 DEF Objects
  <2> HIDE DEF s
  <2>3. q = [s EXCEPT !.ref = s.ref + 1] /\ q \in Objects
    BY <2>1, HoldIs
  <2> QED
    BY <2>1, <2>2, <2>3 DEF Objects
<1> HIDE DEF q
<1>6. /\ p \in Objects /\ p.state = "closed" /\ Emptied(p) /\ p.ref = q.ref - 2
      /\ p.event_triggered <=> q.event_triggered /\ q.ref > 2
  <2>1. q.ref > 1
    BY <1>3, <1>4, <1>5
  <2> QED
    BY <1>2, <1>5, <2>1, BadRequestIs
<1>7. p.ref = held[r] + 1 + AnswersOf(r) /\ q.ref > 2
  BY <1>3, <1>4, <1>5, <1>6
<1>8. Counted(p, held[r], 1, AnswersOf(r))
  BY <1>3, <1>5, <1>6, <1>7 DEF Counted
<1>9. Sound(p, held[r], owed[r], 1, AnswersOf(r)) /\ EndsStay(request[r], p)
  BY <1>6, <1>8 DEF Sound, EndsStay
<1>10. OthersKept(r) /\ Sound(p, held'[r], owed'[r], CallsOf(r)', AnswersOf(r)')
  BY <1>1, <1>3, <1>9, QuietKeeps
<1> QED
  BY <1>2, <1>6, <1>9, <1>10, BecomesKeeps

LEMMA ReadRequestKeeps == ASSUME IInv, NEW r \in Requests, ReadRequest(r) PROVE IInv'
<1> DEFINE o == request[r]
           q == [server_hold(o) EXCEPT !.state = "handling", !.data = @ + 2]
<1>1. /\ Becomes(r, q) /\ o.state = "read" /\ InUpdate(r) /\ Complete(o)
      /\ stack' = [stack EXCEPT ![Len(stack)].handler = TRUE]
      /\ held' = [held EXCEPT ![r] = @ + 1]
      /\ owed' = [owed EXCEPT ![r] = Message(o)]
      /\ is_open' = is_open /\ accepts' = accepts
  BY DEF ReadRequest, Reads
<1>2. /\ o \in Objects /\ CallsOf(r) = 1 /\ AnswersOf(r) \in {0, 1}
      /\ held[r] \in Nat /\ Sound(o, held[r], owed[r], 1, AnswersOf(r)) /\ stack # <<>>
  BY <1>1, UpdateIs, RequestIs
<1> HIDE DEF o
<1>3. /\ o.ref = 1 + held[r] + 1 + AnswersOf(r) /\ o.event_triggered = TRUE
      /\ Taken(o) /\ Len(o.got) + Len(o.output) = o.data \div 2
  BY <1>1, <1>2, ObjectIs DEF Sound, Counted, Progress
<1>4. o.data + 2 <= o.input
  BY <1>1, <1>2, ObjectIs DEF Complete, Unread
<1>5. q = [o EXCEPT !.ref = o.ref + 1, !.state = "handling", !.data = o.data + 2]
  BY <1>2 DEF server_hold, Objects
<1> HIDE DEF q
<1>6. q \in Objects
  <2>1. o.ref + 1 \in Nat /\ o.data + 2 \in Nat
    BY <1>2, ObjectIs
  <2> QED
    BY <1>2, <1>5, <2>1 DEF Objects
<1>7. /\ q.ref = o.ref + 1 /\ q.event_triggered = o.event_triggered
      /\ q.data = o.data + 2 /\ q.input = o.input /\ q.sent = o.sent
      /\ q.state = "handling" /\ q.peer = o.peer /\ q.got = o.got /\ q.output = o.output
  BY <1>2, <1>5 DEF Objects
<1>8. o.data \in Nat /\ o.data \div 2 \in Nat /\ q.data \div 2 = o.data \div 2 + 1
  BY <1>2, <1>7, ObjectIs, HalfIs
<1>9. /\ stack' \in Seq(Frames) /\ NoReentry'
      /\ \A s \in Requests : CallsOf(s)' = CallsOf(s) /\ AnswersOf(s)' = AnswersOf(s)
  BY <1>1, <1>2, FlagKeeps DEF IInv
<1>10. /\ held' \in [Requests -> Nat] /\ held'[r] = held[r] + 1
       /\ owed' \in [Requests -> Nat] /\ owed'[r] = q.data \div 2 /\ owed'[r] > 0
       /\ \A s \in Requests \ {r} : held'[s] = held[s] /\ owed'[s] = owed[s]
  <2>1. held \in [Requests -> Nat] /\ owed \in [Requests -> Nat] /\ held[r] + 1 \in Nat
    BY <1>2, RequestIs
  <2>2. Message(o) = q.data \div 2 /\ Message(o) \in Nat /\ Message(o) > 0
    BY <1>8 DEF Message
  <2> QED
    BY <1>1, <2>1, <2>2
<1>11. Counted(q, held'[r], 1, AnswersOf(r))
  BY <1>2, <1>3, <1>7, <1>10 DEF Counted
<1>12. Progress(q, held'[r], owed'[r], 1)
  <2>1. Taken(q)
    BY <1>2, <1>3, <1>4, <1>7, <1>8, HalfIs, ObjectIs DEF Taken
  <2>2. Len(q.got) + Len(q.output) + 1 = q.data \div 2
    BY <1>3, <1>7, <1>8
  <2>3. 1 # 0 /\ held'[r] > 0
    BY <1>2, <1>10
  <2> QED
    BY <1>7, <1>10, <2>1, <2>2, <2>3, Zenon DEF Progress
<1>13. Sound(q, held'[r], owed'[r], CallsOf(r)', AnswersOf(r)') /\ EndsStay(o, q)
  BY <1>2, <1>7, <1>9, <1>11, <1>12 DEF Sound, EndsStay
<1>14. OthersKept(r)
  BY <1>1, <1>9, <1>10, RequestIs DEF OthersKept
<1> QED
  BY <1>1, <1>6, <1>13, <1>14, BecomesKeeps DEF o

LEMMA ReturnKeeps == ASSUME IInv, Return PROVE IInv'
<1>1. /\ stack # <<>> /\ stack' = [stack EXCEPT ![Len(stack)].handler = FALSE]
      /\ request' = request /\ due' = due /\ held' = held /\ owed' = owed
      /\ is_open' = is_open /\ accepts' = accepts
  BY DEF Return, InHandler
<1>2. /\ stack' \in Seq(Frames) /\ NoReentry'
      /\ \A s \in Requests : CallsOf(s)' = CallsOf(s) /\ AnswersOf(s)' = AnswersOf(s)
  BY <1>1, FlagKeeps DEF IInv
<1>3. TypeOK'
  BY <1>1, <1>2 DEF IInv, TypeOK, Frames
<1>4. \A r \in Requests :
        Sound(request'[r], held'[r], owed'[r], CallsOf(r)', AnswersOf(r)')
  BY <1>1, <1>2, RequestIs
<1>5. \A r \in Requests : DueIsTrue(request'[r], due'[r])
  BY <1>1 DEF IInv
<1> QED
  BY <1>2, <1>3, <1>4, <1>5 DEF IInv

(* The end of a call: the references it had are given up.                     *)
Consumed(q) == [q EXCEPT !.consumed = q.data]
Ended(q) == server_release([q EXCEPT !.event_triggered = FALSE])
Left(q, a) == IF a = 1 THEN server_release(Ended(q)) ELSE Ended(q)

LEMMA EndOfClosed ==
  ASSUME NEW q \in Objects, NEW h \in Nat, NEW o, NEW a \in {0, 1}, q.state = "closed",
         Sound(q, h, o, 1, a)
  PROVE  /\ Left(q, a) \in Objects /\ Left(q, a).state = "closed"
         /\ Sound(Left(q, a), h, o, 0, 0)
<1> DEFINE f == [q EXCEPT !.event_triggered = FALSE]
           e == Ended(q)
           p == Left(q, a)
<1>1. q.ref = h + 1 + a /\ Emptied(q)
  BY DEF Sound, Counted
<1>2. f \in Objects
  BY DEF Objects
<1>3. /\ f.ref = q.ref /\ f.event_triggered = FALSE /\ f.state = "closed"
      /\ Emptied(f)
  BY <1>1 DEF Objects, Emptied
<1> HIDE DEF f
<1>4. f.ref > 0
  BY <1>1, <1>3
<1>5. Remains(f, e)
  BY <1>2, <1>3, <1>4, ReleaseClosedIs DEF f, Ended
<1> HIDE DEF e, p
<1>6. /\ e \in Objects /\ e.state = "closed" /\ Emptied(e) /\ e.ref = h + a
      /\ ~e.event_triggered
  BY <1>1, <1>3, <1>5 DEF Remains
<1>7. /\ p \in Objects /\ p.state = "closed" /\ Emptied(p) /\ p.ref = h
      /\ ~p.event_triggered
  <2>1. CASE a = 1
    <3>1. p = server_release(e) /\ e.ref > 0
      BY <1>6, <2>1 DEF p, e, Left
    <3>2. Remains(e, p)
      BY <1>6, <3>1, ReleaseClosedIs
    <3> QED
      BY <1>6, <2>1, <3>2 DEF Remains
  <2>2. CASE a # 1
    BY <1>6, <2>2 DEF p, e, Left
  <2> QED
    BY <2>1, <2>2
<1>8. Counted(p, h, 0, 0)
  BY <1>7 DEF Counted
<1> QED
  BY <1>7, <1>8 DEF Sound, p

LEMMA EndOfOpen ==
  ASSUME NEW q \in Objects, NEW h \in Nat, NEW o, NEW a \in {0, 1},
         q.state # "closed", q.state # "read", Sound(q, h, o, 1, a),
         NEW f \in stream_flush(Consumed(q))
  PROVE  LET p == Left(f, a) IN
         /\ p \in Objects /\ p.peer = q.peer /\ p.state # "closed" /\ Sound(p, h, o, 0, 0)
         /\ p.data = q.data /\ p.sent = q.sent /\ Len(p.got) >= Len(q.got)
         /\ p.got \o p.output = q.got \o q.output
<1> DEFINE g == Consumed(q)
           e == Ended(f)
           p == Left(f, a)
<1>1. g \in Objects
  BY ObjectIs DEF Objects, Consumed
<1>2. /\ g.ref = q.ref /\ g.event_triggered = q.event_triggered /\ g.consumed = q.data
      /\ g.data = q.data /\ g.input = q.input /\ g.sent = q.sent /\ g.state = q.state
      /\ g.peer = q.peer /\ g.got = q.got /\ g.output = q.output
  BY DEF Objects, Consumed
<1> HIDE DEF g, e, p
<1>3. Sound(g, h, o, 1, a)
  <2>1. (Complete(g) <=> Complete(q)) /\ (Malformed(g) <=> Malformed(q))
    BY <1>1, <1>2, ScriptIs
  <2>2. Counted(g, h, 1, a)
    BY <1>2 DEF Sound, Counted
  <2>3. Progress(g, h, o, 1)
    BY <1>2, <2>1, Zenon DEF Sound, Progress, Taken
  <2> QED
    BY <1>2, <2>2, <2>3 DEF Sound
<1>4. Flushed(g, f)
  BY <1>1, FlushKeeps DEF g
<1>5. /\ f \in Objects /\ Sound(f, h, o, 1, a) /\ f.state # "closed" /\ f.state # "read"
      /\ f.peer = q.peer /\ f.data = f.consumed
  BY <1>1, <1>2, <1>3, <1>4, FlushSound DEF Flushed
<1>6. f.ref = 1 + h + 1 + a
  BY <1>5 DEF Sound, Counted
<1> DEFINE m == [f EXCEPT !.event_triggered = FALSE]
<1>7. m \in Objects
  BY <1>5 DEF Objects
<1>8. m.ref = f.ref /\ e = server_release(m)
  BY <1>5 DEF Objects, e, Ended
<1>9. m.ref > 1
  BY <1>6, <1>8
<1>10. e = [m EXCEPT !.ref = m.ref - 1] /\ e \in Objects
  BY <1>7, <1>8, <1>9, ReleaseIs
<1>11. p = [f EXCEPT !.event_triggered = FALSE, !.ref = 1 + h] /\ p \in Objects
  <2>1. e = [f EXCEPT !.event_triggered = FALSE, !.ref = 1 + h + a]
    <3>1. f.ref - 1 = 1 + h + a
      BY <1>6
    <3> QED
      BY <1>5, <1>8, <1>10, <3>1 DEF Objects
  <2>2. CASE a = 1
    <3>1. p = server_release(e) /\ e.ref = 1 + h + 1
      BY <1>5, <2>1, <2>2 DEF Objects, p, e, Left
    <3>2. e.ref > 1 /\ e.ref - 1 = 1 + h /\ e \in Objects
      BY <1>10, <3>1
    <3>3. p = [e EXCEPT !.ref = 1 + h]
      BY <3>1, <3>2, ReleaseIs
    <3>4. p \in Objects
      BY <3>1, <3>2, ReleaseIs
    <3>5. p = [f EXCEPT !.event_triggered = FALSE, !.ref = 1 + h]
      BY <1>5, <2>1, <3>3 DEF Objects
    <3> QED
      BY <3>4, <3>5
  <2>3. CASE a # 1
    <3>1. 1 + h + a = 1 + h
      BY <2>3
    <3> QED
      BY <1>10, <2>1, <2>3, <3>1 DEF p, e, Left
  <2> QED
    BY <2>2, <2>3
<1>12. /\ p.ref = 1 + h /\ ~p.event_triggered /\ p.data = f.data /\ p.consumed = f.consumed
       /\ p.input = f.input /\ p.sent = f.sent /\ p.state = f.state
       /\ p.peer = q.peer /\ p.got = f.got /\ p.output = f.output
  BY <1>5, <1>11 DEF Objects
<1>13. Counted(p, h, 0, 0)
  BY <1>5, <1>12 DEF Counted
<1>14. Progress(p, h, o, 0)
  <2>1. (Complete(p) <=> Complete(f)) /\ (Malformed(p) <=> Malformed(f))
    BY <1>5, <1>11, <1>12, ScriptIs
  <2>2. p.data = p.consumed /\ p.state # "read"
    BY <1>5, <1>12
  <2>3. Progress(f, h, o, 1)
    BY <1>5 DEF Sound
  <2> QED
    BY <1>12, <2>1, <2>2, <2>3, Zenon DEF Progress, Taken
<1>15. /\ p.data = q.data /\ p.sent = q.sent /\ Len(p.got) >= Len(q.got)
       /\ p.got \o p.output = q.got \o q.output
  BY <1>2, <1>4, <1>12 DEF Flushed
<1> QED
  BY <1>5, <1>11, <1>12, <1>13, <1>14, <1>15 DEF Sound, p

LEMMA UpdateReturnsKeeps == ASSUME IInv, NEW r \in Requests, UpdateReturns(r) PROVE IInv'
<1> DEFINE o == request[r]
           a == AnswersOf(r)
<1>1. /\ InUpdate(r) /\ o.state # "read" /\ stack' = Pop
      /\ held' = held /\ owed' = owed /\ is_open' = is_open /\ accepts' = accepts
  BY DEF UpdateReturns
<1>2. PICK q \in IF o.state = "closed" THEN {o}
                 ELSE stream_flush(Consumed(o)) :
        Becomes(r, IF Top.answered THEN server_release(Ended(q)) ELSE Ended(q))
  BY DEF UpdateReturns, Consumed, Ended
<1>3. /\ o \in Objects /\ CallsOf(r) = 1 /\ a \in {0, 1} /\ held[r] \in Nat
      /\ Sound(o, held[r], owed[r], 1, a) /\ stack # <<>> /\ Top.request = r
  BY <1>1, UpdateIs, RequestIs DEF InUpdate
<1>4. /\ stack' \in Seq(Frames) /\ NoReentry' /\ a = (IF Top.answered THEN 1 ELSE 0)
      /\ CallsOf(r)' = 0 /\ AnswersOf(r)' = 0
      /\ \A s \in Requests \ {r} :
           CallsOf(s)' = CallsOf(s) /\ AnswersOf(s)' = AnswersOf(s)
  BY <1>1, <1>3, PopKeeps DEF IInv
<1> DEFINE p == Left(q, a)
<1>5. Top.answered <=> a = 1
  BY <1>4
<1>6. Becomes(r, p)
  BY <1>2, <1>5 DEF Left
<1> HIDE DEF o, a, p
<1>7. p \in Objects /\ EndsStay(o, p) /\ Sound(p, held[r], owed[r], 0, 0)
  <2>1. CASE o.state = "closed"
    <3>1. q = o
      BY <1>2, <2>1
    <3> QED
      BY <1>3, <2>1, <3>1, EndOfClosed DEF EndsStay, p
  <2>2. CASE o.state # "closed"
    <3>1. q \in stream_flush(Consumed(o))
      BY <1>2, <2>2
    <3>2. p \in Objects /\ p.peer = o.peer /\ Sound(p, held[r], owed[r], 0, 0)
      BY <1>1, <1>3, <2>2, <3>1, EndOfOpen DEF p
    <3> QED
      BY <3>2 DEF EndsStay
  <2> QED
    BY <2>1, <2>2
<1>8. OthersKept(r) /\ Sound(p, held'[r], owed'[r], CallsOf(r)', AnswersOf(r)')
  BY <1>1, <1>4, <1>7, RequestIs DEF OthersKept
<1> QED
  BY <1>6, <1>7, <1>8, BecomesKeeps DEF o

-----------------------------------------------------------------------------
(* What the application calls.                                                *)

(* A request that may be answered, on an open connection, is the one in hand. *)
LEMMA AnswerableIs ==
  ASSUME IInv, NEW r \in Requests, MayAnswer(r), request[r].state # "closed"
  PROVE  /\ held[r] > 0 /\ request[r].state = "handling"
         /\ request[r].ref = 1 + held[r] + CallsOf(r) + AnswersOf(r)
         /\ owed[r] = request[r].data \div 2 /\ owed[r] > 0 /\ Taken(request[r])
         /\ Len(request[r].got) + Len(request[r].output) + 1 = request[r].data \div 2
         /\ CallsOf(r) = 0 => request[r].data = request[r].consumed
<1>1. held[r] > 0 /\ owed[r] > 0 /\ owed[r] # 0
  BY RequestIs DEF MayAnswer
<1>2. Sound(request[r], held[r], owed[r], CallsOf(r), AnswersOf(r)) /\ owed[r] \in Nat
  BY RequestIs
<1>3. request[r].state = "handling"
  BY <1>1, <1>2 DEF Sound, Progress
<1> QED
  BY <1>1, <1>2, <1>3 DEF Sound, Counted, Progress

(* The answer is written and the state becomes s.                             *)
Answered(q, m, s) == [http_write_response(q, m) EXCEPT !.state = s]

LEMMA AnsweredIs ==
  ASSUME NEW q \in Objects, NEW m \in Nat, NEW s \in {"need_more_data", "read"}
  PROVE  LET p == Answered(q, m, s) IN
         /\ p \in Objects /\ p.ref = q.ref /\ p.event_triggered = q.event_triggered
         /\ p.data = q.data /\ p.consumed = q.consumed /\ p.input = q.input
         /\ p.sent = q.sent /\ p.peer = q.peer /\ p.state = s
         /\ p.got = q.got /\ p.output = Append(q.output, m)
         /\ Len(p.got) + Len(p.output) = Len(q.got) + Len(q.output) + 1
<1> DEFINE p == Answered(q, m, s)
<1>1. /\ Append(q.output, m) \in Seq(Nat)
      /\ Len(Append(q.output, m)) = Len(q.output) + 1
      /\ http_write_response(q, m) = [q EXCEPT !.output = Append(q.output, m)]
  BY WriteIs
<1>2. p = [q EXCEPT !.output = Append(q.output, m), !.state = s]
  BY <1>1 DEF Objects, Answered
<1> HIDE DEF p
<1>3. p \in Objects
  BY <1>1, <1>2 DEF Objects
<1>4. /\ p.ref = q.ref /\ p.event_triggered = q.event_triggered
      /\ p.data = q.data /\ p.consumed = q.consumed /\ p.input = q.input
      /\ p.sent = q.sent /\ p.peer = q.peer /\ p.state = s
      /\ p.got = q.got /\ p.output = Append(q.output, m)
  BY <1>2 DEF Objects
<1>5. Len(p.got) + Len(p.output) = Len(q.got) + Len(q.output) + 1
  <2> DEFINE x == Len(q.got)
             y == Len(q.output)
  <2>1. x \in Nat /\ y \in Nat /\ Len(p.got) = x /\ Len(p.output) = y + 1
    BY <1>1, <1>4, ObjectIs
  <2> HIDE DEF x, y
  <2>2. Len(p.got) + Len(p.output) = x + y + 1
    BY <2>1
  <2> QED
    BY <2>2 DEF x, y
<1> QED
  BY <1>3, <1>4, <1>5 DEF p

LEMMA RespondClosedKeeps ==
  ASSUME IInv, NEW r \in Requests, held[r] > 0, request[r].state = "closed",
         Becomes(r, server_release(request[r])), UNCHANGED stack, GiveUp(r)
  PROVE  IInv'
<1> DEFINE q == server_release(request[r])
<1>1. request[r] \in Objects /\ held[r] \in Nat \ {0} /\ CallsOf(r) \in {0, 1}
      /\ AnswersOf(r) \in Nat
      /\ Sound(request[r], held[r], owed[r], CallsOf(r), AnswersOf(r))
  BY RequestIs
<1>2. q \in Objects /\ Sound(q, held[r] - 1, 0, CallsOf(r), AnswersOf(r))
  BY <1>1, GiveUpSound
<1>3. q.state = "closed"
  BY <1>1, ReleaseClosedIs DEF Remains, Sound, Counted
<1>4. EndsStay(request[r], q)
  BY <1>3 DEF EndsStay
<1> HIDE DEF q
<1>5. OthersKept(r) /\ Sound(q, held'[r], owed'[r], CallsOf(r)', AnswersOf(r)')
  BY <1>2, GiveUpKeeps, StackKept DEF OthersKept
<1> QED
  BY <1>2, <1>4, <1>5, BecomesKeeps DEF q

LEMMA RespondAtOnceKeeps ==
  ASSUME IInv, NEW r \in Requests, MayAnswer(r), RespondAtOnce(r), GiveUp(r)
  PROVE  IInv'
<1> DEFINE o == request[r]
           p == Answered(o, owed[r], "read")
           q == server_release(p)
<1>1. o.state # "closed" /\ o.event_triggered /\ Becomes(r, q) /\ UNCHANGED stack
  BY DEF RespondAtOnce, Answered
<1>2. /\ o \in Objects /\ held[r] \in Nat /\ owed[r] \in Nat /\ CallsOf(r) = 1
      /\ AnswersOf(r) \in {0, 1}
  BY <1>1, RequestIs DEF Sound, Counted
<1>3. /\ held[r] > 0 /\ o.ref = 1 + held[r] + 1 + AnswersOf(r) /\ Taken(o)
      /\ Len(o.got) + Len(o.output) + 1 = o.data \div 2
  BY <1>1, <1>2, AnswerableIs
<1> HIDE DEF o
<1>4. /\ p \in Objects /\ p.ref = o.ref /\ p.event_triggered = o.event_triggered
      /\ p.data = o.data /\ p.consumed = o.consumed /\ p.input = o.input
      /\ p.sent = o.sent /\ p.peer = o.peer /\ p.state = "read"
      /\ Len(p.got) + Len(p.output) = Len(o.got) + Len(o.output) + 1
  BY <1>2, AnsweredIs
<1> HIDE DEF p
<1>5. q = [p EXCEPT !.ref = p.ref - 1] /\ q \in Objects
  <2>1. p.ref > 1
    BY <1>2, <1>3, <1>4
  <2> QED
    BY <1>4, <2>1, ReleaseIs
<1> HIDE DEF q
<1>6. /\ q.ref = p.ref - 1 /\ q.event_triggered = p.event_triggered
      /\ q.data = p.data /\ q.input = p.input /\ q.sent = p.sent
      /\ q.peer = p.peer /\ q.state = "read" /\ q.got = p.got /\ q.output = p.output
  BY <1>4, <1>5 DEF Objects
<1>7. Counted(q, held[r] - 1, 1, AnswersOf(r))
  BY <1>1, <1>2, <1>3, <1>4, <1>6 DEF Counted
<1>8. Progress(q, held[r] - 1, 0, 1)
  <2>1. Taken(q)
    BY <1>3, <1>4, <1>6 DEF Taken
  <2>2. Len(q.got) + Len(q.output) = q.data \div 2
    BY <1>3, <1>4, <1>6, Zenon
  <2>3. 1 # 0
    OBVIOUS
  <2> QED
    BY <1>6, <2>1, <2>2, <2>3, Zenon DEF Progress
<1>9. Sound(q, held[r] - 1, 0, 1, AnswersOf(r)) /\ EndsStay(o, q)
  BY <1>4, <1>6, <1>7, <1>8 DEF Sound, EndsStay
<1>10. OthersKept(r) /\ Sound(q, held'[r], owed'[r], CallsOf(r)', AnswersOf(r)')
  BY <1>1, <1>2, <1>3, <1>9, GiveUpKeeps, StackKept DEF OthersKept
<1> QED
  BY <1>1, <1>5, <1>9, <1>10, BecomesKeeps DEF o

LEMMA RespondLaterKeeps ==
  ASSUME IInv, NEW r \in Requests, MayAnswer(r), RespondLater(r), GiveUp(r)
  PROVE  IInv'
<1> DEFINE o == request[r]
           w == Answered(o, owed[r], "need_more_data")
<1>1. o.state # "closed" /\ ~o.event_triggered
  BY DEF RespondLater
<1>2. PICK p \in stream_flush(w) :
        \/ /\ Updates(p) /\ Becomes(r, Updating(p))
           /\ stack' = Append(stack, Call(r, TRUE))
        \/ /\ ~Updates(p) /\ Becomes(r, server_release(p)) /\ UNCHANGED stack
  BY DEF RespondLater, Answered
<1>3. /\ o \in Objects /\ held[r] \in Nat /\ owed[r] \in Nat
      /\ CallsOf(r) = 0 /\ AnswersOf(r) = 0
  BY <1>1, RequestIs DEF Sound, Counted
<1>4. /\ held[r] > 0 /\ o.ref = 1 + held[r] /\ Taken(o) /\ o.data = o.consumed
      /\ Len(o.got) + Len(o.output) + 1 = o.data \div 2
  <2>1. /\ held[r] > 0 /\ o.ref = 1 + held[r] + 0 + 0 /\ Taken(o) /\ o.data = o.consumed
        /\ Len(o.got) + Len(o.output) + 1 = o.data \div 2
    BY <1>1, <1>3, AnswerableIs, Zenon
  <2>2. 1 + held[r] + 0 + 0 = 1 + held[r]
    BY <1>3
  <2> QED
    BY <2>1, <2>2, Zenon
<1> HIDE DEF o
<1>5. /\ w \in Objects /\ w.ref = o.ref /\ w.event_triggered = o.event_triggered
      /\ w.data = o.data /\ w.consumed = o.consumed /\ w.input = o.input
      /\ w.sent = o.sent /\ w.peer = o.peer /\ w.state = "need_more_data"
      /\ Len(w.got) + Len(w.output) = Len(o.got) + Len(o.output) + 1
  BY <1>3, AnsweredIs
<1> HIDE DEF w
<1>6. Flushed(w, p)
  BY <1>2, <1>5, FlushKeeps
<1>7. /\ p \in Objects /\ p.ref = 1 + held[r] /\ ~p.event_triggered
      /\ p.data = p.consumed /\ p.data = o.data /\ p.input = o.input /\ p.sent = o.sent
      /\ p.peer = o.peer /\ p.state = "need_more_data"
      /\ Len(p.got) + Len(p.output) = Len(o.got) + Len(o.output) + 1
  BY <1>1, <1>4, <1>5, <1>6 DEF Flushed
<1>8. Taken(p) /\ Len(p.got) + Len(p.output) = p.data \div 2
  BY <1>4, <1>7, Zenon DEF Taken
<1>9. /\ held' \in [Requests -> Nat] /\ owed' \in [Requests -> Nat]
      /\ is_open' \in BOOLEAN /\ accepts' \in Nat
      /\ held'[r] = held[r] - 1 /\ owed'[r] = 0
      /\ \A s \in Requests \ {r} : held'[s] = held[s] /\ owed'[s] = owed[s]
  BY <1>4, GiveUpKeeps
<1>10. held[r] - 1 \in Nat
  BY <1>3, <1>4
<1>11. ASSUME Updates(p), Becomes(r, Updating(p)), stack' = Append(stack, Call(r, TRUE))
       PROVE  IInv'
  <2>1. /\ stack' \in Seq(Frames) /\ NoReentry'
        /\ CallsOf(r)' = 1 /\ AnswersOf(r)' = 1
        /\ \A s \in Requests \ {r} :
             CallsOf(s)' = CallsOf(s) /\ AnswersOf(s)' = AnswersOf(s)
    BY <1>3, <1>11, PushKeeps DEF IInv
  <2>2. p.ref = 1 + (held[r] - 1) + 1
    BY <1>3, <1>7
  <2>3. /\ Updating(p) \in Objects /\ Updating(p).peer = p.peer
        /\ Sound(Updating(p), held[r] - 1, 0, 1, 1)
    BY <1>7, <1>8, <1>10, <2>2, UpdatingSound
  <2>4. OthersKept(r) /\ EndsStay(o, Updating(p))
        /\ Sound(Updating(p), held'[r], owed'[r], CallsOf(r)', AnswersOf(r)')
    BY <1>7, <1>9, <2>1, <2>3 DEF OthersKept, EndsStay
  <2> QED
    BY <1>11, <2>3, <2>4, BecomesKeeps DEF o
<1>12. ASSUME ~Updates(p), Becomes(r, server_release(p)), UNCHANGED stack
       PROVE  IInv'
  <2> DEFINE q == server_release(p)
  <2>1. q = [p EXCEPT !.ref = p.ref - 1] /\ q \in Objects
    <3>1. p.ref > 1
      BY <1>3, <1>4, <1>7
    <3> QED
      BY <1>7, <3>1, ReleaseIs
  <2> HIDE DEF q
  <2>2. /\ q.ref = p.ref - 1 /\ q.event_triggered = p.event_triggered
        /\ q.data = p.data /\ q.consumed = p.consumed /\ q.input = p.input
        /\ q.sent = p.sent /\ q.peer = p.peer /\ q.state = "need_more_data"
        /\ q.got = p.got /\ q.output = p.output
    BY <1>7, <2>1 DEF Objects
  <2>3. Counted(q, held[r] - 1, 0, 0)
    BY <1>3, <1>7, <2>2 DEF Counted
  <2>4. ~Complete(q) /\ ~Malformed(q)
    <3>1. q.input <= q.data
      BY <1>7, <1>12, <2>1, <2>2, ObjectIs DEF Updates
    <3>2. q.input \in Nat /\ q.data \in Nat
      BY <2>1, ObjectIs
    <3>3. ~(Unread(q) > 0) /\ ~(Unread(q) > 1)
      BY <3>1, <3>2 DEF Unread
    <3> QED
      BY <3>3, Zenon DEF Complete, Malformed
  <2>5. Taken(q) /\ Len(q.got) + Len(q.output) = q.data \div 2
    BY <1>8, <2>2, Zenon DEF Taken
  <2>6. Progress(q, held[r] - 1, 0, 0)
    BY <1>7, <2>2, <2>4, <2>5, Zenon DEF Progress
  <2>7. Sound(q, held[r] - 1, 0, 0, 0) /\ EndsStay(o, q)
    BY <1>7, <2>2, <2>3, <2>6 DEF Sound, EndsStay
  <2>8. OthersKept(r) /\ Sound(q, held'[r], owed'[r], CallsOf(r)', AnswersOf(r)')
    BY <1>3, <1>9, <1>12, <2>7, StackKept DEF OthersKept
  <2> QED
    BY <1>12, <2>1, <2>7, <2>8, BecomesKeeps DEF o, q
<1> QED
  BY <1>2, <1>11, <1>12

LEMMA RespondKeeps == ASSUME IInv, NEW r \in Requests, server_respond(r) PROVE IInv'
<1>1. MayAnswer(r) /\ GiveUp(r) /\ held[r] > 0
  BY DEF server_respond, MayAnswer
<1>2. CASE RespondClosed(r)
  BY <1>1, <1>2, RespondClosedKeeps DEF RespondClosed
<1>3. CASE RespondAtOnce(r)
  BY <1>1, <1>3, RespondAtOnceKeeps
<1>4. CASE RespondLater(r)
  BY <1>1, <1>4, RespondLaterKeeps
<1> QED
  BY <1>2, <1>3, <1>4 DEF server_respond

LEMMA BadRequestKeeps == ASSUME IInv, NEW r \in Requests, server_bad_request(r) PROVE IInv'
<1> DEFINE o == request[r]
<1>1. MayAnswer(r) /\ GiveUp(r) /\ held[r] > 0 /\ UNCHANGED stack
  BY DEF server_bad_request, MayAnswer
<1>2. CASE o.state = "closed"
  <2>1. Becomes(r, server_release(o))
    BY <1>2 DEF server_bad_request
  <2> QED
    BY <1>1, <1>2, <2>1, RespondClosedKeeps
<1>3. CASE o.state # "closed"
  <2>1. PICK p \in BadRequest(o) : Becomes(r, p)
    BY <1>3 DEF server_bad_request
  <2>2. /\ o \in Objects /\ held[r] \in Nat /\ CallsOf(r) \in {0, 1} /\ AnswersOf(r) \in {0, 1}
        /\ o.ref = 1 + held[r] + CallsOf(r) + AnswersOf(r)
        /\ o.event_triggered <=> CallsOf(r) = 1
    BY <1>3, RequestIs DEF Sound, Counted
  <2> HIDE DEF o
  <2>3. o.ref > 1
    BY <1>1, <2>2
  <2>4. /\ p \in Objects /\ p.state = "closed" /\ Emptied(p) /\ p.ref = o.ref - 2
        /\ p.event_triggered <=> o.event_triggered /\ o.ref > 2
    BY <1>3, <2>1, <2>2, <2>3, BadRequestIs
  <2>5. p.ref = held[r] - 1 + CallsOf(r) + AnswersOf(r)
    BY <2>2, <2>4
  <2>6. p.event_triggered <=> CallsOf(r) = 1
    <3>1. CallsOf(r) = 1 => o.ref > 2
      BY <1>1, <2>2
    <3> QED
      BY <2>2, <2>4, <3>1
  <2>7. held[r] - 1 \in Nat
    BY <1>1, <2>2
  <2>8. Counted(p, held[r] - 1, CallsOf(r), AnswersOf(r))
    BY <2>2, <2>4, <2>5, <2>6, <2>7 DEF Counted
  <2>9. Sound(p, held[r] - 1, 0, CallsOf(r), AnswersOf(r)) /\ EndsStay(o, p)
    BY <2>4, <2>8 DEF Sound, EndsStay
  <2>10. OthersKept(r) /\ Sound(p, held'[r], owed'[r], CallsOf(r)', AnswersOf(r)')
    BY <1>1, <2>9, GiveUpKeeps, StackKept DEF OthersKept
  <2> QED
    BY <2>1, <2>4, <2>9, <2>10, BecomesKeeps DEF o
<1> QED
  BY <1>2, <1>3

LEMMA CloseKeeps == ASSUME IInv, NEW r \in Requests, Close(r) PROVE IInv'
<1> DEFINE q == server_close(request[r])
<1>1. UNCHANGED <<stack, held, owed, is_open, accepts>> /\ Becomes(r, q)
  BY DEF Close
<1>2. q \in Objects /\ Sound(q, held[r], owed[r], CallsOf(r), AnswersOf(r))
      /\ EndsStay(request[r], q)
  <2>1. request[r] \in Objects /\ held[r] \in Nat /\ CallsOf(r) \in {0, 1}
        /\ AnswersOf(r) \in Nat
        /\ Sound(request[r], held[r], owed[r], CallsOf(r), AnswersOf(r))
    BY RequestIs
  <2>2. q.state = "closed"
    BY <2>1, ClosedIs
  <2> QED
    BY <2>1, <2>2, CloseSound DEF EndsStay
<1>3. OthersKept(r) /\ Sound(q, held'[r], owed'[r], CallsOf(r)', AnswersOf(r)')
  BY <1>1, <1>2, QuietKeeps
<1> HIDE DEF q
<1> QED
  BY <1>1, <1>2, <1>3, BecomesKeeps

(* The number of references changes by the application's, and nothing else.   *)
LEMMA RefSound ==
  ASSUME NEW q \in Objects, NEW p \in Objects, NEW k \in Nat, p = [q EXCEPT !.ref = k],
         NEW h \in Nat, NEW g \in Nat, NEW o \in Nat, NEW c \in {0, 1}, NEW a \in {0, 1},
         Sound(q, h, o, c, a), k + h = q.ref + g, q.state = "closed" \/ g > 0 \/ o = 0
  PROVE  Sound(p, g, o, c, a) /\ p.state = q.state /\ p.peer = q.peer
<1>1. /\ p.ref = k /\ p.event_triggered = q.event_triggered
      /\ p.data = q.data /\ p.consumed = q.consumed /\ p.input = q.input
      /\ p.sent = q.sent /\ p.state = q.state /\ p.peer = q.peer
      /\ p.got = q.got /\ p.output = q.output
  BY DEF Objects
<1>2. Counted(p, g, c, a)
  BY <1>1, ObjectIs, SMTT(60) DEF Sound, Counted
<1>3. ASSUME q.state # "closed" PROVE Progress(p, g, o, c)
  <2>1. Progress(q, h, o, c) /\ (o > 0 => o # 0)
    BY <1>3 DEF Sound
  <2>2. (Complete(p) <=> Complete(q)) /\ (Malformed(p) <=> Malformed(q))
    BY <1>1, ScriptIs
  <2> QED
    BY <1>1, <1>3, <2>1, <2>2, Zenon DEF Progress, Taken
<1>4. ASSUME q.state = "closed" PROVE Emptied(p)
  BY <1>1, <1>4 DEF Sound, Emptied
<1> QED
  BY <1>1, <1>2, <1>3, <1>4 DEF Sound

LEMMA HeldKeeps ==
  ASSUME IInv, NEW r \in Requests, NEW g \in Nat, held' = [held EXCEPT ![r] = g],
         UNCHANGED <<stack, owed, is_open, accepts>>
  PROVE  /\ OthersKept(r)
         /\ held'[r] = g /\ owed'[r] = owed[r]
         /\ CallsOf(r)' = CallsOf(r) /\ AnswersOf(r)' = AnswersOf(r)
<1>1. owed' = owed /\ is_open' = is_open /\ accepts' = accepts /\ stack' = stack
  OBVIOUS
<1>2. held \in [Requests -> Nat]
  BY RequestIs
<1> QED
  BY <1>1, <1>2, StackKept, RequestIs DEF OthersKept

LEMMA ReleaseKeeps == ASSUME IInv, NEW r \in Requests, Release(r) PROVE IInv'
<1> DEFINE o == request[r]
           q == server_release(o)
           g == held[r] - 1
<1>1. /\ held[r] > 0
      /\ held[r] > 1 \/ owed[r] = 0 \/ o.state = "closed"
      /\ Becomes(r, q) /\ held' = [held EXCEPT ![r] = @ - 1]
      /\ UNCHANGED <<stack, owed, is_open, accepts>>
  BY DEF Release
<1>2. /\ o \in Objects /\ held[r] \in Nat \ {0} /\ owed[r] \in Nat
      /\ CallsOf(r) \in {0, 1} /\ AnswersOf(r) \in {0, 1}
      /\ Sound(o, held[r], owed[r], CallsOf(r), AnswersOf(r)) /\ held \in [Requests -> Nat]
  <2>1. held[r] \in Nat /\ held[r] # 0
    BY <1>1, RequestIs
  <2> QED
    BY <2>1, RequestIs
<1>3. g \in Nat /\ held' = [held EXCEPT ![r] = g]
  BY <1>1, <1>2
<1> HIDE DEF o, q, g
<1>4. /\ OthersKept(r) /\ held'[r] = g /\ owed'[r] = owed[r]
      /\ CallsOf(r)' = CallsOf(r) /\ AnswersOf(r)' = AnswersOf(r)
  BY <1>1, <1>3, HeldKeeps
<1>5. q \in Objects /\ Sound(q, g, owed[r], CallsOf(r), AnswersOf(r)) /\ EndsStay(o, q)
  <2>1. CASE o.state = "closed"
    <3>1. q \in Objects /\ Sound(q, g, owed[r], CallsOf(r), AnswersOf(r))
      BY <1>2, <2>1, GiveUpSound DEF q, g
    <3>2. q.state = "closed"
      BY <1>2, <2>1, ReleaseClosedIs DEF Remains, Sound, Counted, q
    <3> QED
      BY <3>1, <3>2 DEF EndsStay
  <2>2. CASE o.state # "closed"
    <3>1. o.ref = 1 + held[r] + CallsOf(r) + AnswersOf(r)
      BY <1>2, <2>2 DEF Sound, Counted
    <3>2. o.ref > 1 /\ o.ref - 1 \in Nat
      BY <1>2, <3>1
    <3>3. q = [o EXCEPT !.ref = o.ref - 1] /\ q \in Objects
      BY <1>2, <3>2, ReleaseIs DEF q
    <3>4. o.ref - 1 + held[r] = o.ref + g
      <4>1. o.ref \in Nat /\ held[r] \in Nat /\ g = held[r] - 1
        BY <1>2, ObjectIs DEF g
      <4> QED
        BY <4>1
    <3>5. g > 0 \/ owed[r] = 0
      BY <1>1, <1>2, <2>2 DEF g
    <3>6. Sound(q, g, owed[r], CallsOf(r), AnswersOf(r)) /\ q.peer = o.peer
      BY <1>2, <1>3, <3>2, <3>3, <3>4, <3>5, RefSound
    <3> QED
      BY <3>3, <3>6 DEF EndsStay
  <2> QED
    BY <2>1, <2>2
<1>6. Sound(q, held'[r], owed'[r], CallsOf(r)', AnswersOf(r)')
  BY <1>4, <1>5
<1> QED
  BY <1>1, <1>4, <1>5, <1>6, BecomesKeeps DEF o

LEMMA HoldKeeps == ASSUME IInv, NEW r \in Requests, Hold(r) PROVE IInv'
<1> DEFINE o == request[r]
           q == server_hold(o)
           g == held[r] + 1
<1>1. /\ held' = [held EXCEPT ![r] = @ + 1] /\ Becomes(r, q)
      /\ UNCHANGED <<stack, owed, is_open, accepts>>
  BY DEF Hold
<1>2. /\ o \in Objects /\ held[r] \in Nat /\ owed[r] \in Nat
      /\ CallsOf(r) \in {0, 1} /\ AnswersOf(r) \in {0, 1}
      /\ Sound(o, held[r], owed[r], CallsOf(r), AnswersOf(r)) /\ held \in [Requests -> Nat]
  BY <1>1, RequestIs
<1>3. g \in Nat /\ g > 0 /\ held' = [held EXCEPT ![r] = g]
  BY <1>1, <1>2
<1> HIDE DEF o, q, g
<1>4. /\ OthersKept(r) /\ held'[r] = g /\ owed'[r] = owed[r]
      /\ CallsOf(r)' = CallsOf(r) /\ AnswersOf(r)' = AnswersOf(r)
  BY <1>1, <1>3, HeldKeeps
<1>5. q = [o EXCEPT !.ref = o.ref + 1] /\ q \in Objects
  BY <1>2, HoldIs DEF q
<1>6. o.ref + 1 \in Nat /\ o.ref + 1 + held[r] = o.ref + g
  BY <1>2, ObjectIs DEF g
<1>7. Sound(q, g, owed[r], CallsOf(r), AnswersOf(r)) /\ q.peer = o.peer
  BY <1>2, <1>3, <1>5, <1>6, RefSound
<1>8. EndsStay(o, q) /\ Sound(q, held'[r], owed'[r], CallsOf(r)', AnswersOf(r)')
  BY <1>4, <1>7 DEF EndsStay
<1> QED
  BY <1>1, <1>4, <1>5, <1>8, BecomesKeeps DEF o

LEMMA OpenKeeps == ASSUME IInv, server_open PROVE IInv'
<1>1. /\ request' = request /\ due' = due /\ stack' = stack /\ held' = held
      /\ owed' = owed /\ accepts' = accepts /\ is_open' = TRUE
  BY DEF server_open
<1>2. TypeOK'
  BY <1>1 DEF IInv, TypeOK
<1>3. NoReentry' /\ \A r \in Requests : CallsOf(r)' = CallsOf(r) /\ AnswersOf(r)' = AnswersOf(r)
  BY <1>1, StackKept
<1>4. \A r \in Requests :
        Sound(request'[r], held'[r], owed'[r], CallsOf(r)', AnswersOf(r)')
  BY <1>1, <1>3, RequestIs
<1>5. \A r \in Requests : DueIsTrue(request'[r], due'[r])
  BY <1>1 DEF IInv
<1> QED
  BY <1>2, <1>3, <1>4, <1>5 DEF IInv

(* Free memory: nobody uses it.                                               *)
LEMMA UnusedIs ==
  ASSUME IInv, NEW r \in Requests, request[r].ref = 0
  PROVE  /\ request[r].state = "closed" /\ Emptied(request[r])
         /\ held[r] = 0 /\ CallsOf(r) = 0 /\ AnswersOf(r) = 0
<1>1. /\ held[r] \in Nat /\ CallsOf(r) \in {0, 1} /\ AnswersOf(r) \in {0, 1}
      /\ Sound(request[r], held[r], owed[r], CallsOf(r), AnswersOf(r))
  BY RequestIs
<1>2. request[r].state = "closed"
  BY <1>1 DEF Sound, Counted
<1> QED
  BY <1>1, <1>2 DEF Sound, Counted

LEMMA AcceptedIs ==
  /\ Accepted \in Objects /\ Accepted.peer = "open"
  /\ Sound(Accepted, 0, 0, 0, 0)
<1>1. Free \in Objects
  BY FreeIs
<1>2. Accepted \in Objects
  BY <1>1 DEF Accepted, Objects
<1>3. /\ Accepted.ref = 1 /\ Accepted.state = "need_more_data"
      /\ Accepted.event_triggered = FALSE
      /\ Accepted.data = 0 /\ Accepted.consumed = 0 /\ Accepted.input = 0
      /\ Accepted.sent = 0 /\ Accepted.peer = "open"
      /\ Accepted.output = <<>> /\ Accepted.got = <<>>
  BY DEF Accepted, Free
<1>4. Counted(Accepted, 0, 0, 0)
  BY <1>3 DEF Counted
<1>5. Taken(Accepted) /\ Len(Accepted.got) + Len(Accepted.output) = Accepted.data \div 2
  BY <1>3, EmptySeq DEF Taken
<1>6. ~Complete(Accepted) /\ ~Malformed(Accepted)
  <2>1. ~(Unread(Accepted) > 0) /\ ~(Unread(Accepted) > 1)
    BY <1>3 DEF Unread
  <2> QED
    BY <2>1, Zenon DEF Complete, Malformed
<1>7. Progress(Accepted, 0, 0, 0)
  BY <1>3, <1>5, <1>6, Zenon DEF Progress
<1> QED
  BY <1>2, <1>3, <1>4, <1>7 DEF Sound

LEMMA AcceptKeeps == ASSUME IInv, NEW r \in Requests, server_accept(r) PROVE IInv'
<1>1. /\ request[r].ref = 0 /\ accepts' = accepts + 1 /\ Becomes(r, Accepted)
      /\ owed' = [owed EXCEPT ![r] = 0]
      /\ stack' = stack /\ held' = held /\ is_open' = is_open
  BY DEF server_accept
<1>2. /\ Emptied(request[r]) /\ held[r] = 0 /\ CallsOf(r) = 0 /\ AnswersOf(r) = 0
  BY <1>1, UnusedIs
<1>3. owed' \in [Requests -> Nat] /\ owed'[r] = 0 /\ accepts' \in Nat
      /\ \A s \in Requests \ {r} : owed'[s] = owed[s]
  BY <1>1, RequestIs
<1>4. EndsStay(request[r], Accepted)
  BY <1>2 DEF EndsStay, Emptied
<1>5. OthersKept(r)
  BY <1>1, <1>3, StackKept, RequestIs DEF OthersKept
<1>6. CallsOf(r)' = 0 /\ AnswersOf(r)' = 0 /\ held'[r] = 0
  BY <1>1, <1>2, StackKept
<1>7. Sound(Accepted, held'[r], owed'[r], CallsOf(r)', AnswersOf(r)')
  BY <1>3, <1>6, AcceptedIs
<1> QED
  BY <1>1, <1>4, <1>5, <1>7, AcceptedIs, BecomesKeeps

(* With no request in use, a shutdown frees every connection.                 *)
LEMMA ShutdownKeeps == ASSUME IInv, ~ShutdownInUse, server_shutdown PROVE IInv'
<1> DEFINE after(q) == IF q.ref > 0 THEN server_release(q) ELSE q
<1>1. /\ stack = <<>> /\ \A r \in Requests : held[r] = 0
      /\ request' = [r \in Requests |-> after(request[r])] /\ KeepDue(due)
      /\ is_open' = FALSE /\ stack' = stack /\ held' = held /\ owed' = owed
      /\ accepts' = accepts
  BY DEF server_shutdown
<1>2. ASSUME NEW r \in Requests
      PROVE  /\ after(request[r]) \in Objects /\ after(request[r]).state = "closed"
             /\ Sound(after(request[r]), held[r], owed[r], CallsOf(r), AnswersOf(r))
  <2> DEFINE q == request[r]
  <2>1. CallsOf(r) = 0 /\ AnswersOf(r) = 0 /\ held[r] = 0
    BY <1>1, EmptySeq DEF CallsOf, AnswersOf, Calls, AnsweringCalls
  <2>2. q \in Objects /\ q.ref \in Nat /\ Sound(q, 0, owed[r], 0, 0)
    BY <2>1, RequestIs, ObjectIs
  <2> HIDE DEF q
  <2>3. q.ref = (IF q.state = "closed" THEN 0 ELSE 1) /\ (q.event_triggered <=> FALSE)
    BY <2>2 DEF Sound, Counted
  <2>4. CASE q.state = "closed"
    <3>1. after(q) = q
      BY <2>3, <2>4
    <3> QED
      BY <2>1, <2>2, <2>4, <3>1 DEF q
  <2>5. CASE q.state # "closed"
    <3>1. q.ref = 1
      BY <2>3, <2>5
    <3>2. after(q) = server_release(q)
      BY <3>1
    <3>3. server_release(q) = [Free EXCEPT !.aborted = q.aborted] /\ q.aborted \in BOOLEAN
      BY <2>2, <3>1, ObjectIs DEF server_release
    <3>4. server_release(q) \in Objects
      BY <3>3, FreeIs DEF Objects
    <3>5. /\ server_release(q).state = "closed" /\ server_release(q).ref = 0
          /\ ~server_release(q).event_triggered /\ Emptied(server_release(q))
      BY <3>3 DEF Free, Emptied
    <3>6. Counted(server_release(q), 0, 0, 0)
      BY <3>5 DEF Counted
    <3>7. Sound(server_release(q), 0, owed[r], 0, 0)
      BY <3>5, <3>6 DEF Sound
    <3> QED
      BY <2>1, <3>2, <3>4, <3>5, <3>7 DEF q
  <2> QED
    BY <2>4, <2>5
<1> HIDE DEF after
<1>3. request' \in [Requests -> Objects] /\ \A r \in Requests : request'[r] = after(request[r])
  BY <1>1, <1>2
<1>4. \A r \in Requests : due'[r] = {}
  BY <1>1, <1>2, <1>3 DEF KeepDue
<1>5. due' \in [Requests -> SUBSET Port!Kinds]
  BY <1>1, <1>4 DEF KeepDue, IInv, TypeOK
<1>6. TypeOK'
  BY <1>1, <1>3, <1>5 DEF IInv, TypeOK, Objects
<1>7. NoReentry' /\ \A r \in Requests : CallsOf(r)' = CallsOf(r) /\ AnswersOf(r)' = AnswersOf(r)
  BY <1>1, StackKept
<1>8. \A r \in Requests :
        Sound(request'[r], held'[r], owed'[r], CallsOf(r)', AnswersOf(r)')
  BY <1>1, <1>2, <1>3, <1>7
<1>9. \A r \in Requests : DueIsTrue(request'[r], due'[r])
  BY <1>4 DEF DueIsTrue
<1> QED
  BY <1>6, <1>7, <1>8, <1>9 DEF IInv

-----------------------------------------------------------------------------
(* The clients.                                                               *)

LEMMA SendKeeps == ASSUME IInv, NEW r \in Requests, Send(r) PROVE IInv'
<1> DEFINE o == request[r]
           q == [o EXCEPT !.sent = @ + 1, !.edge = o.writing]
<1>1. /\ o.state # "closed" /\ Becomes(r, q)
      /\ UNCHANGED <<stack, held, owed, is_open, accepts>>
  BY DEF Send, Open
<1>2. o \in Objects /\ Sound(o, held[r], owed[r], CallsOf(r), AnswersOf(r))
  BY RequestIs
<1> HIDE DEF o
<1>3. o.sent + 1 \in Nat /\ o.writing \in BOOLEAN
  BY <1>2, ObjectIs
<1>4. q \in Objects
  BY <1>2, <1>3 DEF Objects
<1>5. /\ q.ref = o.ref /\ q.event_triggered = o.event_triggered
      /\ q.data = o.data /\ q.consumed = o.consumed /\ q.input = o.input
      /\ q.sent = o.sent + 1 /\ q.state = o.state /\ q.peer = o.peer
      /\ q.got = o.got /\ q.output = o.output
  BY <1>2 DEF Objects
<1> HIDE DEF q
<1>6. Taken(q)
  BY <1>1, <1>2, <1>4, <1>5, ObjectIs DEF Sound, Progress, Taken
<1>7. (Complete(q) <=> Complete(o)) /\ (Malformed(q) <=> Malformed(o))
  BY <1>2, <1>4, <1>5, ScriptIs
<1>8. Progress(q, held[r], owed[r], CallsOf(r))
  BY <1>1, <1>2, <1>5, <1>6, <1>7, Zenon DEF Sound, Progress
<1>9. Counted(q, held[r], CallsOf(r), AnswersOf(r))
  BY <1>2, <1>5, Zenon DEF Sound, Counted
<1>10. Sound(q, held[r], owed[r], CallsOf(r), AnswersOf(r)) /\ EndsStay(o, q)
  BY <1>1, <1>5, <1>8, <1>9 DEF Sound, EndsStay
<1>11. OthersKept(r) /\ Sound(q, held'[r], owed'[r], CallsOf(r)', AnswersOf(r)')
  BY <1>1, <1>10, QuietKeeps
<1> QED
  BY <1>1, <1>4, <1>10, <1>11, BecomesKeeps DEF o

LEMMA HangUpKeeps ==
  ASSUME IInv, NEW r \in Requests, NEW how \in {"closed", "reset"}, HangUp(r, how)
  PROVE  IInv'
<1> DEFINE o == request[r]
           q == [o EXCEPT !.peer = how]
<1>1. /\ o.state # "closed" /\ o.peer = "open" /\ Becomes(r, q)
      /\ UNCHANGED <<stack, held, owed, is_open, accepts>>
  BY DEF HangUp, Open
<1>2. o \in Objects /\ Sound(o, held[r], owed[r], CallsOf(r), AnswersOf(r))
  BY RequestIs
<1> HIDE DEF o
<1>3. q \in Objects
  BY <1>2 DEF Objects
<1>4. /\ q.ref = o.ref /\ q.event_triggered = o.event_triggered
      /\ q.data = o.data /\ q.consumed = o.consumed /\ q.input = o.input
      /\ q.sent = o.sent /\ q.state = o.state /\ q.got = o.got /\ q.output = o.output
  BY <1>2 DEF Objects
<1> HIDE DEF q
<1>5. Sound(q, held[r], owed[r], CallsOf(r), AnswersOf(r)) /\ EndsStay(o, q)
  <2>1. (Complete(q) <=> Complete(o)) /\ (Malformed(q) <=> Malformed(o))
    BY <1>2, <1>3, <1>4, ScriptIs
  <2>2. Progress(q, held[r], owed[r], CallsOf(r))
    BY <1>1, <1>2, <1>4, <2>1, Zenon DEF Sound, Progress, Taken
  <2>3. Counted(q, held[r], CallsOf(r), AnswersOf(r))
    BY <1>2, <1>4, Zenon DEF Sound, Counted
  <2> QED
    BY <1>1, <1>4, <2>2, <2>3 DEF Sound, EndsStay
<1>6. OthersKept(r) /\ Sound(q, held'[r], owed'[r], CallsOf(r)', AnswersOf(r)')
  BY <1>1, <1>5, QuietKeeps
<1> QED
  BY <1>1, <1>3, <1>5, <1>6, BecomesKeeps DEF o

-----------------------------------------------------------------------------
(* Invariance.                                                                *)

LEMMA InitIInv == Init => IInv
<1> SUFFICES ASSUME Init PROVE IInv
  OBVIOUS
<1>1. /\ request = [r \in Requests |-> Free] /\ due = [r \in Requests |-> {}]
      /\ stack = <<>> /\ held = [r \in Requests |-> 0] /\ owed = [r \in Requests |-> 0]
      /\ is_open = FALSE /\ accepts = 0
  BY DEF Init, Port!NothingDue
<1>2. TypeOK
  <2>1. request \in [Requests -> Objects]
    BY <1>1, FreeIs
  <2>2. stack \in Seq(Frames)
    BY <1>1, EmptySeq
  <2> QED
    BY <1>1, <2>1, <2>2 DEF TypeOK, Objects, Frames
<1>3. DOMAIN stack = {}
  BY <1>1
<1>4. NoReentry
  BY <1>3 DEF NoReentry
<1>5. \A r \in Requests : CallsOf(r) = 0 /\ AnswersOf(r) = 0
  BY <1>3 DEF CallsOf, AnswersOf, Calls, AnsweringCalls
<1>6. Counted(Free, 0, 0, 0)
  BY FreeIs DEF Counted
<1>7. Sound(Free, 0, 0, 0, 0)
  BY <1>6, FreeIs DEF Sound
<1>8. \A r \in Requests : Sound(request[r], held[r], owed[r], CallsOf(r), AnswersOf(r))
  BY <1>1, <1>5, <1>7
<1>9. \A r \in Requests : DueIsTrue(request[r], due[r])
  BY <1>1 DEF DueIsTrue
<1> QED
  BY <1>2, <1>4, <1>8, <1>9 DEF IInv

LEMMA StutterIInv == ASSUME IInv, UNCHANGED vars PROVE IInv'
<1>1. /\ request' = request /\ due' = due /\ stack' = stack /\ held' = held
      /\ owed' = owed /\ is_open' = is_open /\ accepts' = accepts
  BY DEF vars
<1>2. TypeOK'
  BY <1>1 DEF IInv, TypeOK
<1>3. NoReentry' /\ \A r \in Requests : CallsOf(r)' = CallsOf(r) /\ AnswersOf(r)' = AnswersOf(r)
  BY <1>1, StackKept
<1>4. \A r \in Requests :
        Sound(request'[r], held'[r], owed'[r], CallsOf(r)', AnswersOf(r)')
  BY <1>1, <1>3, RequestIs
<1>5. \A r \in Requests : DueIsTrue(request'[r], due'[r])
  BY <1>1 DEF IInv
<1> QED
  BY <1>2, <1>3, <1>4, <1>5 DEF IInv

LEMMA NextIInv == ASSUME ~ShutdownInUse, IInv, [Next]_vars PROVE IInv'
<1>1. CASE EventLoop
  BY <1>1, ReportKeeps, ReadKeeps, WriteKeeps, HangupKeeps DEF EventLoop
<1>2. CASE Update
  BY <1>2, NeedMoreDataKeeps, ReadMalformedKeeps, ReadRequestKeeps, UpdateReturnsKeeps,
     ReturnKeeps DEF Update
<1>3. CASE Application
  BY <1>3, RespondKeeps, BadRequestKeeps, CloseKeeps, ReleaseKeeps, HoldKeeps,
     AcceptKeeps, OpenKeeps, ShutdownKeeps DEF Application
<1>4. CASE Clients
  BY <1>4, SendKeeps, HangUpKeeps DEF Clients
<1> QED
  BY <1>1, <1>2, <1>3, <1>4, StutterIInv DEF Next

(* Every state of the server is sound: the calls are nested without reentry,  *)
(* references are counted, what was handed out is what was answered but for   *)
(* the request in hand, and no event is due to a connection that is closed.   *)
THEOREM Invariance == ASSUME ~ShutdownInUse PROVE Spec => []IInv
<1>1. IInv /\ [Next]_vars => IInv'
  BY NextIInv
<1> QED
  BY <1>1, InitIInv, PTL DEF Spec

(* Every variable keeps its type, whatever is called in whatever order.       *)
THEOREM TypeCorrect == ASSUME ~ShutdownInUse PROVE Spec => []TypeOK
<1>1. IInv => TypeOK
  BY DEF IInv
<1> QED
  BY <1>1, Invariance, PTL

-----------------------------------------------------------------------------
(* References.                                                                *)

LEMMA CallsCounted ==
  ASSUME IInv, NEW r \in Requests
  PROVE  Cardinality(Calls(r)) = CallsOf(r) /\ Cardinality(AnsweringCalls(r)) = AnswersOf(r)
<1>1. \A i, j \in Calls(r) : i = j
  BY DEF IInv, NoReentry, Calls
<1>2. AnsweringCalls(r) \subseteq Calls(r)
  BY DEF AnsweringCalls
<1>3. ASSUME NEW S, \A i, j \in S : i = j
      PROVE  Cardinality(S) = IF S = {} THEN 0 ELSE 1
  <2>1. CASE S = {}
    BY <2>1, FS_EmptySet
  <2>2. CASE S # {}
    <3>1. PICK i \in S : TRUE
      BY <2>2
    <3>2. S = {i}
      BY <1>3, <3>1
    <3> QED
      BY <2>2, <3>2, FS_Singleton
  <2> QED
    BY <2>1, <2>2
<1>4. \A i, j \in AnsweringCalls(r) : i = j
  BY <1>1, <1>2
<1> QED
  BY <1>1, <1>3, <1>4 DEF CallsOf, AnswersOf

(* request->ref is at any time the number of references there are: no request *)
(* is leaked and none is freed under its user, whatever the application does  *)
(* from whichever callback, except a shutdown while requests are in use.      *)
THEOREM RefCountCorrect == ASSUME ~ShutdownInUse PROVE Spec => []RefCount
<1>1. IInv => RefCount
  <2> SUFFICES ASSUME IInv, NEW r \in Requests
               PROVE  request[r].ref = (IF r \in Open THEN 1 ELSE 0) + held[r]
                                         + Cardinality(Calls(r)) + Cardinality(AnsweringCalls(r))
    BY DEF RefCount
  <2>1. request[r].ref = (IF request[r].state = "closed" THEN 0 ELSE 1) + held[r]
                           + CallsOf(r) + AnswersOf(r)
    BY RequestIs DEF Sound, Counted
  <2>2. (IF r \in Open THEN 1 ELSE 0) = (IF request[r].state = "closed" THEN 0 ELSE 1)
    BY DEF Open
  <2> QED
    BY <2>1, <2>2, CallsCounted
<1> QED
  BY <1>1, Invariance, PTL

(* A request that the application or a running call still uses is not freed;  *)
(* server_shutdown while requests are in use would free it.                   *)
THEOREM UsedStaysAllocated == ASSUME ~ShutdownInUse PROVE Spec => []UsedIsAllocated
<1>1. IInv => UsedIsAllocated
  <2> SUFFICES ASSUME IInv, NEW r \in Requests, held[r] > 0 \/ Calls(r) # {}
               PROVE  request[r].ref > 0
    BY DEF UsedIsAllocated
  <2>1. request[r].ref = (IF request[r].state = "closed" THEN 0 ELSE 1) + held[r]
                           + CallsOf(r) + AnswersOf(r)
    BY RequestIs DEF Sound, Counted
  <2>2. Calls(r) # {} => CallsOf(r) = 1
    BY DEF CallsOf
  <2> QED
    BY <2>1, <2>2, RequestIs
<1> QED
  BY <1>1, Invariance, PTL

(* Between two calls, an open connection waits for its client, because no     *)
(* further request is in its buffer, or for the application, which was handed *)
(* a request and holds a reference to answer it with: no request is forgotten *)
(* in the buffer and no connection waits for nobody.                          *)
THEOREM NobodyIsStuck == ASSUME ~ShutdownInUse PROVE Spec => []NeverStuck
<1>1. IInv => NeverStuck
  <2> SUFFICES ASSUME IInv, NEW r \in Open, Calls(r) = {}
               PROVE  LET q == [request[r] EXCEPT !.data = request[r].consumed]
                      IN  \/ /\ q.state = "need_more_data" /\ owed[r] = 0
                             /\ ~Complete(q) /\ ~Malformed(q)
                          \/ q.state = "handling" /\ owed[r] > 0 /\ held[r] > 0
    BY DEF NeverStuck
  <2> DEFINE o == request[r]
             q == [o EXCEPT !.data = o.consumed]
  <2>1. /\ r \in Requests /\ o \in Objects /\ o.state # "closed" /\ CallsOf(r) = 0
    BY RequestIs DEF Open, CallsOf
  <2>2. Sound(o, held[r], owed[r], 0, AnswersOf(r))
    BY <2>1, RequestIs
  <2> HIDE DEF o
  <2>3. o.data = o.consumed /\ Progress(o, held[r], owed[r], 0)
    BY <2>1, <2>2 DEF Sound, Progress
  <2>4. q \in Objects /\ q.state = o.state /\ q.data = o.data /\ q.input = o.input
    BY <2>1, <2>3 DEF Objects
  <2>5. (Complete(q) <=> Complete(o)) /\ (Malformed(q) <=> Malformed(o))
    BY <2>1, <2>4, ScriptIs
  <2>6. o.state \in {"need_more_data", "handling"}
    BY <2>1, <2>3, ObjectIs DEF Progress
  <2>7. CASE o.state = "need_more_data"
    BY <2>3, <2>4, <2>5, <2>7 DEF Progress, o
  <2>8. CASE o.state = "handling"
    BY <2>3, <2>4, <2>8 DEF Progress, o
  <2> QED
    BY <2>6, <2>7, <2>8
<1> QED
  BY <1>1, Invariance, PTL

-----------------------------------------------------------------------------
(* The reasons to close a connection.                                         *)

LEMMA FlushKeepsOpen ==
  ASSUME NEW q \in Objects, q.state # "closed", NEW p \in stream_flush(q)
  PROVE  p.state # "closed"
BY FlushKeeps DEF Flushed

(* The event loop closes what its client has ended, unless a plain stream has *)
(* written all it had to.                                                     *)
LEMMA LoopClosesEnded ==
  ASSUME IInv, Ssl, NEW r \in Requests, request[r].state # "closed",
         request[r].peer = "open", EventLoop
  PROVE  request'[r].state # "closed"
<1>1. request[r] \in Objects /\ request \in [Requests -> Objects]
  BY DEF IInv, TypeOK, Objects
<1>2. CASE Report
  BY <1>2, ReportIs DEF EdgeOnly
<1>3. ASSUME NEW s \in Requests, stream_read(s)
      PROVE  request'[r].state # "closed"
  <2> DEFINE q == [request[s] EXCEPT !.input = request[s].sent]
             p == IF q.input > request[s].input /\ Updates(q) THEN Updating(q) ELSE q
  <2>1. request' = [request EXCEPT ![s] = p]
    BY <1>3 DEF stream_read
  <2>2. request[s] \in Objects
    BY <1>1
  <2>3. p.state = request[s].state \/ p.state = "read"
    BY <2>2 DEF Updating, server_hold, Objects
  <2> HIDE DEF p
  <2> QED
    BY <1>1, <2>1, <2>3
<1>4. ASSUME NEW s \in Requests, stream_write(s)
      PROVE  request'[r].state # "closed"
  <2>1. PICK q \in stream_flush(request[s]) : request' = [request EXCEPT ![s] = q]
    BY <1>4 DEF stream_write
  <2> QED
    BY <1>1, <2>1, FlushKeepsOpen
<1>5. ASSUME NEW s \in Requests, stream_hangup(s)
      PROVE  request'[r].state # "closed"
  <2>1. "close" \in due[s] /\ request' = [request EXCEPT ![s] = server_close(@)]
    BY <1>5 DEF stream_hangup, Deliver
  <2>2. s # r
    BY <2>1 DEF IInv, DueIsTrue
  <2> QED
    BY <1>1, <2>1, <2>2
<1> QED
  BY <1>2, <1>3, <1>4, <1>5 DEF EventLoop

(* What a call that returns leaves of an open connection.                     *)
LEMMA OpenReturns ==
  ASSUME IInv, NEW r \in Requests, request[r].state # "closed", UpdateReturns(r)
  PROVE  /\ request' = [request EXCEPT ![r] = request'[r]]
         /\ request'[r] \in Objects /\ request'[r].state # "closed"
         /\ request'[r].data = request[r].data /\ request'[r].sent = request[r].sent
         /\ Len(request'[r].got) >= Len(request[r].got)
         /\ request'[r].got \o request'[r].output = request[r].got \o request[r].output
<1> DEFINE o == request[r]
           a == AnswersOf(r)
<1>1. /\ InUpdate(r) /\ o.state # "read" /\ stack' = Pop
  BY DEF UpdateReturns
<1>2. PICK q \in stream_flush(Consumed(o)) :
        Becomes(r, IF Top.answered THEN server_release(Ended(q)) ELSE Ended(q))
  BY DEF UpdateReturns, Consumed, Ended
<1>3. /\ o \in Objects /\ CallsOf(r) = 1 /\ a \in {0, 1} /\ held[r] \in Nat
      /\ Sound(o, held[r], owed[r], 1, a) /\ stack # <<>> /\ Top.request = r
  BY <1>1, UpdateIs, RequestIs DEF InUpdate
<1>4. Top.answered <=> a = 1
  BY <1>1, <1>3, PopKeeps DEF IInv
<1> DEFINE p == Left(q, a)
<1>5. Becomes(r, p)
  BY <1>2, <1>4 DEF Left
<1> HIDE DEF o, a, p
<1>6. /\ p \in Objects /\ p.state # "closed" /\ p.data = o.data /\ p.sent = o.sent
      /\ Len(p.got) >= Len(o.got) /\ p.got \o p.output = o.got \o o.output
  <2>1. o.state # "closed"
    BY DEF o
  <2> QED
    BY <1>1, <1>2, <1>3, <2>1, EndOfOpen, ZenonT(60) DEF p
<1>7. request'[r] = p /\ request' = [request EXCEPT ![r] = p]
  BY <1>5 DEF Becomes, IInv, TypeOK
<1> QED
  BY <1>6, <1>7 DEF o

(* A call closes a connection only for a malformed request.                   *)
LEMMA UpdateClosesMalformed ==
  ASSUME IInv, NEW r \in Requests, request[r].state # "closed", Update, ~ReadMalformed(r)
  PROVE  request'[r].state # "closed"
<1>1. request[r] \in Objects /\ request \in [Requests -> Objects]
  BY DEF IInv, TypeOK, Objects
<1>2. ASSUME NEW s \in Requests, NEW q, Becomes(s, q), s = r => q.state # "closed"
      PROVE  request'[r].state # "closed"
  BY <1>1, <1>2 DEF Becomes
<1>3. CASE Return
  BY <1>3 DEF Return
<1>4. ASSUME NEW s \in Requests, NeedMoreData(s)
      PROVE  request'[r].state # "closed"
  <2> DEFINE q == [request[s] EXCEPT !.state = "need_more_data"]
  <2>1. Becomes(s, q)
    BY <1>4 DEF NeedMoreData
  <2>2. s = r => q.state # "closed"
    BY <1>1 DEF Objects
  <2> HIDE DEF q
  <2> QED
    BY <1>2, <2>1, <2>2
<1>5. ASSUME NEW s \in Requests, ReadMalformed(s)
      PROVE  request'[r].state # "closed"
  <2>1. PICK q : Becomes(s, q)
    BY <1>5 DEF ReadMalformed
  <2>2. s # r
    BY <1>5
  <2> QED
    BY <1>2, <2>1, <2>2
<1>6. ASSUME NEW s \in Requests, ReadRequest(s)
      PROVE  request'[r].state # "closed"
  <2> DEFINE q == [server_hold(request[s]) EXCEPT !.state = "handling", !.data = @ + 2]
  <2>1. Becomes(s, q)
    BY <1>6 DEF ReadRequest
  <2>2. s = r => q.state # "closed"
    BY <1>1 DEF Objects, server_hold
  <2> HIDE DEF q
  <2> QED
    BY <1>2, <2>1, <2>2
<1>7. ASSUME NEW s \in Requests, UpdateReturns(s)
      PROVE  request'[r].state # "closed"
  <2>1. CASE s = r
    BY <1>7, <2>1, OpenReturns
  <2>2. CASE s # r
    <3>1. PICK q : Becomes(s, q)
      BY <1>7 DEF UpdateReturns
    <3> QED
      BY <1>2, <2>2, <3>1
  <2> QED
    BY <2>1, <2>2
<1> QED
  BY <1>3, <1>4, <1>5, <1>6, <1>7 DEF Update

LEMMA ClientsCloseNothing ==
  ASSUME IInv, NEW r \in Requests, request[r].state # "closed", Clients
  PROVE  request'[r].state # "closed"
<1>1. request[r] \in Objects /\ request \in [Requests -> Objects]
  BY DEF IInv, TypeOK, Objects
<1>2. ASSUME NEW s \in Requests, Send(s)
      PROVE  request'[r].state # "closed"
  BY <1>1, <1>2 DEF Send, Becomes, Objects
<1>3. ASSUME NEW s \in Requests, NEW how, HangUp(s, how)
      PROVE  request'[r].state # "closed"
  BY <1>1, <1>3 DEF HangUp, Becomes, Objects
<1> QED
  BY <1>2, <1>3 DEF Clients

(* With SSL, the server never hangs up on a client by itself: a connection    *)
(* that its client has not ended is closed for a malformed request or because *)
(* the application wants it.                                                  *)
THEOREM NoHangUpWithoutReason ==
  ASSUME ~ShutdownInUse, Ssl PROVE Spec => HangsUpForAReason
<1>1. ASSUME IInv, [Next]_vars
      PROVE  [\A r \in Requests :
                r \in Open /\ request[r].peer = "open" /\ request'[r].state = "closed" =>
                  Application \/ ReadMalformed(r)]_vars
  <2> SUFFICES ASSUME Next, NEW r \in Requests, r \in Open, request[r].peer = "open",
                      request'[r].state = "closed"
               PROVE  Application \/ ReadMalformed(r)
    BY <1>1
  <2>1. request[r].state # "closed"
    BY DEF Open
  <2>2. ~EventLoop
    BY <1>1, <2>1, LoopClosesEnded
  <2>3. Update => ReadMalformed(r)
    BY <1>1, <2>1, UpdateClosesMalformed
  <2>4. ~Clients
    BY <1>1, <2>1, ClientsCloseNothing
  <2> QED
    BY <2>2, <2>3, <2>4 DEF Next
<1> QED
  BY <1>1, Invariance, PTL DEF Spec, HangsUpForAReason

-----------------------------------------------------------------------------
(* The promise to the clients.                                                *)

Row(o, i, j, s, k) ==
  [open |-> o, arrived |-> i, asked |-> j, answers |-> s, sent |-> k]

LEMMA RowIs ==
  ASSUME NEW o, NEW i, NEW j, NEW s, NEW k, NEW x
  PROVE  /\ Row(o, i, j, s, k).open = o /\ Row(o, i, j, s, k).arrived = i
         /\ Row(o, i, j, s, k).asked = j /\ Row(o, i, j, s, k).answers = s
         /\ Row(o, i, j, s, k).sent = k
         /\ [Row(o, i, j, s, k) EXCEPT !.open = x] = Row(x, i, j, s, k)
         /\ [Row(o, i, j, s, k) EXCEPT !.arrived = x] = Row(o, x, j, s, k)
         /\ [Row(o, i, j, s, k) EXCEPT !.asked = x] = Row(o, i, x, s, k)
         /\ [Row(o, i, j, s, k) EXCEPT !.answers = x] = Row(o, i, j, x, k)
         /\ [Row(o, i, j, s, k) EXCEPT !.sent = x] = Row(o, i, j, s, x)
BY DEF Row

(* The views of the open connections: o stands for TRUE.                      *)
LEMMA ViewIs ==
  ASSUME NEW q \in Objects, NEW p \in Objects, q.state # "closed", p.state # "closed"
  PROVE  /\ View(q).open
         /\ View(q) = Row(View(q).open, q.sent \div 2, q.data \div 2, q.got \o q.output,
                          Len(q.got))
         /\ View(p) = Row(View(q).open, p.sent \div 2, p.data \div 2, p.got \o p.output,
                          Len(p.got))
<1>1. View(q).open /\ View(p).open
  BY DEF View
<1>2. View(p).open = View(q).open
  BY DEF View
<1>3. /\ View(q) = Row(View(q).open, q.sent \div 2, q.data \div 2, q.got \o q.output,
                       Len(q.got))
      /\ View(p) = Row(View(p).open, p.sent \div 2, p.data \div 2, p.got \o p.output,
                       Len(p.got))
  BY DEF View, Row
<1> QED
  BY <1>1, <1>2, <1>3

(* What has gone out is some of what was written.                             *)
LEMMA GoneIs ==
  ASSUME NEW x \in Seq(Nat), NEW y \in Seq(Nat), NEW n \in Nat, n <= Len(x)
  PROVE  Len(x) \in n..Len(x \o y)
<1> DEFINE i == Len(x)
           j == Len(y)
<1>1. i \in Nat /\ j \in Nat /\ Len(x \o y) = i + j
  BY LenProperties, ConcatProperties
<1> HIDE DEF i, j
<1>2. n <= i
  BY DEF i
<1>3. i \in n..(i + j)
  BY <1>1, <1>2
<1> QED
  BY <1>1, <1>3 DEF i

(* A step of Pipeline on one connection.                                      *)
Promised(v, w) ==
  \/ ~v.open /\ w = Promise!Fresh
  \/ v.open /\ w = Promise!None
  \/ v.open /\ w = [v EXCEPT !.arrived = @ + 1]
  \/ /\ v.open /\ v.asked = Len(v.answers) /\ v.asked < v.arrived
     /\ w = [v EXCEPT !.asked = @ + 1]
  \/ v.open /\ w \in Promise!Transmitted(v)
  \/ /\ v.open /\ v.asked = Len(v.answers) + 1
     /\ w \in Promise!Transmitted([v EXCEPT !.answers = Append(@, v.asked)])

LEMMA PromisedStep ==
  ASSUME NEW r \in Requests, NEW w, Views' = [Views EXCEPT ![r] = w], Promised(Views[r], w)
  PROVE  Promise!Next
<1> DEFINE v == Views[r]
<1>1. Promise!Becomes(r, w)
  BY DEF Promise!Becomes
<1> HIDE DEF v
<1>2. CASE ~v.open /\ w = Promise!Fresh
  BY <1>1, <1>2 DEF Promise!Next, Promise!Accept, v
<1>3. CASE v.open /\ w = Promise!None
  BY <1>1, <1>3 DEF Promise!Next, Promise!Close, v
<1>4. CASE v.open /\ w = [v EXCEPT !.arrived = @ + 1]
  BY <1>1, <1>4 DEF Promise!Next, Promise!Arrive, v
<1>5. CASE /\ v.open /\ v.asked = Len(v.answers) /\ v.asked < v.arrived
           /\ w = [v EXCEPT !.asked = @ + 1]
  BY <1>1, <1>5 DEF Promise!Next, Promise!Ask, v
<1>6. CASE v.open /\ w \in Promise!Transmitted(v)
  BY <1>1, <1>6 DEF Promise!Next, Promise!Transmit, v
<1>7. CASE /\ v.open /\ v.asked = Len(v.answers) + 1
           /\ w \in Promise!Transmitted([v EXCEPT !.answers = Append(@, v.asked)])
  BY <1>1, <1>7 DEF Promise!Next, Promise!Answer, v
<1> QED
  BY <1>2, <1>3, <1>4, <1>5, <1>6, <1>7 DEF Promised, v

(* A step of the server on the request r is one of Pipeline, or no step of it.*)
Allowed(r) ==
  \E q : /\ request' = [request EXCEPT ![r] = q]
         /\ \/ q.state = "closed"
            \/ View(q) = View(request[r])
            \/ Promised(View(request[r]), View(q))

LEMMA EmptiedView ==
  ASSUME NEW q \in Objects, q.state = "closed", Emptied(q)
  PROVE  View(q) = Promise!None
<1>1. 0 \div 2 = 0 /\ Len(<<>>) = 0 /\ <<>> \o <<>> = <<>>
  BY EmptySeq, ConcatEmptySeq
<1> QED
  BY <1>1 DEF View, Emptied, Promise!None

LEMMA AllowedStep ==
  ASSUME IInv, IInv', NEW r \in Requests, Allowed(r)
  PROVE  [Promise!Next]_Views
<1>1. PICK q : /\ request' = [request EXCEPT ![r] = q]
               /\ \/ q.state = "closed"
                  \/ View(q) = View(request[r])
                  \/ Promised(View(request[r]), View(q))
  BY DEF Allowed
<1>2. /\ request \in [Requests -> Objects] /\ request' \in [Requests -> Objects]
      /\ request'[r] = q /\ q \in Objects /\ request[r] \in Objects
  BY <1>1 DEF IInv, TypeOK, Objects
<1>3. Views[r] = View(request[r]) /\ Views' = [Views EXCEPT ![r] = View(q)]
  BY <1>1, <1>2 DEF Views
<1>4. CASE View(q) = View(request[r])
  <2>1. Views' = Views
    BY <1>3, <1>4 DEF Views
  <2> QED
    BY <2>1
<1>5. CASE Promised(View(request[r]), View(q))
  BY <1>3, <1>5, PromisedStep
<1>6. CASE q.state = "closed"
  <2>1. Emptied(q)
    BY <1>2, <1>6 DEF IInv, Sound
  <2>2. View(q) = Promise!None
    BY <1>2, <1>6, <2>1, EmptiedView
  <2>3. CASE request[r].state = "closed"
    <3>1. Emptied(request[r])
      BY <2>3, RequestIs DEF Sound
    <3> QED
      BY <1>2, <1>4, <2>2, <2>3, <3>1, EmptiedView
  <2>4. CASE request[r].state # "closed"
    <3>1. View(request[r]).open
      BY <2>4 DEF View
    <3>2. Promised(View(request[r]), View(q))
      BY <2>2, <3>1 DEF Promised
    <3> QED
      BY <1>5, <3>2
  <2> QED
    BY <2>3, <2>4
<1> QED
  BY <1>1, <1>4, <1>5, <1>6

LEMMA SameView ==
  ASSUME NEW q \in Objects, NEW p \in Objects, q.state # "closed", p.state # "closed",
         p.data = q.data, p.sent = q.sent, p.got = q.got, p.output = q.output
  PROVE  View(p) = View(q)
BY DEF View

(* Some of the answers that were written go out.                              *)
LEMMA SentView ==
  ASSUME NEW q \in Objects, NEW p \in Objects, q.state # "closed", p.state # "closed",
         p.data = q.data, p.sent = q.sent, p.got \o p.output = q.got \o q.output,
         Len(p.got) >= Len(q.got)
  PROVE  View(p) \in Promise!Transmitted(View(q))
<1> DEFINE s == q.got \o q.output
           k == Len(q.got)
           n == Len(p.got)
           o == View(q).open
<1>1. /\ View(q) = Row(o, q.sent \div 2, q.data \div 2, s, k)
      /\ View(p) = Row(o, q.sent \div 2, q.data \div 2, s, n)
  BY ViewIs
<1>2. n \in k..Len(s)
  <2>1. p.got \in Seq(Nat) /\ p.output \in Seq(Nat) /\ k \in Nat /\ n \in Nat /\ k <= n
    BY ObjectIs
  <2>2. n \in k..Len(p.got \o p.output)
    BY <2>1, GoneIs
  <2> QED
    BY <2>2
<1> HIDE DEF s, k, n, o
<1>3. View(p) = [View(q) EXCEPT !.sent = n] /\ View(q).sent = k /\ View(q).answers = s
  BY <1>1, RowIs
<1> QED
  BY <1>2, <1>3 DEF Promise!Transmitted

LEMMA ReleaseView ==
  ASSUME NEW q \in Objects, q.state # "closed"
  PROVE  server_release(q).state = "closed" \/ View(server_release(q)) = View(q)
<1>1. CASE q.ref = 1
  BY <1>1 DEF server_release, Free
<1>2. CASE q.ref # 1
  <2>1. server_release(q) = [q EXCEPT !.ref = @ - 1]
    BY <1>2 DEF server_release
  <2> DEFINE p == server_release(q)
  <2>2. /\ p.state = q.state /\ p.data = q.data /\ p.sent = q.sent
        /\ p.got = q.got /\ p.output = q.output
    BY <2>1 DEF Objects
  <2> HIDE DEF p
  <2>3. View(p) = View(q)
    BY <2>2 DEF View
  <2> QED
    BY <2>3 DEF p
<1> QED
  BY <1>1, <1>2

(* The request in hand is answered.                                           *)
LEMMA AnswerView ==
  ASSUME NEW q \in Objects, NEW p \in Objects, q.state # "closed", p.state # "closed",
         p.data = q.data, p.sent = q.sent, Len(p.got) >= Len(q.got), NEW m,
         p.got \o p.output = q.got \o Append(q.output, m), m = q.data \div 2,
         Len(q.got) + Len(q.output) + 1 = q.data \div 2
  PROVE  Promised(View(q), View(p))
<1> DEFINE v == View(q)
           s == q.got \o q.output
           k == Len(q.got)
           n == Len(p.got)
           i == q.sent \div 2
           a == Append(s, m)
           o == v.open
           u == [v EXCEPT !.answers = a]
<1>1. /\ q.got \in Seq(Nat) /\ q.output \in Seq(Nat) /\ k \in Nat /\ n \in Nat /\ k <= n
      /\ m \in Nat /\ p.got \in Seq(Nat) /\ p.output \in Seq(Nat)
  BY ObjectIs, HalfIs
<1>2. p.got \o p.output = a
  BY <1>1, WriteIs
<1>3. v = Row(o, i, m, s, k)
  BY ViewIs
<1>4. View(p) = Row(o, i, m, a, n)
  <2> HIDE DEF a
  <2> QED
    BY <1>2, ViewIs
<1>5. m = Len(s) + 1
  <2>1. Len(s) = k + Len(q.output)
    BY <1>1, ConcatProperties
  <2> QED
    BY <2>1, Zenon
<1>6. n \in k..Len(a)
  <2>1. n \in k..Len(p.got \o p.output)
    BY <1>1, GoneIs
  <2> HIDE DEF a, n, k
  <2> QED
    BY <1>2, <2>1, Zenon
<1>7. v.open
  BY DEF View
<1> HIDE DEF v, s, k, n, i, a, o
<1>8. v.asked = m /\ v.answers = s /\ u = Row(o, i, m, a, k)
  <2>1. v.asked = m /\ v.answers = s
    BY <1>3, RowIs
  <2>2. u = [Row(o, i, m, s, k) EXCEPT !.answers = a]
    BY <1>3, Zenon
  <2>3. [Row(o, i, m, s, k) EXCEPT !.answers = a] = Row(o, i, m, a, k)
    BY RowIs
  <2> QED
    BY <2>1, <2>2, <2>3, Zenon
<1>9. u = [v EXCEPT !.answers = Append(@, v.asked)]
  BY <1>8 DEF a
<1> HIDE DEF u
<1>10. u.sent = k /\ u.answers = a /\ View(p) = [u EXCEPT !.sent = n]
  BY <1>4, <1>8, RowIs
<1>11. View(p) \in Promise!Transmitted(u)
  BY <1>6, <1>10 DEF Promise!Transmitted
<1> QED
  BY <1>5, <1>7, <1>8, <1>9, <1>11 DEF Promised, v

(* The event loop.                                                            *)
LEMMA ReadAllowed == ASSUME IInv, NEW r \in Requests, stream_read(r) PROVE Allowed(r)
<1> DEFINE q == [request[r] EXCEPT !.input = request[r].sent]
           p == IF q.input > request[r].input /\ Updates(q) THEN Updating(q) ELSE q
<1>1. request' = [request EXCEPT ![r] = p] /\ Deliver(r, "read")
  BY DEF stream_read
<1>2. /\ request[r] \in Objects /\ request[r].state # "closed"
      /\ Sound(request[r], held[r], owed[r], 0, 0)
  BY <1>1, DueIs, RequestIs
<1>3. q \in Objects
  BY <1>2 DEF Objects
<1>4. /\ q.data = request[r].data /\ q.consumed = request[r].data
      /\ q.sent = request[r].sent /\ q.state = request[r].state
      /\ q.got = request[r].got /\ q.output = request[r].output
  BY <1>2 DEF Objects, Sound, Progress
<1> HIDE DEF q
<1>5. View(p) = View(request[r])
  <2>1. CASE p = q
    BY <1>2, <1>3, <1>4, <2>1, SameView
  <2>2. CASE p # q
    <3>1. p = Updating(q)
      BY <2>2
    <3>2. p \in Objects /\ p.state # "closed" /\ p.data = q.data /\ p.sent = q.sent
          /\ p.got = q.got /\ p.output = q.output
      BY <1>3, <1>4, <3>1, UpdatingIs
    <3> HIDE DEF p
    <3> QED
      BY <1>2, <1>4, <3>2, SameView
  <2> QED
    BY <2>1, <2>2
<1> HIDE DEF p
<1> QED
  BY <1>1, <1>5 DEF Allowed

LEMMA WriteAllowed == ASSUME IInv, NEW r \in Requests, stream_write(r) PROVE Allowed(r)
<1>1. Deliver(r, "write")
  BY DEF stream_write
<1>2. PICK q \in stream_flush(request[r]) :
        request' = [request EXCEPT
                      ![r] = IF q.output = <<>> /\ ~Ssl THEN server_close(q) ELSE q]
  BY DEF stream_write
<1>3. request[r] \in Objects /\ request[r].state # "closed"
  BY <1>1, DueIs, RequestIs
<1>4. Flushed(request[r], q)
  BY <1>2, <1>3, FlushKeeps
<1>5. q \in Objects /\ View(q) \in Promise!Transmitted(View(request[r]))
  BY <1>3, <1>4, SentView DEF Flushed
<1>6. Promised(View(request[r]), View(q))
  BY <1>3, <1>5, ViewIs DEF Promised
<1>7. server_close(q).state = "closed"
  BY <1>5, ClosedIs
<1> QED
  BY <1>2, <1>6, <1>7 DEF Allowed

LEMMA HangupAllowed == ASSUME IInv, NEW r \in Requests, stream_hangup(r) PROVE Allowed(r)
<1>1. request' = [request EXCEPT ![r] = server_close(request[r])]
  BY DEF stream_hangup
<1>2. server_close(request[r]).state = "closed"
  BY RequestIs, ClosedIs
<1> QED
  BY <1>1, <1>2 DEF Allowed

(* The loop of server_request_update.                                         *)
LEMMA NeedMoreDataAllowed ==
  ASSUME IInv, NEW r \in Requests, NeedMoreData(r) PROVE Allowed(r)
<1> DEFINE q == [request[r] EXCEPT !.state = "need_more_data"]
<1>1. request' = [request EXCEPT ![r] = q] /\ request[r].state = "read"
  BY DEF NeedMoreData, Becomes, Reads
<1>2. request[r] \in Objects
  BY RequestIs
<1>3. /\ q \in Objects /\ q.state = "need_more_data" /\ q.data = request[r].data
      /\ q.sent = request[r].sent /\ q.got = request[r].got /\ q.output = request[r].output
  BY <1>2 DEF Objects
<1> HIDE DEF q
<1>4. View(q) = View(request[r])
  BY <1>1, <1>2, <1>3, SameView
<1> QED
  BY <1>1, <1>4 DEF Allowed

LEMMA ReadMalformedAllowed ==
  ASSUME IInv, NEW r \in Requests, ReadMalformed(r) PROVE Allowed(r)
<1> DEFINE s == [request[r] EXCEPT !.state = "handling"]
           q == server_hold(s)
<1>1. PICK p \in BadRequest(q) : request' = [request EXCEPT ![r] = p]
  BY DEF ReadMalformed, Becomes
<1>2. request[r] \in Objects
  BY RequestIs
<1>3. s \in Objects
  BY <1>2 DEF Objects
<1>4. q \in Objects
  BY <1>3, HoldIs
<1> HIDE DEF q
<1>5. p.state = "closed"
  BY <1>1, <1>4, BadRequestCloses
<1> QED
  BY <1>1, <1>5 DEF Allowed

LEMMA ReadRequestAllowed ==
  ASSUME IInv, NEW r \in Requests, ReadRequest(r) PROVE Allowed(r)
<1> DEFINE o == request[r]
           q == [server_hold(o) EXCEPT !.state = "handling", !.data = @ + 2]
           v == View(o)
<1>1. /\ request' = [request EXCEPT ![r] = q] /\ o.state = "read" /\ InUpdate(r)
      /\ Complete(o)
  BY DEF ReadRequest, Reads, Becomes
<1>2. o \in Objects /\ Sound(o, held[r], owed[r], 1, AnswersOf(r))
  BY <1>1, UpdateIs, RequestIs
<1> HIDE DEF o
<1>3. q = [o EXCEPT !.ref = o.ref + 1, !.state = "handling", !.data = o.data + 2]
  BY <1>2 DEF server_hold, Objects
<1> HIDE DEF q
<1>4. /\ q \in Objects /\ q.state = "handling" /\ q.data = o.data + 2 /\ q.sent = o.sent
      /\ q.got = o.got /\ q.output = o.output
  <2>1. o.ref + 1 \in Nat /\ o.data + 2 \in Nat
    BY <1>2, ObjectIs
  <2> QED
    BY <1>2, <1>3, <2>1 DEF Objects
<1> DEFINE i == o.sent \div 2
           j == o.data \div 2
           s == o.got \o o.output
           k == Len(o.got)
           t == v.open
<1>5. q.data \div 2 = j + 1 /\ j \in Nat
  BY <1>2, <1>4, ObjectIs, HalfIs
<1>6. j < i
  <2>1. o.data + 2 <= o.sent /\ o.data \in Nat /\ o.sent \in Nat /\ o.data % 2 = 0
    BY <1>1, <1>2, ObjectIs DEF Complete, Unread, Sound, Progress, Taken
  <2>2. \A x, y \in Nat : x + 2 <= y => x \div 2 < y \div 2
    OBVIOUS
  <2> QED
    BY <2>1, <2>2
<1>7. j = Len(s)
  <2>1. o.got \in Seq(Nat) /\ o.output \in Seq(Nat)
    BY <1>2, ObjectIs
  <2>2. Len(s) = Len(o.got) + Len(o.output)
    BY <2>1, ConcatProperties
  <2>3. Len(o.got) + Len(o.output) = o.data \div 2
    BY <1>1, <1>2 DEF Sound, Progress
  <2> QED
    BY <2>2, <2>3, Zenon
<1>8. v = Row(t, i, j, s, k) /\ View(q) = Row(t, i, q.data \div 2, s, k)
  BY <1>1, <1>2, <1>4, ViewIs
<1>9. v.open
  BY <1>1 DEF View
<1> HIDE DEF v, i, j, s, k, t
<1>10. /\ v.asked = j /\ v.answers = s /\ v.arrived = i
  BY <1>8, RowIs
<1>11. View(q) = [v EXCEPT !.asked = @ + 1]
  <2>1. View(q) = Row(t, i, j + 1, s, k)
    BY <1>5, <1>8
  <2>2. [v EXCEPT !.asked = @ + 1] = [Row(t, i, j, s, k) EXCEPT !.asked = j + 1]
    BY <1>8, <1>10, Zenon
  <2> QED
    BY <2>1, <2>2, RowIs
<1>12. Promised(v, View(q))
  BY <1>6, <1>7, <1>9, <1>10, <1>11 DEF Promised
<1> QED
  BY <1>1, <1>12 DEF Allowed, v, o

LEMMA UpdateReturnsAllowed ==
  ASSUME IInv, NEW r \in Requests, UpdateReturns(r) PROVE Allowed(r)
<1>1. CASE request[r].state # "closed"
  <2> DEFINE q == request'[r]
  <2>1. /\ request' = [request EXCEPT ![r] = q]
        /\ q \in Objects /\ q.state # "closed"
        /\ q.data = request[r].data /\ q.sent = request[r].sent
        /\ Len(q.got) >= Len(request[r].got)
        /\ q.got \o q.output = request[r].got \o request[r].output
    BY <1>1, OpenReturns
  <2> HIDE DEF q
  <2>2. View(q) \in Promise!Transmitted(View(request[r]))
    BY <1>1, <2>1, RequestIs, SentView
  <2>3. View(request[r]).open
    BY <1>1 DEF View
  <2>4. Promised(View(request[r]), View(q))
    BY <2>2, <2>3 DEF Promised
  <2> QED
    BY <2>1, <2>4 DEF Allowed
<1>2. CASE request[r].state = "closed"
  <2> DEFINE o == request[r]
  <2>1. /\ InUpdate(r) /\ stack' = Pop
        /\ Becomes(r, IF Top.answered THEN server_release(Ended(o)) ELSE Ended(o))
    BY <1>2 DEF UpdateReturns, Ended
  <2>2. /\ o \in Objects /\ held[r] \in Nat /\ AnswersOf(r) \in {0, 1} /\ stack # <<>>
        /\ Top.request = r
        /\ Sound(o, held[r], owed[r], 1, AnswersOf(r))
    BY <2>1, UpdateIs, RequestIs DEF InUpdate
  <2>3. AnswersOf(r) = 1 <=> Top.answered
    BY <2>1, <2>2, PopKeeps DEF IInv
  <2> DEFINE q == Left(o, AnswersOf(r))
  <2>4. request' = [request EXCEPT ![r] = q]
    BY <2>1, <2>3 DEF Becomes, Left
  <2>5. q.state = "closed"
    BY <1>2, <2>2, EndOfClosed
  <2> HIDE DEF q
  <2> QED
    BY <2>4, <2>5 DEF Allowed
<1> QED
  BY <1>1, <1>2

(* What the application calls.                                                *)
LEMMA RespondAtOnceAllowed ==
  ASSUME IInv, NEW r \in Requests, MayAnswer(r), RespondAtOnce(r)
  PROVE  Allowed(r)
<1> DEFINE o == request[r]
           p == Answered(o, owed[r], "read")
           q == server_release(p)
<1>1. request' = [request EXCEPT ![r] = q] /\ o.state # "closed"
  BY DEF RespondAtOnce, Answered, Becomes
<1>2. o \in Objects /\ owed[r] \in Nat
  BY RequestIs
<1>3. owed[r] = o.data \div 2 /\ Len(o.got) + Len(o.output) + 1 = o.data \div 2
  BY <1>1, AnswerableIs
<1> HIDE DEF o
<1>4. /\ p \in Objects /\ p.data = o.data /\ p.sent = o.sent /\ p.state = "read"
      /\ p.got = o.got /\ p.output = Append(o.output, owed[r])
  BY <1>2, AnsweredIs
<1> HIDE DEF p
<1>5. Len(p.got) >= Len(o.got) /\ p.got \o p.output = o.got \o Append(o.output, owed[r])
  BY <1>2, <1>4, ObjectIs
<1>6. Promised(View(o), View(p))
  BY <1>1, <1>2, <1>3, <1>4, <1>5, AnswerView
<1>7. q.state = "closed" \/ View(q) = View(p)
  BY <1>4, ReleaseView
<1> HIDE DEF q
<1> QED
  BY <1>1, <1>6, <1>7 DEF Allowed, o

LEMMA RespondLaterAllowed ==
  ASSUME IInv, NEW r \in Requests, MayAnswer(r), RespondLater(r)
  PROVE  Allowed(r)
<1> DEFINE o == request[r]
           w == Answered(o, owed[r], "need_more_data")
<1>1. o.state # "closed" /\ ~o.event_triggered
  BY DEF RespondLater
<1>2. PICK p \in stream_flush(w) :
        \/ request' = [request EXCEPT ![r] = Updating(p)]
        \/ request' = [request EXCEPT ![r] = server_release(p)]
  BY DEF RespondLater, Answered, Becomes
<1>3. o \in Objects /\ owed[r] \in Nat /\ CallsOf(r) = 0
  BY <1>1, RequestIs DEF Sound, Counted
<1>4. /\ owed[r] = o.data \div 2 /\ Len(o.got) + Len(o.output) + 1 = o.data \div 2
      /\ o.data = o.consumed
  BY <1>1, <1>3, AnswerableIs
<1> HIDE DEF o
<1>5. /\ w \in Objects /\ w.data = o.data /\ w.consumed = o.consumed
      /\ w.sent = o.sent /\ w.state = "need_more_data"
      /\ w.got = o.got /\ w.output = Append(o.output, owed[r])
  BY <1>3, AnsweredIs
<1> HIDE DEF w
<1>6. Flushed(w, p)
  BY <1>2, <1>5, FlushKeeps
<1>7. /\ p \in Objects /\ p.data = o.data /\ p.consumed = o.data /\ p.sent = o.sent
      /\ p.state = "need_more_data" /\ Len(p.got) >= Len(o.got)
      /\ p.got \o p.output = o.got \o Append(o.output, owed[r])
  BY <1>4, <1>5, <1>6 DEF Flushed
<1>8. Promised(View(o), View(p))
  BY <1>1, <1>3, <1>4, <1>7, AnswerView
<1>9. server_release(p).state = "closed" \/ View(server_release(p)) = View(p)
  BY <1>7, ReleaseView
<1>10. View(Updating(p)) = View(p)
  <2> DEFINE u == Updating(p)
  <2>1. /\ u \in Objects /\ u.data = p.data /\ u.state = "read" /\ u.sent = p.sent
        /\ u.got = p.got /\ u.output = p.output
    BY <1>7, UpdatingIs
  <2> HIDE DEF u
  <2>2. View(u) = View(p)
    BY <1>7, <2>1, SameView
  <2> QED
    BY <2>2 DEF u
<1> QED
  BY <1>2, <1>8, <1>9, <1>10 DEF Allowed, o

LEMMA RespondAllowed == ASSUME IInv, NEW r \in Requests, server_respond(r) PROVE Allowed(r)
<1>1. CASE RespondClosed(r)
  <2>1. server_release(request[r]).state = "closed"
    BY <1>1, RequestIs, ClosedIs DEF RespondClosed
  <2> QED
    BY <1>1, <2>1 DEF RespondClosed, Becomes, Allowed
<1>2. CASE RespondAtOnce(r)
  BY <1>2, RespondAtOnceAllowed DEF server_respond
<1>3. CASE RespondLater(r)
  BY <1>3, RespondLaterAllowed DEF server_respond
<1> QED
  BY <1>1, <1>2, <1>3 DEF server_respond

LEMMA BadRequestAllowed ==
  ASSUME IInv, NEW r \in Requests, server_bad_request(r) PROVE Allowed(r)
<1>1. PICK q \in IF request[r].state = "closed" THEN {server_release(request[r])}
                 ELSE BadRequest(request[r]) :
        request' = [request EXCEPT ![r] = q]
  BY DEF server_bad_request, Becomes
<1>2. q.state = "closed"
  <2>1. CASE request[r].state = "closed"
    BY <1>1, <2>1, RequestIs, ClosedIs
  <2>2. CASE request[r].state # "closed"
    BY <1>1, <2>2, RequestIs, BadRequestCloses
  <2> QED
    BY <2>1, <2>2
<1> QED
  BY <1>1, <1>2 DEF Allowed

LEMMA CloseAllowed == ASSUME IInv, NEW r \in Requests, Close(r) PROVE Allowed(r)
<1>1. request' = [request EXCEPT ![r] = server_close(request[r])]
  BY DEF Close, Becomes
<1>2. server_close(request[r]).state = "closed"
  BY RequestIs, ClosedIs
<1> QED
  BY <1>1, <1>2 DEF Allowed

LEMMA ReleaseAllowed == ASSUME IInv, NEW r \in Requests, Release(r) PROVE Allowed(r)
<1>1. request' = [request EXCEPT ![r] = server_release(request[r])]
  BY DEF Release, Becomes
<1>2. \/ server_release(request[r]).state = "closed"
      \/ View(server_release(request[r])) = View(request[r])
  BY RequestIs, ClosedIs, ReleaseView
<1> QED
  BY <1>1, <1>2 DEF Allowed

LEMMA HoldAllowed == ASSUME IInv, NEW r \in Requests, Hold(r) PROVE Allowed(r)
<1> DEFINE o == request[r]
           q == server_hold(o)
<1>1. request' = [request EXCEPT ![r] = q]
  BY DEF Hold, Becomes
<1>2. o \in Objects
  BY RequestIs
<1> HIDE DEF o
<1>3. q = [o EXCEPT !.ref = o.ref + 1] /\ q \in Objects
  BY <1>2, HoldIs
<1> HIDE DEF q
<1>4. /\ q.state = o.state /\ q.data = o.data /\ q.sent = o.sent
      /\ q.got = o.got /\ q.output = o.output
  BY <1>2, <1>3 DEF Objects
<1>5. q.state = "closed" \/ View(q) = View(o)
  BY <1>2, <1>3, <1>4, SameView
<1> QED
  BY <1>1, <1>5 DEF Allowed, o

LEMMA AcceptAllowed == ASSUME IInv, NEW r \in Requests, server_accept(r) PROVE Allowed(r)
<1>1. request' = [request EXCEPT ![r] = Accepted] /\ request[r].ref = 0
  BY DEF server_accept, Becomes
<1>2. request[r] \in Objects /\ request[r].state = "closed"
  BY <1>1, UnusedIs, RequestIs
<1>3. ~View(request[r]).open
  BY <1>2 DEF View
<1>4. View(Accepted) = Promise!Fresh
  <2>1. 0 \div 2 = 0 /\ Len(<<>>) = 0 /\ <<>> \o <<>> = <<>>
    BY EmptySeq, ConcatEmptySeq
  <2>2. /\ Accepted.state # "closed" /\ Accepted.data = 0 /\ Accepted.sent = 0
        /\ Accepted.output = <<>> /\ Accepted.got = <<>>
    BY DEF Accepted, Free
  <2>3. View(Accepted)
          = [open |-> TRUE, arrived |-> 0, asked |-> 0, answers |-> <<>>, sent |-> 0]
    BY <2>1, <2>2 DEF View
  <2>4. Promise!Fresh
          = [open |-> TRUE, arrived |-> 0, asked |-> 0, answers |-> <<>>, sent |-> 0]
    <3> DEFINE f == FALSE
               t == TRUE
    <3> HIDE DEF f, t
    <3>1. [Row(f, 0, 0, <<>>, 0) EXCEPT !.open = t] = Row(t, 0, 0, <<>>, 0)
      BY RowIs
    <3> QED
      BY <3>1, Zenon DEF Promise!Fresh, Promise!None, Row, f, t
  <2> QED
    BY <2>3, <2>4
<1>5. Promised(View(request[r]), View(Accepted))
  BY <1>3, <1>4 DEF Promised
<1> QED
  BY <1>1, <1>5 DEF Allowed

(* The clients.                                                               *)
LEMMA SendAllowed == ASSUME IInv, NEW r \in Requests, Send(r) PROVE Allowed(r)
<1> DEFINE o == request[r]
           q == [o EXCEPT !.sent = o.sent + 1, !.edge = o.writing]
           v == View(o)
<1>1. request' = [request EXCEPT ![r] = q] /\ o.state # "closed"
  BY DEF Send, Becomes, Open
<1>2. o \in Objects
  BY RequestIs
<1> HIDE DEF o
<1>3. /\ q \in Objects /\ q.state = o.state /\ q.data = o.data /\ q.sent = o.sent + 1
      /\ q.got = o.got /\ q.output = o.output
  <2>1. o.sent + 1 \in Nat /\ o.writing \in BOOLEAN
    BY <1>2, ObjectIs
  <2> QED
    BY <1>2, <2>1 DEF Objects
<1> HIDE DEF q
<1> DEFINE i == o.sent \div 2
           j == o.data \div 2
           s == o.got \o o.output
           k == Len(o.got)
           t == v.open
<1>4. q.sent \div 2 \in {i, i + 1}
  <2>1. \A x \in Nat : (x + 1) \div 2 \in {x \div 2, x \div 2 + 1}
    OBVIOUS
  <2> QED
    BY <1>2, <1>3, <2>1, ObjectIs
<1>5. v = Row(t, i, j, s, k) /\ View(q) = Row(t, q.sent \div 2, j, s, k)
  BY <1>1, <1>2, <1>3, ViewIs
<1>6. v.open
  BY <1>1 DEF View
<1> HIDE DEF v, i, j, s, k, t
<1>7. v.arrived = i
  BY <1>5, RowIs
<1>8. View(q) = v \/ View(q) = [v EXCEPT !.arrived = @ + 1]
  <2>1. CASE q.sent \div 2 = i
    BY <1>5, <2>1
  <2>2. CASE q.sent \div 2 = i + 1
    <3>1. View(q) = Row(t, i + 1, j, s, k)
      BY <1>5, <2>2
    <3>2. [v EXCEPT !.arrived = @ + 1] = [Row(t, i, j, s, k) EXCEPT !.arrived = i + 1]
      BY <1>5, <1>7, Zenon
    <3> QED
      BY <3>1, <3>2, RowIs
  <2> QED
    BY <1>4, <2>1, <2>2
<1>9. View(q) = v \/ Promised(v, View(q))
  BY <1>6, <1>8 DEF Promised
<1> QED
  BY <1>1, <1>9 DEF Allowed, v, o

LEMMA HangUpAllowed ==
  ASSUME IInv, NEW r \in Requests, NEW how \in {"closed", "reset"}, HangUp(r, how)
  PROVE  Allowed(r)
<1> DEFINE o == request[r]
           q == [o EXCEPT !.peer = how]
<1>1. request' = [request EXCEPT ![r] = q] /\ o.state # "closed"
  BY DEF HangUp, Becomes, Open
<1>2. o \in Objects
  BY RequestIs
<1> HIDE DEF o
<1>3. /\ q \in Objects /\ q.state = o.state /\ q.data = o.data /\ q.sent = o.sent
      /\ q.got = o.got /\ q.output = o.output
  BY <1>2 DEF Objects
<1> HIDE DEF q
<1>4. View(q) = View(o)
  BY <1>1, <1>2, <1>3, SameView
<1> QED
  BY <1>1, <1>4 DEF Allowed, o

(* A shutdown closes every connection; nothing else changes more than one.    *)
LEMMA ShutdownPromised ==
  ASSUME IInv, IInv', ~ShutdownInUse, server_shutdown
  PROVE  [Promise!Next]_Views
<1>1. ASSUME NEW r \in Requests
      PROVE  request'[r] \in Objects /\ request'[r].state = "closed"
  <2>1. request'[r] \in Objects
    BY DEF IInv, TypeOK, Objects
  <2>2. /\ request'[r] = IF request[r].ref > 0 THEN server_release(request[r]) ELSE request[r]
        /\ stack = <<>> /\ held[r] = 0
    BY DEF server_shutdown
  <2>3. request[r] \in Objects /\ request[r].ref \in Nat
    BY RequestIs, ObjectIs
  <2>4. CallsOf(r) = 0 /\ AnswersOf(r) = 0
    BY <2>2, EmptySeq DEF CallsOf, AnswersOf, Calls, AnsweringCalls
  <2>5. request[r].ref = IF request[r].state = "closed" THEN 0 ELSE 1
    BY <2>2, <2>4, RequestIs DEF Sound, Counted
  <2>6. CASE request[r].state = "closed"
    <3>1. ~(request[r].ref > 0)
      BY <2>5, <2>6
    <3>2. request'[r] = request[r]
      BY <2>2, <3>1
    <3> QED
      BY <2>1, <2>6, <3>2
  <2>7. CASE request[r].state # "closed"
    <3>1. request'[r] = [Free EXCEPT !.aborted = request[r].aborted]
      BY <2>2, <2>5, <2>7 DEF server_release
    <3> QED
      BY <2>1, <3>1 DEF Free
  <2> QED
    BY <2>1, <2>6, <2>7
<1>2. ASSUME NEW r \in Requests
      PROVE  View(request'[r]) = Promise!None
  <2>1. Emptied(request'[r])
    BY <1>1 DEF IInv, Sound
  <2> QED
    BY <1>1, <2>1, EmptiedView
<1>3. Views' = [r \in Requests |-> IF r \in Requests THEN Promise!None ELSE Views[r]]
  BY <1>2 DEF Views
<1>4. Promise!Shutdown
  BY <1>3 DEF Promise!Shutdown
<1> QED
  BY <1>4 DEF Promise!Next

LEMMA StepPromised ==
  ASSUME ~ShutdownInUse, IInv, IInv', [Next]_vars
  PROVE  [Promise!Next]_Views
<1>1. ASSUME UNCHANGED request PROVE [Promise!Next]_Views
  BY <1>1 DEF Views
<1>2. CASE EventLoop
  <2>1. CASE Report
    <3>1. ASSUME NEW r \in Requests PROVE View(request'[r]) = View(request[r])
      BY <2>1, ReportIs DEF EdgeOnly, View
    <3>2. Views' = Views
      BY <3>1 DEF Views
    <3> QED
      BY <3>2
  <2>2. ASSUME NEW r \in Requests, stream_read(r) \/ stream_write(r) \/ stream_hangup(r)
        PROVE  Allowed(r)
    BY <2>2, ReadAllowed, WriteAllowed, HangupAllowed
  <2> QED
    BY <1>2, <2>1, <2>2, AllowedStep DEF EventLoop
<1>3. CASE Update
  <2>1. CASE Return
    BY <1>1, <2>1 DEF Return
  <2>2. ASSUME NEW r \in Requests,
               NeedMoreData(r) \/ ReadMalformed(r) \/ ReadRequest(r) \/ UpdateReturns(r)
        PROVE  Allowed(r)
    BY <2>2, NeedMoreDataAllowed, ReadMalformedAllowed, ReadRequestAllowed,
       UpdateReturnsAllowed
  <2> QED
    BY <1>3, <2>1, <2>2, AllowedStep DEF Update
<1>4. CASE Application
  <2>1. CASE server_open
    BY <1>1, <2>1 DEF server_open
  <2>2. CASE server_shutdown
    BY <2>2, ShutdownPromised
  <2>3. ASSUME NEW r \in Requests,
               \/ server_respond(r) \/ server_bad_request(r)
               \/ Close(r) \/ Release(r) \/ Hold(r) \/ server_accept(r)
        PROVE  Allowed(r)
    BY <2>3, RespondAllowed, BadRequestAllowed, CloseAllowed, ReleaseAllowed, HoldAllowed,
       AcceptAllowed
  <2> QED
    BY <1>4, <2>1, <2>2, <2>3, AllowedStep DEF Application
<1>5. CASE Clients
  <2>1. ASSUME NEW r \in Requests,
               Send(r) \/ HangUp(r, "closed") \/ (Resets /\ HangUp(r, "reset"))
        PROVE  Allowed(r)
    BY <2>1, SendAllowed, HangUpAllowed
  <2> QED
    BY <1>5, <2>1, AllowedStep DEF Clients
<1>6. CASE UNCHANGED vars
  BY <1>1, <1>6 DEF vars
<1> QED
  BY <1>2, <1>3, <1>4, <1>5, <1>6 DEF Next

(* The server keeps its promise to every client, whatever the application     *)
(* does with the requests it is handed and whenever it answers: requests are  *)
(* handed out complete, in order and once, the next after the answer, and the *)
(* answers that arrive are those of requests 1, 2, 3, ...                     *)
THEOREM ServerImplementsPipeline == ASSUME ~ShutdownInUse PROVE Spec => ImplementsPipeline
<1>1. Init => Promise!Init
  <2> SUFFICES ASSUME Init PROVE Views = [r \in Requests |-> Promise!None]
    BY DEF Promise!Init
  <2>1. View(Free) = Promise!None
    BY FreeIs, EmptiedView
  <2> QED
    BY <2>1 DEF Init, Views
<1>2. IInv /\ IInv' /\ [Next]_vars => [Promise!Next]_Views
  BY StepPromised
<1> QED
  BY <1>1, <1>2, Invariance, PTL DEF Spec, ImplementsPipeline, Promise!Spec
=============================================================================
