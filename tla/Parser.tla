-------------------------------- MODULE Parser --------------------------------
(***************************************************************************)
(* Requests and responses are cut out of the bytes of a stream:            *)
(* src/picohttpparser/picohttpparser.c through src/reactor/http.c.         *)
(*                                                                         *)
(* A message arrives in pieces.  After each the parser starts over, at the *)
(* first byte that was not consumed, and returns the length of a message,  *)
(* -2 if more is needed, or -1.  Its operators map a position to the       *)
(* position after what they parse, or to one of the two results.  Bytes    *)
(* stand for their class; what lies in memory behind the buffer is any of  *)
(* Strays.                                                                 *)
(***************************************************************************)
EXTENDS Integers, Sequences, FiniteSetsExt

CONSTANTS
  Kinds,       (* "request", "response": what is read                        *)
  Inputs,      (* what a peer sends: sequences of Bytes, for each kind       *)
  Strays,      (* what may lie behind the buffer, up to a control character  *)
  MaxFields    (* the fields the caller has room for                         *)

SP == " "   HT == "\t"   CR == "\r"   LF == "\n"
Blank == {SP, HT}
NameChars == {"a", "H", "T", "P", "1", "."}     (* token_char_map             *)
Controls == {CR, LF, "ctl"}                     (* HT is one, except in text  *)
Bytes == NameChars \cup Blank \cup Controls \cup {"/", ":"}

VARIABLES
  kind, sent,  (* what the peer sends                                        *)
  checks,      (* whether the caller passes the length parsed before         *)
  received,    (* how much of it has arrived                                 *)
  consumed,    (* how much of that was returned as messages                  *)
  last_len,    (* what it passes, or 0                                       *)
  status,      (* "read", "need_more", "bad", or "strayed": bad, having read *)
               (* on behind the buffer                                       *)
  taken        (* history: the messages, each with the position it began at  *)

vars == <<kind, sent, checks, received, consumed, last_len, status, taken>>

-----------------------------------------------------------------------------
(* Results.                                                                   *)

Partial == -2
Bad == -1
Then(p, F(_)) == IF p < 0 THEN p ELSE F(p)

(* The first position from p to q with a byte of S.                           *)
Positions(m, p, q, S) == {i \in p..q : m[i] \in S}

CHECK_EOF(end, p, q) == IF p = end THEN Partial ELSE q

(* Slip: EXPECT_CHAR_NO_CHECK.                                                *)
ExpectUnchecked(m, end, p, ch) == IF m[p] = ch THEN p + 1 ELSE Bad

EXPECT_CHAR(m, end, p, ch) == CHECK_EOF(end, p, IF m[p] = ch THEN p + 1 ELSE Bad)

EndOfLine(m, end, p) ==
  CASE m[p] = CR -> EXPECT_CHAR(m, end, p + 1, LF)
    [] m[p] = LF -> p + 1
    [] OTHER     -> Bad

-----------------------------------------------------------------------------
(* The parts of a message.  Here m is the memory, of which the buffer is what *)
(* lies before end.                                                           *)

(* buf_end is looked for by equality: started behind it, the loop runs on.    *)
ADVANCE_TOKEN(m, end, p) ==
  LET stops == Positions(m, p, IF p <= end THEN end - 1 ELSE Len(m),
                         Controls \cup Blank)
      stop == Min(stops)
  IN  IF stops = {} THEN Partial ELSE IF m[stop] = SP THEN stop ELSE Bad

(* do ++buf while ( *buf == ' '), which does not look for buf_end at all.     *)
SkipSpaces(m, p) == Min(Positions(m, p + 1, Len(m), Bytes \ {SP}))

get_token_to_eol(m, end, p) ==
  LET stops == Positions(m, p, end - 1, Controls)
  IN  IF stops = {} THEN Partial ELSE EndOfLine(m, end, Min(stops))

(* The text of the line from p to next, without its end.                      *)
Text(m, p, next) ==
  SubSeq(m, p, IF next - 2 >= p /\ m[next - 2] = CR THEN next - 3 ELSE next - 2)
TrimRight(s) == SubSeq(s, 1, Max({0} \cup Positions(s, 1, Len(s), Bytes \ Blank)))
TrimLeft(s) == SubSeq(s, Min({Len(s) + 1} \cup Positions(s, 1, Len(s), Bytes \ {SP})), Len(s))

parse_http_version(m, end, p) ==
  CASE end - p < 9 -> Partial
    [] SubSeq(m, p, p + 6) = <<"H", "T", "T", "P", "/", "1", ".">> /\ m[p + 7] = "1" -> p + 8
    [] OTHER -> Bad

(* The position of the colon behind the name ...                              *)
FieldName(m, end, p) ==
  LET stops == Positions(m, p, end - 1, Bytes \ NameChars)
      stop == Min(stops)
  IN  IF stops = {} THEN Partial ELSE IF m[stop] = ":" /\ stop # p THEN stop ELSE Bad

(* Slip: the value begins with the blanks behind the colon.                   *)
ValueWithBlanks(m, end, colon) == CHECK_EOF(end, colon + 1, colon + 1)

(* ... and of the value behind it.                                            *)
FieldValue(m, end, colon) ==
  LET starts == Positions(m, colon + 1, end - 1, Bytes \ Blank)
  IN  IF starts = {} THEN Partial ELSE Min(starts)

(* A line that begins with a blank continues the field before it, and has no  *)
(* name; the first line of the fields is none of those.                       *)
Continues(m, p, fields) == fields # <<>> /\ m[p] \in Blank

RECURSIVE parse_headers(_, _, _, _)
parse_headers(m, end, p, fields) ==
  LET colon == IF Continues(m, p, fields) THEN p ELSE FieldName(m, end, p)
      value == IF Continues(m, p, fields) THEN p
               ELSE Then(colon, LAMBDA q : FieldValue(m, end, q))
      next == Then(value, LAMBDA q : get_token_to_eol(m, end, q))
      field == [name |-> SubSeq(m, p, colon - 1), value |-> TrimRight(Text(m, value, next))]
  IN  CASE p = end -> [ret |-> Partial]
        [] p # end /\ m[p] \in {CR, LF} -> [ret |-> EndOfLine(m, end, p), fields |-> fields]
        [] p # end /\ m[p] \notin {CR, LF} /\ Len(fields) = MaxFields -> [ret |-> Bad]
        [] OTHER -> IF next < 0 THEN [ret |-> next]
                    ELSE parse_headers(m, end, next, Append(fields, field))

(* A message with the values that were stored, once the first line has been   *)
(* parsed up to p.                                                            *)
Message(m, end, p, values) ==
  LET rest == parse_headers(m, end, p, <<>>)
  IN  IF p < 0 THEN [ret |-> p]
      ELSE IF rest.ret < 0 THEN [ret |-> rest.ret]
      ELSE [ret |-> rest.ret - 1, line |-> values, fields |-> rest.fields]

parse_request(m, end) ==
  LET method == CHECK_EOF(end, 1, IF m[1] \in {CR, LF} THEN EndOfLine(m, end, 1) ELSE 1)
      space == Then(method, LAMBDA p : ADVANCE_TOKEN(m, end, p))
      path == Then(space, LAMBDA p : SkipSpaces(m, p))
      space2 == Then(path, LAMBDA p : ADVANCE_TOKEN(m, end, p))
      version == Then(space2, LAMBDA p : IF space = method \/ space2 = path THEN Bad
                                         ELSE SkipSpaces(m, p))
      eol == Then(version, LAMBDA p : parse_http_version(m, end, p))
  IN  Message(m, end, Then(eol, LAMBDA p : EndOfLine(m, end, p)),
              <<SubSeq(m, method, space - 1), SubSeq(m, path, space2 - 1)>>)

(* PARSE_INT_3 *)
StatusCode(m, end, p) ==
  CASE end - p < 4 -> Partial
    [] \A i \in p..p + 2 : m[i] = "1" -> p + 3
    [] OTHER -> Bad

parse_response(m, end) ==
  LET version == parse_http_version(m, end, 1)
      code == Then(version, LAMBDA p : IF m[p] = SP THEN SkipSpaces(m, p) ELSE Bad)
      msg == Then(code, LAMBDA p : StatusCode(m, end, p))
      next == Then(msg, LAMBDA p : get_token_to_eol(m, end, p))
      text == Text(m, msg, next)
  IN  Message(m, end, Then(next, LAMBDA p : IF text # <<>> /\ text[1] # SP THEN Bad ELSE p),
              <<TrimLeft(text)>>)

(* Two line ends in a row, from three bytes before what was parsed last.      *)
RECURSIVE LineEnds(_, _, _, _)
LineEnds(m, end, p, count) ==
  LET next == IF m[p] \in {CR, LF} THEN EndOfLine(m, end, p) ELSE p + 1
  IN  CASE count = 2 -> p
        [] count < 2 /\ p = end -> Partial
        [] OTHER -> Then(next, LAMBDA q : LineEnds(m, end, q,
                                            IF m[p] \in {CR, LF} THEN count + 1 ELSE 0))

is_complete(m, end, last) == LineEnds(m, end, IF last < 3 THEN 1 ELSE last - 2, 0)

(* phr_parse_request and phr_parse_response                                   *)
phr_parse(m, end, last, K) ==
  LET early == is_complete(m, end, last)
  IN  CASE last # 0 /\ early < 0 -> [ret |-> early]
        [] K = "request"  -> parse_request(m, end)
        [] OTHER          -> parse_response(m, end)

-----------------------------------------------------------------------------
Init ==
  /\ kind \in Kinds /\ sent \in Inputs[kind] /\ checks \in BOOLEAN
  /\ received = 0 /\ consumed = 0 /\ last_len = 0
  /\ status = "need_more" /\ taken = <<>>

(* The stream reads some more.                                                *)
Arrive ==
  /\ status = "need_more" /\ received < Len(sent)
  /\ received' \in received + 1..Len(sent)
  /\ status' = "read"
  /\ UNCHANGED <<kind, sent, checks, consumed, last_len, taken>>

(* A request of which no more has arrived than the spaces behind the method.  *)
MethodOnly(m) ==
  LET spaces == Positions(m, 1, Len(m), {SP})
  IN  kind = "request" /\ spaces # {} /\ spaces = Min(spaces)..Len(m)

(* http_read_request_data and http_read_response; with each message the       *)
(* caller consumes what it was told (server_request_read), and goes on.  They *)
(* pass 0 for last_len; other users of the parser may pass what they passed   *)
(* for the length before.                                                     *)
http_read(stray) ==
  LET m == SubSeq(sent, consumed + 1, received)
      result == phr_parse(m \o stray, Len(m) + 1, last_len, kind)
  IN  /\ status = "read" /\ m # <<>>
      /\ CASE result.ret = Partial ->
                /\ status' = "need_more" /\ last_len' = IF checks THEN Len(m) ELSE 0
                /\ UNCHANGED <<consumed, taken>>
           [] result.ret = Bad ->
                /\ status' = IF MethodOnly(m) /\ stray[1] = SP THEN "strayed" ELSE "bad"
                /\ UNCHANGED <<consumed, last_len, taken>>
           [] OTHER ->
                /\ consumed' = consumed + result.ret /\ last_len' = 0
                /\ taken' = Append(taken, [at |-> consumed, message |-> result])
                /\ UNCHANGED status
      /\ UNCHANGED <<kind, sent, checks, received>>

(* Nothing is left in the buffer.                                             *)
NoData ==
  /\ status = "read" /\ consumed = received
  /\ status' = "need_more"
  /\ UNCHANGED <<kind, sent, checks, received, consumed, last_len, taken>>

Next == Arrive \/ NoData \/ \E stray \in Strays : http_read(stray)

Spec == Init /\ [][Next]_vars

-----------------------------------------------------------------------------
(* What a message is, by its lines rather than from left to right.            *)

Newlines(s) == Positions(s, 1, Len(s), {LF})
(* The lines of s, each named by the position behind its newline.             *)
Line(s, n) ==
  LET first == Max({0} \cup {k \in Newlines(s) : k < n}) + 1
  IN  IF n > first /\ s[n - 1] = CR THEN SubSeq(s, first, n - 2) ELSE SubSeq(s, first, n - 1)
Has(line, S) == \E i \in DOMAIN line : line[i] \in S

Version(s) == s = <<"H", "T", "T", "P", "/", "1", ".", "1">>

(* The values of a first line; a set, empty if it is not one.                 *)
RequestLine(line) ==
  {<<SubSeq(line, 1, i - 1), SubSeq(line, j, k - 1)>> :
     <<i, j, k>> \in
       {x \in (2..Len(line)) \X (3..Len(line)) \X (4..Len(line)) :
          /\ x[1] < x[2] /\ x[2] < x[3]
          /\ {i \in DOMAIN line : line[i] = SP} = x[1]..x[2] - 1 \cup x[3]..Len(line) - 8
          /\ x[3] <= Len(line) - 8
          /\ ~Has(line, Controls \cup {HT})
          /\ Version(SubSeq(line, Len(line) - 7, Len(line)))}}
ResponseLine(line) ==
  {<<TrimLeft(SubSeq(line, k + 3, Len(line)))>> :
     k \in {x \in 10..Len(line) - 2 :
              /\ Version(SubSeq(line, 1, 8)) /\ ~Has(line, Controls)
              /\ \A i \in 9..x - 1 : line[i] = SP
              /\ \A i \in x..x + 2 : line[i] = "1"
              /\ x + 3 <= Len(line) => line[x + 3] = SP}}

(* The fields a line may be.                                                  *)
Field(line, first) ==
  {[name |-> SubSeq(line, 1, c - 1),
    value |-> TrimRight(SubSeq(line, Min({Len(line) + 1} \cup Positions(line, c + 1, Len(line), Bytes \ Blank)),
                               Len(line)))] :
     c \in {x \in 2..Len(line) : line[x] = ":" /\ ~Has(line, Controls)
                                 /\ ~Has(SubSeq(line, 1, x - 1), Bytes \ NameChars)}}
  \cup
  IF ~first /\ line[1] \in Blank /\ ~Has(line, Controls)
  THEN {[name |-> <<>>, value |-> TrimRight(line)]} ELSE {}

(* The message at the beginning of s, if there is one.                        *)
FirstMessage(s, K) ==
  LET skipped == {n \in Newlines(s) : K = "request" /\ n <= 2 /\ Line(s, n) = <<>>
                                      /\ n = Min(Newlines(s))}
      lines == Newlines(s) \ skipped
      one == Min(lines)
      blank == {n \in lines \ {one} : Line(s, n) = <<>>}
      fields == {n \in lines \ {one} : n < Min(blank)}
      Number(n) == Cardinality({k \in fields : k <= n})
      values == IF K = "request" THEN RequestLine(Line(s, one)) ELSE ResponseLine(Line(s, one))
  IN  IF lines # {} /\ blank # {} /\ values # {} /\ Cardinality(fields) <= MaxFields
         /\ \A n \in fields : Field(Line(s, n), Number(n) = 1) # {}
      THEN {[ret |-> Min(blank), line |-> CHOOSE v \in values : TRUE,
             fields |-> [i \in 1..Cardinality(fields) |->
                           LET n == CHOOSE k \in fields : Number(k) = i
                           IN  CHOOSE f \in Field(Line(s, n), i = 1) : TRUE]]}
      ELSE {}

Rest(p) == SubSeq(sent, p + 1, Len(sent))

(* However the bytes are cut into pieces, a message that is returned is the   *)
(* one that what was sent begins with, its length and its parts ...           *)
MessagesAreSent ==
  \A i \in DOMAIN taken : FirstMessage(Rest(taken[i].at), kind) = {taken[i].message}

(* ... and none is refused, whatever part of it has arrived, unless the parser *)
(* has read a space behind the buffer's end, or waited for when all is there.  *)
EachIsTaken ==
  (status = "bad" \/ (status = "need_more" /\ received = Len(sent)))
    => FirstMessage(Rest(consumed), kind) = {}
=============================================================================
