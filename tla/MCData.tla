-------------------------------- MODULE MCData --------------------------------
(* What the rest of the library keeps its data in, side by side: lists, maps, *)
(* vectors and strings, and the bytes that messages are cut out of.  They do  *)
(* not interact: each behaviour is one of one component.                      *)
EXTENDS List, Map, Vector, String, Writer, FiniteSetsExt, TLC

VARIABLES
  component,
  kind, sent, checks, received, consumed, last_len, status, taken    (* Parser *)

parser_vars == <<kind, sent, checks, received, consumed, last_len, status, taken>>
data_vars ==
  <<component, vars, map_vars, vector_vars, string_vars, parser_vars, writer_vars>>

-----------------------------------------------------------------------------
(* One element of each key, and a second one of K1.                           *)
CONSTANTS KeyValues, K1
ElementValues == KeyValues \X {1} \cup {<<K1, 2>>}
FirstOf(e) == e[1]
(* Slots next to each other around the end of a table of two, four or eight.  *)
Homes == {0, 1, 6, 7}
Symmetry == Permutations(KeyValues \ {K1})

-----------------------------------------------------------------------------
(* Messages of either kind with one byte changed, put in or left out, and two *)
(* messages in a row, of which the second has more fields than fit.           *)
Version == <<"H", "T", "T", "P", "/", "1", ".", "1">>
FirstLine == [request |-> <<"a", " ", "/", " ">> \o Version \o <<"\n">>,
              response |-> Version \o <<" ", "1", "1", "1", " ", "a", "\r", "\n">>]
Plain == <<"a", ":", " ", "a", "\r", "\n">>
Folded == <<" ", "/", " ", "\n">>

Edits(s, B) ==
  {s} \cup {[s EXCEPT ![i] = b] : i \in DOMAIN s, b \in B}
    \cup {SubSeq(s, 1, i) \o <<b>> \o SubSeq(s, i + 1, Len(s)) : i \in 0..Len(s), b \in B}
    \cup {SubSeq(s, 1, i - 1) \o SubSeq(s, i + 1, Len(s)) : i \in DOMAIN s}

Kinds == {"request", "response"}
Messages(k, B) == Edits(FirstLine[k] \o Plain \o <<"\r", "\n">>, B)
InARow(k) ==
  {FirstLine[k] \o Plain \o Folded \o <<"\n">> \o FirstLine[k] \o f \o <<"\r", "\n">> :
     f \in {Plain, Plain \o Plain \o Plain}}
Inputs ==
  [k \in Kinds |-> Messages(k, {" ", "\t", "\r", "\n", "ctl", ":", "/"}) \cup InARow(k)]
Strays == {<<"ctl">>, <<" ", "\n">>, <<" ", "a", " ", "\n">>}
CONSTANT MaxFields
P == INSTANCE Parser

(* What is_complete looks at, if it is called, are the line ends.             *)
Changed == checks => sent \in Messages(kind, {"\r", "\n"}) \cup InARow(kind)

-----------------------------------------------------------------------------
(* Texts with and without characters, and bodies of a length at which the     *)
(* digits of it, or its bits, become more.                                    *)
TextSizeValues == {0, 5}
BodySizeValues ==
  {0, 2000000000} \cup UNION {{10 ^ k - 1, 10 ^ k} : k \in 0..9}
                  \cup UNION {{2 ^ k - 1, 2 ^ k} : k \in 1..30}

-----------------------------------------------------------------------------
(* Those that have many initial states stay in one of them in the others'     *)
(* behaviours.                                                                *)
NoMap == m = NewMap(MinCapacity) /\ released = {} /\ hash = [k \in Keys |-> 0]
NoVector == buffer = NewBuffer /\ object_size = Max(ObjectSizes) /\ freed = <<>>
NoParser ==
  /\ kind = "request" /\ sent = <<>> /\ checks = FALSE
  /\ received = 0 /\ consumed = 0 /\ last_len = 0 /\ status = "need_more" /\ taken = <<>>

NoWriter == message = [status |-> 0, type |-> 0, body |-> 0] /\ space = 0 /\ parts = <<>>

DataInit ==
  /\ component \in {"list", "map", "vector", "string", "parser", "writer"}
  /\ Init /\ StringInit
  /\ IF component = "map" THEN MapInit /\ \A k \in Keys : hash[k] \in Homes ELSE NoMap
  /\ IF component = "vector" THEN VectorInit ELSE NoVector
  /\ IF component = "parser" THEN P!Init /\ Changed ELSE NoParser
  /\ IF component = "writer" THEN WriterInit ELSE NoWriter

Only(c, others) == component = c /\ UNCHANGED <<component, others>>

DataNext ==
  \/ Only("list", <<map_vars, vector_vars, string_vars, parser_vars, writer_vars>>) /\ Next
  \/ Only("map", <<vars, vector_vars, string_vars, parser_vars, writer_vars>>) /\ MapNext
  \/ Only("vector", <<vars, map_vars, string_vars, parser_vars, writer_vars>>) /\ VectorNext
  \/ Only("string", <<vars, map_vars, vector_vars, parser_vars, writer_vars>>) /\ StringNext
  \/ Only("parser", <<vars, map_vars, vector_vars, string_vars, writer_vars>>) /\ P!Next
  \/ Only("writer", <<vars, map_vars, vector_vars, string_vars, parser_vars>>) /\ WriterNext

DataSpec == DataInit /\ [][DataNext]_data_vars

-----------------------------------------------------------------------------
(* The properties that take long to evaluate, of their component only; those  *)
(* of the others are in their modules.                                        *)

(* What is read as a message is one (Parser).                                 *)
MessagesAreSent == component = "parser" => P!MessagesAreSent
(* No message is refused, or waited for when it is there (Parser).            *)
EachIsTaken == component = "parser" => P!EachIsTaken
=============================================================================
