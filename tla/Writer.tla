-------------------------------- MODULE Writer --------------------------------
(***************************************************************************)
(* Requests and responses are written into space that is allocated in the  *)
(* output of a stream before their parts are pushed: src/reactor/http.c,   *)
(* with the digits of src/reactor/utility.c and pointer.c.  Texts are      *)
(* modelled by their lengths.                                              *)
(***************************************************************************)
EXTENDS Integers, SequencesExt

CONSTANTS
  TextSizes,    (* lengths of a method, target, status, host or type          *)
  BodySizes     (* lengths of a body                                          *)

MaxBody == 2147483647  (* bound: the largest number that TLC counts to        *)

ASSUME SizesOK == TextSizes \subseteq Nat /\ BodySizes \subseteq 0..MaxBody

DateSize == 29  (* of server_date                                             *)

VARIABLES
  message,      (* the arguments                                              *)
  space,        (* the bytes that stream_allocate was asked for               *)
  parts         (* the lengths of what has been pushed                        *)

writer_vars == <<message, space, parts>>

-----------------------------------------------------------------------------
(* src/reactor/utility.c *)

(* Those of n | 1, without leading zeros.                                     *)
Bits(n) == Max({k \in 1..31 : k = 1 \/ n >= 2 ^ (k - 1)})
Pow10 == <<0, 10, 100, 1000, 10000, 100000, 1000000, 10000000, 100000000, 1000000000>>

(* Slip: a power of ten is taken for the number before it.                    *)
LenAtMost(n) ==
  LET t == (Bits(n) * 1233) \div 4096
  IN  IF n <= Pow10[t + 1] THEN t ELSE t + 1

utility_u32_len(n) ==
  LET t == (Bits(n) * 1233) \div 4096
  IN  IF n < Pow10[t + 1] THEN t ELSE t + 1

(* The digits are written from the end, two at a time.                        *)
Pair(n) == <<n \div 10, n % 10>>
utility_u32_sprint[n \in 0..MaxBody] ==
  IF n >= 100 THEN utility_u32_sprint[n \div 100] \o Pair(n % 100)
  ELSE IF n < 10 THEN <<n>> ELSE Pair(n)

-----------------------------------------------------------------------------
(* src/reactor/http.c *)

(* http_field_push: name, colon and space, value, line end.                   *)
Field(name, value) == <<name, 1, 1, value, 1, 1>>

(* http_write_request: "Host", and "Content-Type" and "Content-Length" of a   *)
(* body that is not empty.  The length field is as much of the storage as     *)
(* utility_u32_len says, which is where utility_u32_sprint starts to write.   *)
RequestSpace(r) ==
  r.method + 1 + r.target + 11 + 6 + r.host + 2
  + (IF r.body > 0 THEN 14 + r.type + 2 + 16 + utility_u32_len(r.body) + 2 ELSE 0)
  + 2 + r.body
RequestParts(r) ==
  <<r.method, 1, r.target, 11>> \o Field(4, r.host)
  \o (IF r.body > 0 THEN Field(12, r.type) \o Field(14, utility_u32_len(r.body)) ELSE <<>>)
  \o <<2, r.body>>

(* http_write_response: "Server", "Date", "Content-Type" if there is one, and *)
(* "Content-Length".                                                          *)
ResponseSpace(r) ==
  9 + r.status + 2 + 17 + 37 + (IF r.type = 0 THEN 0 ELSE 16 + r.type)
  + (18 + utility_u32_len(r.body)) + 2 + r.body
ResponseParts(r) ==
  <<9, r.status, 2>> \o Field(6, 7) \o Field(4, DateSize)
  \o (IF r.type = 0 THEN <<>> ELSE Field(12, r.type))
  \o Field(14, utility_u32_len(r.body)) \o <<2, r.body>>

Requests == [method : TextSizes, target : TextSizes, host : TextSizes, type : TextSizes,
             body : BodySizes]
Responses == [status : TextSizes, type : TextSizes, body : BodySizes]

-----------------------------------------------------------------------------
WriterInit == message \in Requests \cup Responses /\ space = 0 /\ parts = <<>>

(* stream_allocate *)
AllocateSpace ==
  /\ space = 0
  /\ space' = IF "status" \in DOMAIN message THEN ResponseSpace(message) ELSE RequestSpace(message)
  /\ UNCHANGED <<message, parts>>

(* pointer_push and pointer_push_byte, for one part behind the other.         *)
Push ==
  /\ space > 0 /\ parts = <<>>
  /\ parts' = IF "status" \in DOMAIN message THEN ResponseParts(message) ELSE RequestParts(message)
  /\ UNCHANGED <<message, space>>

WriterNext == AllocateSpace \/ Push

WriterSpec == WriterInit /\ [][WriterNext]_writer_vars

-----------------------------------------------------------------------------
(* The number whose digits in a base are s; their sum in base 1.              *)
ValueOf(s, base) ==
  LET value[i \in 0..Len(s)] == IF i = 0 THEN 0 ELSE base * value[i - 1] + s[i]
  IN  value[Len(s)]

(* The parts of a message take the space that was allocated for them, and no  *)
(* more: what is left unwritten would be sent as it is.                       *)
SpaceIsFilled == parts # <<>> => ValueOf(parts, 1) = space

(* The length field says how long the body is, in decimal: the digits begin   *)
(* where it begins, and are those of the size.                                *)
LengthIsExact ==
  LET digits == utility_u32_sprint[message.body]
  IN  /\ Len(digits) = utility_u32_len(message.body)
      /\ ValueOf(digits, 10) = message.body
      /\ message.body > 0 => digits[1] # 0
      /\ \A i \in DOMAIN digits : digits[i] \in 0..9

(* Both, of every message whose digits are counted apart from being written.  *)
WrittenExactly == SpaceIsFilled /\ LengthIsExact
=============================================================================
