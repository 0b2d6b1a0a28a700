----------------------------- MODULE StreamProofs -----------------------------
(***************************************************************************)
(* Proofs about Stream, for sockets, records and writes of any size, and   *)
(* about Timer, for any number of timers and any settings.                 *)
(***************************************************************************)
EXTENDS Timer, Stream, TLAPS

Streams ==
  [open : BOOLEAN, mask : SUBSET {"read"}, watch : SUBSET {"read", "write"},
   notify : BOOLEAN, input : Nat, output : Nat, ssl : {"none", "live", "freed"},
   want_write : BOOLEAN, shaken : BOOLEAN, record : Nat, left : Nat]

Sockets ==
  [tcp : BOOLEAN, room : Nat, blocked : BOOLEAN, woken : BOOLEAN,
   unread : Nat, sent : Nat, got : Nat, peer : {"open", "closed", "reset"}]

Pairs == [q : Streams, k : Sockets]

(* A record is sent in parts only by a session, from what is in the output.   *)
Sound(c) ==
  /\ c.q.record = 0 => c.q.left = 0
  /\ c.q.record <= c.q.output
  /\ c.q.ssl # "live" => c.q.record = 0

(* Units written, but for what fits in the socket.                            *)
Balance(c) == c.q.output - c.q.record + c.q.left - c.k.room + c.k.got

(* What an operation does to a pair leaves it a sound one, of the same units. *)
Same(c, d) ==
  /\ d \in Pairs
  /\ d.q.open = c.q.open /\ d.q.ssl = c.q.ssl /\ d.k.peer = c.k.peer
  /\ Sound(c) => Sound(d)
  /\ Balance(d) = Balance(c)

LEMMA MinIs ==
  ASSUME NEW a \in Nat, NEW b \in Nat
  PROVE  /\ Min({a, b}) \in Nat
         /\ a <= b => Min({a, b}) = a
         /\ b <= a => Min({a, b}) = b
<1>1. PICK m \in {a, b} : \A y \in {a, b} : m <= y
  <2>1. CASE a <= b
    BY <2>1
  <2>2. CASE b <= a
    BY <2>2
  <2> QED
    BY <2>1, <2>2
<1>2. Min({a, b}) \in {a, b} /\ \A y \in {a, b} : Min({a, b}) <= y
  BY <1>1 DEF Min
<1> QED
  BY <1>2

LEMMA MaskKeeps ==
  ASSUME NEW c \in Pairs, NEW mask \in SUBSET {"read", "write"}
  PROVE  Same(c, descriptor_mask(c, mask))
<1> USE DEF Pairs, Streams, Sockets
<1>1. CASE c.q.watch = mask
  BY <1>1 DEF Same, descriptor_mask
<1>2. CASE c.q.watch # mask
  <2> DEFINE d == descriptor_mask(c, mask)
             w == Ready(c.k) \cap (mask \cup {"close"}) # {}
  <2>1. d = [q |-> [c.q EXCEPT !.watch = mask],
             k |-> [[c.k EXCEPT !.blocked = @ \/ c.k.room = 0] EXCEPT !.woken = @ \/ w]]
    BY <1>2 DEF descriptor_mask, Polled
  <2> HIDE DEF d, w
  <2>2. d \in Pairs
    BY <2>1, ZenonT(60)
  <2>3. /\ d.q.open = c.q.open /\ d.q.ssl = c.q.ssl /\ d.k.peer = c.k.peer
        /\ d.q.output = c.q.output /\ d.q.record = c.q.record /\ d.q.left = c.q.left
        /\ d.k.room = c.k.room /\ d.k.got = c.k.got
    BY <2>1
  <2> QED
    BY <2>2, <2>3 DEF Same, Sound, Balance, d
<1> QED
  BY <1>1, <1>2

LEMMA UpdateKeeps ==
  ASSUME NEW c \in Pairs
  PROVE  Same(c, stream_socket_update(c)) /\ Same(c, stream_ssl_update(c))
<1>1. stream_socket_mask(c.q) \in SUBSET {"read", "write"}
  BY DEF stream_socket_mask
<1>2. stream_ssl_mask(c.q) \in SUBSET {"read", "write"}
  BY DEF stream_ssl_mask
<1> QED
  BY <1>1, <1>2, MaskKeeps DEF stream_socket_update, stream_ssl_update

LEMMA SameTransitive ==
  ASSUME NEW c, NEW d, NEW e, Same(c, d), Same(d, e)
  PROVE  Same(c, e)
BY DEF Same

-----------------------------------------------------------------------------
(* Writing moves units from the output to the socket.                         *)

LEMMA WriteTakes ==
  ASSUME NEW k \in Sockets, NEW n \in Nat
  PROVE  /\ Write(k, n) \in Sockets
         /\ Taken(k, n) \in Nat /\ Taken(k, n) <= n
         /\ k.room >= n => Taken(k, n) = n
         /\ k.room < n => Taken(k, n) = k.room
         /\ Write(k, n).room = k.room - Taken(k, n)
         /\ Write(k, n).got = k.got /\ Write(k, n).peer = k.peer
<1> DEFINE t == Taken(k, n)
<1>1. k.room \in Nat
  BY DEF Sockets
<1>2. t \in Nat /\ t <= n /\ t <= k.room
      /\ (k.room >= n => t = n) /\ (k.room < n => t = k.room)
  BY <1>1, MinIs DEF Taken
<1>3. Write(k, n) = [k EXCEPT !.room = @ - t, !.blocked = @ \/ k.room < n]
  BY DEF Write
<1> HIDE DEF t
<1>4. k.room - t \in Nat
  BY <1>1, <1>2
<1>5. (k.blocked \/ k.room < n) \in BOOLEAN
  OBVIOUS
<1>6. /\ Write(k, n) \in Sockets
      /\ Write(k, n).room = k.room - t
      /\ Write(k, n).got = k.got /\ Write(k, n).peer = k.peer
  BY <1>3, <1>4, <1>5 DEF Sockets
<1> QED
  BY <1>2, <1>6 DEF t

LEMMA SocketWriteKeeps ==
  ASSUME NEW c \in Pairs, c.q.ssl # "live"
  PROVE  Same(c, stream_socket_write(c))
<1> DEFINE d == stream_socket_write(c)
           t == Taken(c.k, c.q.output)
<1>1. c.q \in Streams /\ c.k \in Sockets /\ c.q.output \in Nat
      /\ c.q.record \in Nat /\ c.q.left \in Nat /\ c.k.room \in Nat /\ c.k.got \in Nat
  BY DEF Pairs, Streams, Sockets
<1>2. d = [q |-> [c.q EXCEPT !.output = @ - t], k |-> Write(c.k, c.q.output)]
  BY DEF stream_socket_write
<1>3. /\ t \in Nat /\ t <= c.q.output
      /\ Write(c.k, c.q.output) \in Sockets
      /\ Write(c.k, c.q.output).room = c.k.room - t
      /\ Write(c.k, c.q.output).got = c.k.got
      /\ Write(c.k, c.q.output).peer = c.k.peer
  BY <1>1, WriteTakes, ZenonT(60)
<1> HIDE DEF t, d
<1>4. c.q.output - t \in Nat
  BY <1>1, <1>3
<1>5. d.q \in Streams
  BY <1>1, <1>2, <1>4 DEF Streams
<1>6. d \in Pairs
  BY <1>2, <1>3, <1>5 DEF Pairs
<1>7. /\ d.q.open = c.q.open /\ d.q.ssl = c.q.ssl /\ d.k.peer = c.k.peer
      /\ d.q.output = c.q.output - t /\ d.q.record = c.q.record /\ d.q.left = c.q.left
      /\ d.k.room = c.k.room - t /\ d.k.got = c.k.got
  BY <1>1, <1>2, <1>3 DEF Streams
<1>8. Balance(d) = Balance(c)
  BY <1>1, <1>3, <1>7 DEF Balance
<1>9. Sound(c) => Sound(d)
  BY <1>1, <1>4, <1>7 DEF Sound
<1> QED
  BY <1>6, <1>7, <1>8, <1>9 DEF Same, d

LEMMA HandshakeKeeps ==
  ASSUME NEW c \in Pairs
  PROVE  Same(c, Handshake(c)) /\ Handshake(c).q.record = c.q.record
<1>1. CASE c.q.shaken \/ c.k.unread = 0
  BY <1>1 DEF Handshake, Same
<1>2. CASE ~(c.q.shaken \/ c.k.unread = 0)
  <2> DEFINE d == Handshake(c)
  <2>1. d = [q |-> [c.q EXCEPT !.shaken = TRUE], k |-> [c.k EXCEPT !.unread = @ - 1]]
    BY <1>2 DEF Handshake
  <2> HIDE DEF d
  <2>2. c.k.unread - 1 \in Nat
    BY <1>2 DEF Pairs, Sockets
  <2>3. d \in Pairs
    BY <2>1, <2>2 DEF Pairs, Streams, Sockets
  <2>4. /\ d.q.open = c.q.open /\ d.q.ssl = c.q.ssl /\ d.k.peer = c.k.peer
        /\ d.q.output = c.q.output /\ d.q.record = c.q.record /\ d.q.left = c.q.left
        /\ d.k.room = c.k.room /\ d.k.got = c.k.got
    BY <2>1 DEF Pairs, Streams, Sockets
  <2> QED
    BY <2>3, <2>4 DEF Same, Sound, Balance, d
<1> QED
  BY <1>1, <1>2

(* A record leaves the output when the last part of it is sent.               *)
LEMMA SendRecordKeeps ==
  ASSUME NEW c \in Pairs, c.q.output > 0
  PROVE  /\ SendRecord(c).q.ssl = c.q.ssl
         /\ Sound(c) => SendRecord(c) \in Pairs
         /\ c.q.ssl = "live" /\ Sound(c) => Same(c, SendRecord(c))
<1> DEFINE record == IF c.q.record > 0 THEN c.q.record ELSE Min({Record, c.q.output})
           left == IF c.q.record > 0 THEN c.q.left ELSE record
           done == c.k.room >= left
           output1 == IF done THEN c.q.output - record ELSE c.q.output
           record1 == IF done THEN 0 ELSE record
           left1 == IF done THEN 0 ELSE left - c.k.room
           d == SendRecord(c)
           k1 == Write(c.k, left)
<1>1. c.q \in Streams /\ c.k \in Sockets /\ c.q.output \in Nat
      /\ c.q.record \in Nat /\ c.q.left \in Nat /\ c.k.room \in Nat /\ c.k.got \in Nat
  BY DEF Pairs, Streams, Sockets
<1>2. Record \in Nat /\ Record > 0
  BY SizesOK
<1>3. record \in Nat /\ record > 0 /\ left \in Nat
  BY <1>1, <1>2, MinIs
<1>4. /\ k1 \in Sockets
      /\ k1.room = c.k.room - (IF done THEN left ELSE c.k.room)
      /\ k1.got = c.k.got /\ k1.peer = c.k.peer
  <2> DEFINE t == Taken(c.k, left)
  <2> HIDE DEF left, k1
  <2>1. /\ Write(c.k, left) \in Sockets
        /\ c.k.room >= left => t = left
        /\ c.k.room < left => t = c.k.room
        /\ Write(c.k, left).room = c.k.room - t
        /\ Write(c.k, left).got = c.k.got /\ Write(c.k, left).peer = c.k.peer
    BY <1>1, <1>3, WriteTakes, ZenonT(60)
  <2> HIDE DEF t
  <2>2. k1 = Write(c.k, left)
    BY DEF k1
  <2> QED
    BY <1>1, <1>3, <2>1, <2>2
<1>5. d = [q |-> [c.q EXCEPT !.output = output1, !.record = record1, !.left = left1,
                             !.want_write = ~done],
           k |-> k1]
  BY DEF SendRecord
<1>6. c.q.record > 0 \/ record <= c.q.output
  BY <1>1, <1>2, MinIs
<1>7. c.q.record = 0 => left = record
  BY DEF left
<1>8. c.q.record > 0 => record = c.q.record /\ left = c.q.left
  OBVIOUS
<1> DEFINE whole == done
<1>9. whole \in BOOLEAN
  OBVIOUS
<1>10. /\ whole => c.k.room >= left /\ output1 = c.q.output - record /\ record1 = 0 /\ left1 = 0
       /\ ~whole => /\ c.k.room < left /\ output1 = c.q.output /\ record1 = record
                    /\ left1 = left - c.k.room
       /\ whole => k1.room = c.k.room - left
       /\ ~whole => k1.room = 0
  BY <1>1, <1>3, <1>4
<1>11. d.q = [c.q EXCEPT !.output = output1, !.record = record1, !.left = left1,
                         !.want_write = ~whole]
       /\ d.k = k1
  BY <1>5
<1>12. d = [q |-> d.q, k |-> d.k]
  BY <1>5
<1> HIDE DEF record, left, done, output1, record1, left1, d, k1, whole
<1>13. d.q.ssl = c.q.ssl
  BY <1>1, <1>11 DEF Streams
<1>14. ASSUME Sound(c)
       PROVE  record <= c.q.output /\ d \in Pairs
  <2>1. record <= c.q.output
    BY <1>1, <1>6, <1>8, <1>14 DEF Sound
  <2>2. output1 \in Nat /\ record1 \in Nat /\ left1 \in Nat
    BY <1>1, <1>3, <1>10, <2>1
  <2>3. d.q \in Streams
    BY <1>1, <1>9, <1>11, <2>2 DEF Streams
  <2> QED
    BY <1>4, <1>11, <1>12, <2>1, <2>3 DEF Pairs
<1>15. ASSUME c.q.ssl = "live", Sound(c)
       PROVE  Same(c, d)
  <2>1. /\ d.q.open = c.q.open /\ d.k.peer = c.k.peer
        /\ d.q.output = output1 /\ d.q.record = record1 /\ d.q.left = left1
        /\ d.k.room = k1.room /\ d.k.got = c.k.got
    BY <1>1, <1>4, <1>11 DEF Streams
  <2>2. Sound(d)
    BY <1>1, <1>3, <1>10, <1>13, <1>14, <1>15, <2>1 DEF Sound
  <2>3. c.q.left - c.q.record = left - record
    BY <1>1, <1>3, <1>7, <1>8, <1>15 DEF Sound
  <2>4. Balance(c) = c.q.output - c.k.room + c.k.got + (left - record)
    BY <1>1, <1>3, <2>3 DEF Balance
  <2>5. Balance(d) = output1 - record1 + left1 - k1.room + c.k.got
    BY <2>1 DEF Balance
  <2>6. ASSUME whole
        PROVE  Balance(d) = Balance(c)
    <3>1. Balance(d) = (c.q.output - record) - 0 + 0 - (c.k.room - left) + c.k.got
      BY <1>10, <2>5, <2>6
    <3> QED
      BY <1>1, <1>3, <2>4, <3>1
  <2>7. ASSUME ~whole
        PROVE  Balance(d) = Balance(c)
    <3>1. Balance(d) = c.q.output - record + (left - c.k.room) - 0 + c.k.got
      BY <1>10, <2>5, <2>7
    <3> QED
      BY <1>1, <1>3, <2>4, <3>1
  <2>8. Balance(d) = Balance(c)
    BY <1>9, <2>6, <2>7
  <2> QED
    BY <1>13, <1>14, <1>15, <2>1, <2>2, <2>8 DEF Same
<1> QED
  BY <1>13, <1>14, <1>15 DEF d

LEMMA SslFlushKeeps ==
  ASSUME NEW c \in Pairs
  PROVE  /\ stream_ssl_flush(c).q.ssl = c.q.ssl
         /\ Sound(c) => stream_ssl_flush(c) \in Pairs
         /\ c.q.ssl = "live" /\ Sound(c) => Same(c, stream_ssl_flush(c))
<1> DEFINE h == Handshake(c)
           f == stream_ssl_flush(c)
<1>1. Same(c, h)
  BY HandshakeKeeps
<1>2. h \in Pairs /\ h.q.ssl = c.q.ssl
  BY <1>1 DEF Same
<1> HIDE DEF h
<1>3. CASE ~h.q.shaken \/ h.q.output = 0 \/ h.k.peer = "reset"
  <2>1. f = [h EXCEPT !.q.want_write = FALSE]
    BY <1>3 DEF stream_ssl_flush, h
  <2> HIDE DEF f
  <2>2. f \in Pairs
    BY <1>2, <2>1 DEF Pairs, Streams
  <2>3. /\ f.q.open = h.q.open /\ f.q.ssl = h.q.ssl /\ f.k = h.k
        /\ f.q.output = h.q.output /\ f.q.record = h.q.record /\ f.q.left = h.q.left
    BY <1>2, <2>1 DEF Pairs, Streams
  <2>4. Same(h, f)
    BY <2>2, <2>3 DEF Same, Sound, Balance
  <2> QED
    BY <1>1, <1>2, <2>2, <2>3, <2>4, SameTransitive DEF f
<1>4. CASE ~(~h.q.shaken \/ h.q.output = 0 \/ h.k.peer = "reset")
  <2>1. f = SendRecord(h)
    BY <1>4 DEF stream_ssl_flush, h
  <2>2. h.q.output > 0
    BY <1>2, <1>4 DEF Pairs, Streams
  <2>3. /\ SendRecord(h).q.ssl = h.q.ssl
        /\ Sound(h) => SendRecord(h) \in Pairs
        /\ h.q.ssl = "live" /\ Sound(h) => Same(h, SendRecord(h))
    BY <1>2, <2>2, SendRecordKeeps
  <2>4. Sound(c) => Sound(h)
    BY <1>1 DEF Same
  <2> HIDE DEF f
  <2>5. ASSUME c.q.ssl = "live", Sound(c)
        PROVE  Same(c, f)
    BY <1>1, <1>2, <2>1, <2>3, <2>4, <2>5, SameTransitive
  <2> QED
    BY <1>2, <2>1, <2>3, <2>4, <2>5 DEF f
<1> QED
  BY <1>3, <1>4

LEMMA ReadKeeps ==
  ASSUME NEW c \in Pairs
  PROVE  Same(c, stream_socket_read(c))
<1> DEFINE d == stream_socket_read(c)
<1>1. d = [q |-> [c.q EXCEPT !.input = @ + c.k.unread], k |-> [c.k EXCEPT !.unread = 0]]
  BY DEF stream_socket_read
<1> HIDE DEF d
<1>2. c.q.input + c.k.unread \in Nat
  BY DEF Pairs, Streams, Sockets
<1>3. d \in Pairs
  BY <1>1, <1>2 DEF Pairs, Streams, Sockets
<1>4. /\ d.q.open = c.q.open /\ d.q.ssl = c.q.ssl /\ d.k.peer = c.k.peer
      /\ d.q.output = c.q.output /\ d.q.record = c.q.record /\ d.q.left = c.q.left
      /\ d.k.room = c.k.room /\ d.k.got = c.k.got
  BY <1>1 DEF Pairs, Streams, Sockets
<1> QED
  BY <1>3, <1>4 DEF Same, Sound, Balance, d

(* The flags of the object do not matter to its units.                        *)
LEMMA FlagKeeps ==
  ASSUME NEW c \in Pairs, NEW b \in BOOLEAN
  PROVE  Same(c, [c EXCEPT !.q.notify = b]) /\ Same(c, [c EXCEPT !.q.want_write = b])
<1>1. ASSUME NEW d, d = [c EXCEPT !.q.notify = b] \/ d = [c EXCEPT !.q.want_write = b]
      PROVE  Same(c, d)
  <2>1. d \in Pairs
    BY <1>1 DEF Pairs, Streams
  <2>2. /\ d.q.open = c.q.open /\ d.q.ssl = c.q.ssl /\ d.k = c.k
        /\ d.q.output = c.q.output /\ d.q.record = c.q.record /\ d.q.left = c.q.left
    BY <1>1 DEF Pairs, Streams
  <2> QED
    BY <2>1, <2>2 DEF Same, Sound, Balance
<1> QED
  BY <1>1

LEMMA SslReadKeeps ==
  ASSUME NEW c \in Pairs
  PROVE  Same(c, stream_ssl_read(c))
<1> DEFINE h == Handshake(c)
           g == [h EXCEPT !.q.want_write = FALSE]
<1>1. Same(c, h)
  BY HandshakeKeeps
<1>2. h \in Pairs
  BY <1>1 DEF Same
<1>3. stream_ssl_read(c) = stream_socket_read(g)
  BY DEF stream_ssl_read
<1> HIDE DEF h
<1>4. Same(h, g)
  BY <1>2, FlagKeeps
<1>5. g \in Pairs
  BY <1>4 DEF Same
<1> HIDE DEF g
<1>6. Same(g, stream_socket_read(g))
  BY <1>5, ReadKeeps
<1> QED
  BY <1>1, <1>3, <1>4, <1>6, SameTransitive

-----------------------------------------------------------------------------
(* Nothing is due to a stream that is closed, and what its output holds was   *)
(* written for the connection to come.                                        *)
IInv ==
  /\ ~failed => Now \in Pairs /\ written \in Nat
  /\ ~failed /\ stream.open => Sound(Now) /\ written = Balance(Now) + Capacity
  /\ ~failed /\ ~stream.open => pending = {} /\ written = stream.output
  /\ StreamAborts

LEMMA InitIInv ==
  ASSUME StreamInit
  PROVE  IInv
<1>1. Now \in Pairs /\ written \in Nat
  <2>1. Constructed \in Streams
    BY DEF Constructed, Streams
  <2>2. Connected \in Sockets
    BY SizesOK DEF Connected, Sockets
  <2> QED
    BY <2>1, <2>2 DEF StreamInit, Now, Pairs
<1>2. ~stream.open /\ pending = {} /\ written = stream.output
  BY DEF StreamInit, Constructed
<1>3. ~failed
  BY DEF StreamInit
<1> QED
  BY <1>1, <1>2, <1>3 DEF IInv, StreamAborts

(* A step of an open stream that moves units and does not write any.          *)
LEMMA SameKeeps ==
  ASSUME IInv, ~failed, stream.open,
         NEW d, Same(Now, d), Becomes(d), written' = written,
         failed' => socket.peer = "reset"
  PROVE  IInv'
<1>1. Now \in Pairs /\ written \in Nat /\ Sound(Now) /\ written = Balance(Now) + Capacity
  BY DEF IInv
<1>2. d \in Pairs /\ Sound(d) /\ Balance(d) = Balance(Now) /\ d.q.open
      /\ d.k.peer = socket.peer
  BY <1>1 DEF Same, Now
<1>3. Now' = d
  BY <1>2 DEF Becomes, Now, Pairs
<1>4. stream'.open /\ socket'.peer = socket.peer
  BY <1>2 DEF Becomes
<1>5. Sound(Now)' /\ Balance(Now)' = Balance(Now)
  BY <1>2, <1>3 DEF Sound, Balance
<1>6. (Now \in Pairs)'
  BY <1>2, <1>3
<1> QED
  BY <1>1, <1>4, <1>5, <1>6 DEF IInv, StreamAborts

(* Events come to open streams only.                                          *)
LEMMA DueIsOpen ==
  ASSUME IInv, NEW kind, Deliver(kind)
  PROVE  ~failed /\ stream.open /\ Now \in Pairs
BY DEF IInv, Deliver

LEMMA NowIs ==
  ASSUME Now \in Pairs
  PROVE  /\ stream \in Streams /\ socket \in Sockets
         /\ Now.q = stream /\ Now.k = socket
BY DEF Now, Pairs

LEMMA ReadEventKeeps ==
  ASSUME IInv, ReadEvent
  PROVE  IInv'
<1> DEFINE a == stream_ssl_update(stream_ssl_read(Now))
           b == stream_socket_read(Now)
           d == IF WithSsl THEN a ELSE b
<1>1. ~failed /\ stream.open /\ Now \in Pairs
  BY DueIsOpen DEF ReadEvent
<1>2. Same(Now, a)
  <2>1. Same(Now, stream_ssl_read(Now))
    BY <1>1, SslReadKeeps
  <2>2. stream_ssl_read(Now) \in Pairs
    BY <2>1 DEF Same
  <2> QED
    BY <2>1, <2>2, UpdateKeeps, SameTransitive
<1>3. Same(Now, b)
  BY <1>1, ReadKeeps
<1>4. Becomes(d) /\ written' = written /\ failed' = failed
  BY DEF ReadEvent, history
<1> HIDE DEF a, b
<1>5. Same(Now, d)
  BY <1>2, <1>3
<1> HIDE DEF d
<1> QED
  BY <1>1, <1>4, <1>5, SameKeeps

LEMMA WriteEventKeeps ==
  ASSUME IInv, WriteEvent
  PROVE  IInv'
<1> DEFINE c == IF WithSsl THEN stream_ssl_flush(Now) ELSE stream_socket_write(Now)
           b == c.q.notify /\ WithSsl /\ c.q.output > 0
           d == [c EXCEPT !.q.notify = b]
           e == IF WithSsl THEN stream_ssl_update(d) ELSE stream_socket_update(d)
<1>1. ~failed /\ stream.open /\ Now \in Pairs
  BY DueIsOpen DEF WriteEvent
<1>2. Now.q = stream /\ Now.k = socket
  BY <1>1, NowIs
<1>3. Sound(Now)
  BY <1>1 DEF IInv
<1>4. Same(Now, c)
  <2>1. CASE WithSsl
    <3>1. Same(Now, stream_ssl_flush(Now))
      BY <1>1, <1>2, <1>3, <2>1, SslFlushKeeps DEF WithSsl
    <3> QED
      BY <2>1, <3>1
  <2>2. CASE ~WithSsl
    <3>1. Same(Now, stream_socket_write(Now))
      BY <1>1, <1>2, <2>2, SocketWriteKeeps DEF WithSsl
    <3> QED
      BY <2>2, <3>1
  <2> QED
    BY <2>1, <2>2
<1>5. Becomes(e) /\ written' = written
  BY DEF WriteEvent, history
<1>6. failed' => socket.peer = "reset"
  BY <1>1 DEF WriteEvent, Fails
<1> HIDE DEF c
<1>7. c \in Pairs
  BY <1>4 DEF Same
<1>8. b \in BOOLEAN
  OBVIOUS
<1> HIDE DEF b
<1>9. Same(c, d)
  BY <1>7, <1>8, FlagKeeps
<1> HIDE DEF d
<1>10. d \in Pairs
  BY <1>9 DEF Same
<1>11. Same(d, e)
  BY <1>10, UpdateKeeps
<1> HIDE DEF e
<1>12. Same(Now, e)
  BY <1>4, <1>9, <1>11, SameTransitive
<1> QED
  BY <1>1, <1>5, <1>6, <1>12, SameKeeps

LEMMA FlushKeeps ==
  ASSUME IInv, stream_flush
  PROVE  IInv'
<1> DEFINE a == stream_ssl_flush(Now)
           b == stream_socket_write(Now)
           d == IF stream.ssl # "none" THEN stream_ssl_update(a) ELSE stream_socket_update(b)
<1>1. ~failed /\ stream.open /\ Now \in Pairs /\ Sound(Now)
  BY DEF stream_flush, AppRuns, IInv
<1>2. Now.q = stream /\ Now.k = socket /\ stream \in Streams
  BY <1>1, NowIs
<1>3. Becomes(d) /\ written' = written
  BY DEF stream_flush
<1>4. failed' <=> stream.ssl = "freed" \/ (stream.ssl = "none" /\ Fails(stream, socket))
  BY DEF stream_flush
<1>5. a.q.ssl = stream.ssl /\ a \in Pairs /\ (stream.ssl = "live" => Same(Now, a))
  BY <1>1, <1>2, SslFlushKeeps
<1>6. stream.ssl = "none" => Same(Now, b)
  BY <1>1, <1>2, SocketWriteKeeps
<1> HIDE DEF a, b
<1>7. Same(a, stream_ssl_update(a))
  BY <1>5, UpdateKeeps
<1>8. CASE stream.ssl = "freed"
  <2>1. d = stream_ssl_update(a)
    BY <1>8
  <2> HIDE DEF d
  <2>2. stream'.ssl = "freed"
    BY <1>3, <1>5, <1>7, <1>8, <2>1 DEF Same, Becomes
  <2>3. failed'
    BY <1>4, <1>8
  <2> QED
    BY <2>2, <2>3 DEF IInv, StreamAborts
<1>9. CASE stream.ssl = "live"
  <2>1. Same(Now, stream_ssl_update(a))
    BY <1>5, <1>7, <1>9, SameTransitive
  <2>2. Same(Now, d) /\ ~failed'
    BY <1>4, <1>9, <2>1
  <2> HIDE DEF d
  <2> QED
    BY <1>1, <1>3, <2>2, SameKeeps
<1>10. CASE stream.ssl = "none"
  <2>1. b \in Pairs
    BY <1>6, <1>10 DEF Same
  <2>2. Same(Now, stream_socket_update(b))
    BY <1>6, <1>10, <2>1, UpdateKeeps, SameTransitive
  <2>3. Same(Now, d) /\ (failed' => socket.peer = "reset")
    BY <1>1, <1>4, <1>10, <2>2 DEF Fails
  <2> HIDE DEF d
  <2> QED
    BY <1>1, <1>3, <2>3, SameKeeps
<1> QED
  BY <1>2, <1>8, <1>9, <1>10 DEF Streams

LEMMA NotifyKeeps ==
  ASSUME IInv, stream_notify
  PROVE  IInv'
<1> DEFINE c == [Now EXCEPT !.q.notify = TRUE]
           d == IF stream.ssl # "none" THEN stream_ssl_update(c) ELSE stream_socket_update(c)
<1>1. ~failed /\ Now \in Pairs
  BY DEF stream_notify, AppRuns, IInv
<1>2. Same(Now, c)
  BY <1>1, FlagKeeps
<1>3. c \in Pairs
  BY <1>2 DEF Same
<1>4. Becomes(IF ~stream.open THEN c ELSE d)
  BY DEF stream_notify
<1>5. pending' = pending /\ written' = written /\ ~failed'
  BY <1>1 DEF stream_notify, history
<1>6. CASE stream.open
  <2>1. Same(Now, d)
    <3> HIDE DEF c
    <3>1. Same(c, stream_ssl_update(c)) /\ Same(c, stream_socket_update(c))
      BY <1>3, UpdateKeeps
    <3> QED
      BY <1>2, <3>1, SameTransitive
  <2>2. Becomes(d)
    BY <1>4, <1>6
  <2> HIDE DEF d
  <2> QED
    BY <1>1, <1>5, <1>6, <2>1, <2>2, SameKeeps
<1>7. CASE ~stream.open
  <2>1. c.q.output = stream.output /\ c.q.open = stream.open
    BY <1>1, NowIs DEF Pairs, Streams
  <2>2. Becomes(c)
    BY <1>4, <1>7
  <2> HIDE DEF c
  <2>3. stream'.output = stream.output /\ ~stream'.open /\ Now' = c
    BY <1>3, <1>7, <2>1, <2>2 DEF Becomes, Now, Pairs
  <2> QED
    BY <1>1, <1>3, <1>5, <1>7, <2>3 DEF IInv, StreamAborts
<1> QED
  BY <1>6, <1>7

(* What stays of a closed stream is what was written since.                   *)
LEMMA ClosedKeeps ==
  ASSUME ~failed', ~stream'.open, pending' = {}, written' \in Nat, written' = stream'.output,
         stream' \in Streams, socket' \in Sockets
  PROVE  IInv'
<1>1. (Now \in Pairs)'
  BY DEF Now, Pairs
<1> QED
  BY <1>1 DEF IInv, StreamAborts

LEMMA OpenKeeps ==
  ASSUME IInv,
         NEW ssl \in BOOLEAN, NEW tcp \in BOOLEAN, NEW mask \in {{}, {"read"}},
         stream_open(ssl, tcp, mask)
  PROVE  IInv'
<1> DEFINE opened == [stream EXCEPT !.open = TRUE, !.mask = mask, !.shaken = FALSE,
                                    !.record = 0, !.left = 0,
                                    !.ssl = IF ssl THEN "live" ELSE @]
           watch == IF ssl THEN stream_ssl_mask(opened) ELSE stream_socket_mask(opened)
           k == [Connected EXCEPT !.tcp = tcp]
           w == Ready(k) \cap watch # {}
<1>1. ~failed /\ ~stream.open /\ Now \in Pairs /\ written \in Nat /\ written = stream.output
  BY DEF stream_open, AppRuns, IInv
<1>2. stream \in Streams /\ stream.output \in Nat
  BY <1>1, NowIs DEF Streams
<1>3. watch \in SUBSET {"read", "write"}
  BY DEF stream_ssl_mask, stream_socket_mask
<1>4. k \in Sockets /\ k.room = Capacity /\ k.got = 0
  BY SizesOK DEF Connected, Sockets
<1>5. /\ stream' = [opened EXCEPT !.watch = watch]
      /\ socket' = [k EXCEPT !.woken = w]
      /\ written' = written /\ ~failed'
  BY <1>1 DEF stream_open, history
<1>6. w \in BOOLEAN
  OBVIOUS
<1> HIDE DEF watch, k, w
<1>7. /\ stream' \in Streams /\ stream'.open
      /\ stream'.output = stream.output /\ stream'.record = 0 /\ stream'.left = 0
  BY <1>2, <1>3, <1>5 DEF Streams
<1>8. socket' \in Sockets /\ socket'.room = Capacity /\ socket'.got = 0
  BY <1>4, <1>5, <1>6 DEF Sockets
<1>9. (Now \in Pairs)' /\ Now'.q = stream' /\ Now'.k = socket'
  BY <1>7, <1>8 DEF Now, Pairs
<1>10. Sound(Now)'
  BY <1>2, <1>7, <1>9 DEF Sound
<1>11. written' = Balance(Now)' + Capacity
  BY <1>1, <1>2, <1>5, <1>7, <1>8, <1>9, SizesOK DEF Balance
<1> QED
  BY <1>1, <1>5, <1>7, <1>9, <1>10, <1>11 DEF IInv, StreamAborts

LEMMA ConstructKeeps ==
  ASSUME IInv, stream_construct
  PROVE  IInv'
<1>1. ~failed /\ ~stream.open /\ Now \in Pairs /\ pending = {}
  BY DEF stream_construct, AppRuns, IInv
<1>2. stream' \in Streams /\ ~stream'.open /\ stream'.output = 0
  BY DEF stream_construct, Constructed, Streams
<1>3. socket' \in Sockets
  BY <1>1, NowIs DEF stream_construct
<1>4. written' = 0 /\ pending' = {} /\ ~failed'
  BY <1>1 DEF stream_construct
<1> QED
  BY <1>2, <1>3, <1>4, ClosedKeeps

LEMMA CloseKeeps ==
  ASSUME IInv, stream_close
  PROVE  IInv'
<1>1. ~failed /\ Now \in Pairs
  BY DEF stream_close, Closed, AppRuns, IInv
<1>2. stream \in Streams
  BY <1>1, NowIs
<1>3. /\ stream' \in Streams /\ ~stream'.open /\ stream'.output = 0
      /\ stream.ssl = "freed" => stream'.ssl = "freed"
  BY <1>2 DEF stream_close, Closed, Streams
<1>4. socket' \in Sockets
  BY SizesOK DEF stream_close, Closed, Connected, Sockets
<1>5. written' = 0 /\ pending' = {} /\ (failed' <=> stream.ssl = "freed")
  BY DEF stream_close, Closed
<1>6. CASE stream.ssl = "freed"
  BY <1>3, <1>5, <1>6 DEF IInv, StreamAborts
<1>7. CASE stream.ssl # "freed"
  BY <1>3, <1>4, <1>5, <1>7, ClosedKeeps
<1> QED
  BY <1>6, <1>7

LEMMA ConsumeKeeps ==
  ASSUME IInv, NEW n \in 1..stream.input, stream_consume(n)
  PROVE  IInv'
<1> DEFINE d == [q |-> [stream EXCEPT !.input = @ - n], k |-> socket]
<1>1. ~failed /\ Now \in Pairs
  BY DEF stream_consume, AppRuns, IInv
<1>2. stream \in Streams /\ socket \in Sockets /\ stream.input - n \in Nat
  BY <1>1, NowIs DEF Streams
<1>3. Becomes(d) /\ pending' = pending /\ written' = written /\ ~failed'
  BY <1>1 DEF stream_consume, Becomes, history
<1>4. d \in Pairs
  BY <1>2 DEF Pairs, Streams
<1>5. /\ d.q.open = stream.open /\ d.q.ssl = stream.ssl
      /\ d.q.output = stream.output /\ d.q.record = stream.record /\ d.q.left = stream.left
      /\ d.k = socket
  BY <1>2 DEF Streams
<1> HIDE DEF d
<1>6. Same(Now, d)
  BY <1>1, <1>4, <1>5, NowIs DEF Same, Sound, Balance
<1>7. CASE stream.open
  BY <1>1, <1>3, <1>6, <1>7, SameKeeps
<1>8. CASE ~stream.open
  <2>1. stream' \in Streams /\ socket' \in Sockets /\ ~stream'.open
        /\ stream'.output = stream.output
    BY <1>3, <1>4, <1>5, <1>8 DEF Becomes, Pairs
  <2>2. pending = {} /\ written = stream.output /\ written \in Nat
    BY <1>1, <1>8 DEF IInv
  <2> QED
    BY <1>3, <2>1, <2>2, ClosedKeeps
<1> QED
  BY <1>7, <1>8

LEMMA AppendKeeps ==
  ASSUME IInv, NEW n \in 1..MaxWritten, stream_write(n)
  PROVE  IInv'
<1>1. ~failed /\ Now \in Pairs /\ written \in Nat /\ n \in Nat
  BY SizesOK DEF stream_write, AppRuns, IInv
<1>2. stream \in Streams /\ socket \in Sockets /\ stream.output + n \in Nat
  BY <1>1, NowIs DEF Streams
<1>3. /\ stream' = [stream EXCEPT !.output = @ + n]
      /\ socket' = socket /\ pending' = pending /\ written' = written + n /\ ~failed'
  BY <1>1 DEF stream_write
<1>4. /\ stream' \in Streams /\ stream'.output = stream.output + n
      /\ stream'.open = stream.open /\ stream'.ssl = stream.ssl
      /\ stream'.record = stream.record /\ stream'.left = stream.left
  BY <1>2, <1>3 DEF Streams
<1>5. CASE stream.open
  <2>1. Sound(Now) /\ written = Balance(Now) + Capacity
    BY <1>1, <1>5 DEF IInv
  <2>2. Now.q = stream /\ Now.k = socket /\ Now'.q = stream' /\ Now'.k = socket'
    BY DEF Now
  <2>3. stream.output \in Nat /\ stream.record \in Nat /\ stream.left \in Nat
        /\ socket.room \in Nat /\ socket.got \in Nat /\ Capacity \in Nat
    BY <1>2, SizesOK DEF Streams, Sockets
  <2>4. Sound(Now)'
    BY <1>1, <1>4, <2>1, <2>2, <2>3 DEF Sound
  <2>5. Balance(Now)' = Balance(Now) + n
    BY <1>1, <1>3, <1>4, <2>2, <2>3 DEF Balance
  <2>6. Balance(Now) \in Int
    BY <2>2, <2>3 DEF Balance
  <2>7. written' = Balance(Now)' + Capacity
    BY <1>1, <1>3, <2>1, <2>3, <2>5, <2>6
  <2>8. (Now \in Pairs)'
    BY <1>2, <1>3, <1>4 DEF Now, Pairs
  <2> QED
    BY <1>1, <1>3, <1>4, <1>5, <2>4, <2>7, <2>8 DEF IInv, StreamAborts
<1>6. CASE ~stream.open
  <2>1. pending = {} /\ written = stream.output
    BY <1>1, <1>6 DEF IInv
  <2> QED
    BY <1>1, <1>2, <1>3, <1>4, <1>6, <2>1, ClosedKeeps
<1> QED
  BY <1>5, <1>6

(* The kernel and the peer change the socket and leave the object.            *)
LEMMA SocketKeeps ==
  ASSUME IInv, stream.open, NEW k, socket' = k,
         ~failed => /\ k \in Sockets /\ k.got - k.room = socket.got - socket.room
                    /\ k.peer = socket.peer \/ socket.peer # "reset",
         failed => socket.peer # "reset" \/ k.peer = socket.peer,
         UNCHANGED <<stream, written, failed>>
  PROVE  IInv'
<1>1. CASE failed
  <2>1. StreamAborts'
    BY <1>1 DEF IInv, StreamAborts
  <2> QED
    BY <1>1, <2>1 DEF IInv
<1>2. CASE ~failed
  <2>1. Now \in Pairs /\ written \in Nat /\ Sound(Now) /\ written = Balance(Now) + Capacity
    BY <1>2 DEF IInv
  <2>2. Now.q = stream /\ Now.k = socket /\ Now'.q = stream /\ Now'.k = k
    BY DEF Now
  <2>3. stream \in Streams /\ socket \in Sockets /\ k \in Sockets
    BY <1>2, <2>1, NowIs
  <2>4. (Now \in Pairs)'
    BY <2>3 DEF Now, Pairs
  <2>5. Sound(Now)'
    BY <2>1, <2>2 DEF Sound
  <2>6. Balance(Now)' = Balance(Now)
    <3>1. /\ k.got \in Nat /\ k.room \in Nat /\ socket.got \in Nat /\ socket.room \in Nat
          /\ stream.output \in Nat /\ stream.left \in Nat /\ stream.record \in Nat
      BY <2>3 DEF Streams, Sockets
    <3>2. k.got - k.room = socket.got - socket.room
      BY <1>2
    <3>3. Balance(Now) = stream.output - stream.record + stream.left - socket.room + socket.got
      BY <2>2 DEF Balance
    <3>4. Balance(Now)' = stream.output - stream.record + stream.left - k.room + k.got
      BY <2>2 DEF Balance
    <3> QED
      BY <3>1, <3>2, <3>3, <3>4, Z3
  <2> QED
    BY <1>2, <2>1, <2>4, <2>5, <2>6 DEF IInv, StreamAborts
<1> QED
  BY <1>1, <1>2

LEMMA ReportKeeps ==
  ASSUME IInv, StreamReport
  PROVE  IInv'
<1> DEFINE b == socket.blocked \/ socket.room = 0
           k == [[socket EXCEPT !.blocked = b] EXCEPT !.woken = FALSE]
<1>1. ~failed /\ stream.open /\ Now \in Pairs
  BY DEF StreamReport, IInv
<1>2. socket \in Sockets
  BY <1>1, NowIs
<1>3. socket' = k /\ UNCHANGED <<stream, written, failed>>
  BY DEF StreamReport, Polled, history
<1>4. b \in BOOLEAN
  OBVIOUS
<1> HIDE DEF b
<1>5. k \in Sockets /\ k.room = socket.room /\ k.got = socket.got /\ k.peer = socket.peer
  BY <1>2, <1>4 DEF Sockets
<1> HIDE DEF k
<1> QED
  BY <1>1, <1>3, <1>5, SocketKeeps

LEMMA CloseEventKeeps ==
  ASSUME IInv, CloseEvent
  PROVE  IInv'
<1>1. ~failed /\ stream.open /\ Now \in Pairs
  BY DueIsOpen DEF CloseEvent
<1>2. socket \in Sockets
  BY <1>1, NowIs
<1>3. socket' = socket /\ UNCHANGED <<stream, written, failed>>
  BY DEF CloseEvent, history
<1> QED
  BY <1>1, <1>2, <1>3, SocketKeeps

LEMMA WokenKeeps ==
  ASSUME NEW k \in Sockets, NEW kinds
  PROVE  /\ Wake(k, kinds) \in Sockets
         /\ Wake(k, kinds).room = k.room /\ Wake(k, kinds).got = k.got
         /\ Wake(k, kinds).peer = k.peer
BY DEF Wake, Sockets

LEMMA PeerKeeps ==
  ASSUME IInv, Peer
  PROVE  IInv'
<1>1. ~failed => socket \in Sockets
  BY NowIs DEF IInv
<1>2. CASE PeerSends
  <2> DEFINE j == [socket EXCEPT !.sent = @ + 1, !.unread = @ + 1]
             k == Wake(j, {"read"})
  <2>1. stream.open /\ socket.peer = "open" /\ socket' = k
        /\ UNCHANGED <<stream, written, failed>>
    BY <1>2 DEF PeerSends, history
  <2>2. ~failed => /\ j \in Sockets
                   /\ j.room = socket.room /\ j.got = socket.got /\ j.peer = socket.peer
    <3> SUFFICES ASSUME ~failed
                 PROVE  /\ j \in Sockets
                        /\ j.room = socket.room /\ j.got = socket.got
                        /\ j.peer = socket.peer
      OBVIOUS
    <3>1. socket \in Sockets /\ socket.sent + 1 \in Nat /\ socket.unread + 1 \in Nat
      BY <1>1 DEF Sockets
    <3> QED
      BY <3>1 DEF Sockets
  <2> HIDE DEF j
  <2>3. ~failed => /\ k \in Sockets
                   /\ k.room = j.room /\ k.got = j.got /\ k.peer = j.peer
    BY <2>2, WokenKeeps
  <2> HIDE DEF k
  <2> QED
    BY <2>1, <2>2, <2>3, SocketKeeps
<1>3. ASSUME NEW n \in 1..InFlight, PeerReads(n)
      PROVE  IInv'
  <2> DEFINE j == [socket EXCEPT !.room = @ + n, !.got = @ + n, !.blocked = FALSE]
             k == IF socket.blocked \/ ~socket.tcp THEN Wake(j, {"write"}) ELSE j
  <2>1. stream.open /\ socket.peer # "reset" /\ socket' = k
        /\ UNCHANGED <<stream, written, failed>>
    BY <1>3 DEF PeerReads, history
  <2>2. CASE failed
    <3>1. stream.ssl = "freed"
      BY <2>1, <2>2 DEF IInv, StreamAborts
    <3> QED
      BY <2>1, <2>2, <3>1 DEF IInv, StreamAborts
  <2>3. CASE ~failed
    <3>1. n \in Nat
      BY <1>1, <2>3, SizesOK DEF InFlight, Sockets
    <3>2. /\ socket.room \in Nat /\ socket.got \in Nat
          /\ socket.room + n \in Nat /\ socket.got + n \in Nat
      BY <1>1, <2>3, <3>1 DEF Sockets
    <3>3. /\ j \in Sockets /\ j.peer = socket.peer
          /\ j.room = socket.room + n /\ j.got = socket.got + n
      BY <1>1, <2>3, <3>2 DEF Sockets
    <3> HIDE DEF j
    <3>4. k \in Sockets /\ k.room = j.room /\ k.got = j.got /\ k.peer = j.peer
      BY <3>3, WokenKeeps
    <3>5. k.got - k.room = socket.got - socket.room
      BY <3>1, <3>2, <3>3, <3>4
    <3> HIDE DEF k
    <3> QED
      BY <2>1, <2>3, <3>3, <3>4, <3>5, SocketKeeps
  <2> QED
    BY <2>2, <2>3
<1>4. ASSUME NEW how \in {"closed", "reset"}, PeerCloses(how)
      PROVE  IInv'
  <2> DEFINE j == [socket EXCEPT !.peer = how]
             k == Wake(j, {"close"})
  <2>1. stream.open /\ socket.peer # "reset" /\ socket' = k
        /\ UNCHANGED <<stream, written, failed>>
    BY <1>4 DEF PeerCloses, history
  <2>2. ~failed => j \in Sockets /\ j.room = socket.room /\ j.got = socket.got
    BY <1>1 DEF Sockets
  <2> HIDE DEF j
  <2>3. ~failed => k \in Sockets /\ k.room = j.room /\ k.got = j.got
    BY <2>2, WokenKeeps
  <2> HIDE DEF k
  <2> QED
    BY <2>1, <2>2, <2>3, SocketKeeps
<1> QED
  BY <1>2, <1>3, <1>4 DEF Peer

-----------------------------------------------------------------------------
LEMMA NextIInv ==
  ASSUME IInv, [StreamNext]_stream_vars
  PROVE  IInv'
<1>1. CASE Loop
  BY <1>1, ReportKeeps, ReadEventKeeps, WriteEventKeeps, CloseEventKeeps DEF Loop
<1>2. CASE Application
  BY <1>2, ConstructKeeps, NotifyKeeps, CloseKeeps, FlushKeeps, OpenKeeps,
     ConsumeKeeps, AppendKeeps DEF Application
<1>3. CASE Peer
  BY <1>3, PeerKeeps
<1>4. CASE UNCHANGED stream_vars
  <2>1. (Now \in Pairs)' <=> Now \in Pairs
    BY <1>4 DEF Now, stream_vars
  <2>2. (Sound(Now)' <=> Sound(Now)) /\ Balance(Now)' = Balance(Now)
    BY <1>4 DEF Now, Sound, Balance, stream_vars
  <2> QED
    BY <1>4, <2>1, <2>2 DEF stream_vars, IInv, StreamAborts
<1> QED
  BY <1>1, <1>2, <1>3, <1>4 DEF StreamNext

LEMMA Invariance == StreamSpec => []IInv
<1>1. StreamInit => IInv
  BY InitIInv
<1>2. IInv /\ [StreamNext]_stream_vars => IInv'
  BY NextIInv
<1> QED
  BY <1>1, <1>2, PTL DEF StreamSpec

(* Whatever the socket takes of a buffer or of a record, and however often an *)
(* object is opened again, every unit written is in the output, in the socket *)
(* or with the peer, once: stream_socket_write and stream_ssl_flush erase     *)
(* what went out, no more and no less.                                        *)
THEOREM StreamLosesNothing == StreamSpec => []NothingLost
<1>1. IInv => NothingLost
  <2> SUFFICES ASSUME IInv, stream.open, ~failed
               PROVE  written + stream.record - stream.left
                        = stream.output + InFlight + socket.got
    BY DEF NothingLost
  <2>1. Now \in Pairs /\ written \in Nat /\ written = Balance(Now) + Capacity
    BY DEF IInv
  <2>2. Now.q = stream /\ Now.k = socket /\ stream \in Streams /\ socket \in Sockets
    BY <2>1, NowIs
  <2> QED
    BY <2>1, <2>2, SizesOK DEF Balance, InFlight, Streams, Sockets
<1> QED
  BY <1>1, Invariance, PTL

(* The assertions of the stream fail, and freed memory is used, for the two   *)
(* reasons only that the code has no defence against.                         *)
THEOREM StreamAbortsForAReason == StreamSpec => []StreamAborts
<1>1. IInv => StreamAborts
  BY DEF IInv
<1> QED
  BY <1>1, Invariance, PTL

-----------------------------------------------------------------------------
(* Timer *)

(* While a timer's event is due there are expirations to read: they are taken *)
(* back only together with the event, or, by timer_set, when none is due.     *)
DueHasTicks ==
  ~SetWhileDue => \A t \in Timers : due[t] # {} => ticks[t] > 0

(* Closing the descriptor takes its event back.                               *)
DueTimerIsOpen == \A t \in Timers : due[t] # {} => t \in open

TimerInv ==
  /\ TypeOK
  /\ DueTimerIsOpen
  /\ DueHasTicks
  /\ EachToldOnce
  /\ ~SetWhileDue => TotalPositive

LEMMA InitTimerInv ==
  ASSUME Init
  PROVE  TimerInv
<1>1. TypeOK
  <2>1. due \in [Timers -> SUBSET {"read"}]
    BY DEF Init, Port!NothingDue
  <2>2. aborted \in BOOLEAN
    BY DEF Init
  <2> QED
    BY <2>1, <2>2 DEF Init, TypeOK
<1>2. DueHasTicks /\ DueTimerIsOpen
  BY DEF Init, Port!NothingDue, DueHasTicks, DueTimerIsOpen
<1>3. EachToldOnce
  <2>1. \A t \in Timers : fired[t] = 0 /\ told[t] = 0 /\ ticks[t] = 0
    BY DEF Init
  <2>2. 0 = 0 + 0
    OBVIOUS
  <2>3. ASSUME NEW t \in Timers
        PROVE  fired[t] = told[t] + ticks[t]
    BY <2>1, <2>2, Zenon
  <2> QED
    BY <2>3 DEF EachToldOnce
<1>4. TotalPositive
  BY DEF Init, TotalPositive
<1> QED
  BY <1>1, <1>2, <1>3, <1>4 DEF TimerInv

LEMMA NextTimerInv ==
  ASSUME TimerInv, [Next]_vars
  PROVE  TimerInv'
<1> USE ConstantsOK DEF TypeOK, DueTimerIsOpen, DueHasTicks, EachToldOnce, TotalPositive
<1>1. ASSUME NEW t \in Timers, NEW t0 \in {0, 1}, NEW ti \in {0, 1}, timer_set(t, t0, ti)
      PROVE  TimerInv'
  <2>1. Armed(IF t0 = 0 THEN 1 ELSE t0, ti) \in {"off", "once", "repeat"}
    BY DEF Armed
  <2> QED
    BY <1>1, <2>1 DEF TimerInv, timer_set, Restart
<1>2. ASSUME NEW t \in Timers, timer_clear(t)
      PROVE  TimerInv'
  BY <1>2 DEF TimerInv, timer_clear, Restart, Port!Close
<1>3. ASSUME NEW t \in Timers, Expire(t)
      PROVE  TimerInv'
  BY <1>3 DEF TimerInv, Expire
<1>4. ASSUME NEW t \in Timers, timer_callback(t)
      PROVE  TimerInv'
  BY <1>4 DEF TimerInv, timer_callback, Port!Deliver
<1>5. CASE Report
  BY <1>5 DEF TimerInv, Report, Port!Report, Port!Kinds
<1>6. CASE UNCHANGED vars
  BY <1>6 DEF vars, TimerInv
<1> QED
  BY <1>1, <1>2, <1>3, <1>4, <1>5, <1>6 DEF Next

LEMMA TimerInvariant == Spec => []TimerInv
<1> QED
  BY InitTimerInv, NextTimerInv, PTL DEF Spec

(* Each expiration of a timer is told to the application exactly once.        *)
THEOREM ExpirationsToldOnce == Spec => []EachToldOnce
  BY TimerInvariant, PTL DEF TimerInv

(* The assertion of timer_callback holds in every application that does not   *)
(* set a timer whose event is due; clearing one at any time is safe.          *)
THEOREM AssertionHolds ==
  ASSUME ~SetWhileDue
  PROVE  Spec => []TotalPositive
<1>1. TimerInv => TotalPositive
  BY DEF TimerInv
<1> QED
  BY <1>1, TimerInvariant, PTL
=============================================================================
