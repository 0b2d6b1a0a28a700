-------------------------------- MODULE Stream --------------------------------
(***************************************************************************)
(* Buffered streams: src/reactor/stream.c, plain and with SSL, over a      *)
(* descriptor and a socket whose events epoll reports edge-triggered.      *)
(*                                                                         *)
(* The application writes to the output buffer and flushes it; what the    *)
(* socket does not take goes out when the descriptor is called back, and   *)
(* whether it is called back again depends on what the kernel takes for an *)
(* edge.  Bytes are counted in units; the buffers are first in, first out. *)
(* Callbacks come as EventPort promises.  Handlers end with the call of    *)
(* the application, so that its calls are steps of their own here.         *)
(* Names that Timer has too begin with Stream: MCOwners extends both.      *)
(***************************************************************************)
EXTENDS Integers, FiniteSetsExt

CONSTANTS
  TcpWithSsl,   (* whether streams with SSL are opened on TCP sockets         *)
  Capacity,     (* units the socket holds on their way to the peer            *)
  Record,       (* the most units one SSL record carries                      *)
  MaxWritten,   (* bound: units the application writes on a connection        *)
  MaxSent       (* bound: units the peer sends on a connection                *)

ASSUME SizesOK ==
  /\ TcpWithSsl \in BOOLEAN
  /\ Capacity \in Nat /\ Record \in Nat \ {0} /\ MaxWritten \in Nat /\ MaxSent \in Nat

VARIABLES
  stream,    (* the object, and what SSL keeps for it                         *)
  socket,    (* the kernel's side of the connection, and the peer             *)
  pending,   (* events reported by epoll_wait and not yet delivered           *)
  written,   (* history: units written, of this connection or for it ...      *)
  flushed,   (* ... and those of them written before the last stream_flush    *)
  seen,      (* history: units the application was told of with STREAM_READ   *)
  failed     (* an assertion has failed, or freed memory was used               *)

stream_vars == <<stream, socket, pending, written, flushed, seen, failed>>
history == <<written, flushed>>

-----------------------------------------------------------------------------
(* ssl is the pointer: NULL, a session, or one that has been freed.  A record *)
(* of which the socket took a part only stays with the session, with left     *)
(* units to go, while its units stay in the output buffer.                    *)
Constructed ==
  [open |-> FALSE, mask |-> {}, watch |-> {}, notify |-> FALSE, input |-> 0, output |-> 0,
   ssl |-> "none", want_write |-> FALSE, shaken |-> FALSE, record |-> 0, left |-> 0]

(* blocked is SOCK_NOSPACE: a write or a poll has found the socket full.      *)
(* woken says that the descriptor is in epoll's list of those to look at.     *)
Connected ==
  [tcp |-> TRUE, room |-> Capacity, blocked |-> FALSE, woken |-> FALSE,
   unread |-> 0, sent |-> 0, got |-> 0, peer |-> "open"]

StreamInit ==
  /\ stream = Constructed /\ socket = Connected
  /\ pending = {}
  /\ written = 0 /\ flushed = 0 /\ seen = 0
  /\ failed = FALSE

(* What poll says of a socket.                                                *)
Ready(k) ==
  (IF k.unread > 0 \/ k.peer # "open" THEN {"read"} ELSE {})
    \cup (IF k.room > 0 \/ k.peer = "reset" THEN {"write"} ELSE {})
    \cup (IF k.peer # "open" THEN {"close"} ELSE {})

Polled(k) == [k EXCEPT !.blocked = @ \/ k.room = 0]

Watched(q) == q.watch \cup {"close"}

(* The kernel tells epoll that something of kinds has changed.                *)
Wake(k, kinds) ==
  IF stream.open /\ kinds \cap Watched(stream) # {} THEN [k EXCEPT !.woken = TRUE] ELSE k

-----------------------------------------------------------------------------
(* The operations below map a stream and its socket, [q, k], to new ones.     *)

(* descriptor_mask: epoll_ctl looks at the socket anew, if the mask changes.  *)
descriptor_mask(c, mask) ==
  IF c.q.watch = mask THEN c
  ELSE [q |-> [c.q EXCEPT !.watch = mask],
        k |-> [Polled(c.k) EXCEPT !.woken = @ \/ Ready(c.k) \cap (mask \cup {"close"}) # {}]]

(* Slip: output left over is forgotten.                                       *)
WatchIfNotified(q) == (q.mask \cap {"read"}) \cup (IF q.notify THEN {"write"} ELSE {})

stream_socket_mask(q) ==
  (q.mask \cap {"read"}) \cup (IF q.output > 0 \/ q.notify THEN {"write"} ELSE {})
stream_ssl_mask(q) ==
  (q.mask \cap {"read"})
    \cup (IF q.want_write \/ q.output > 0 \/ q.notify THEN {"write"} ELSE {})

stream_socket_update(c) == descriptor_mask(c, stream_socket_mask(c.q))
stream_ssl_update(c) == descriptor_mask(c, stream_ssl_mask(c.q))

(* write(2) of n units: what fits is taken; if that is not all, the socket is *)
(* found full.  A connection that is closed or was reset takes nothing.       *)
Taken(k, n) == Min({k.room, n})
Fails(q, k) == q.output > 0 /\ (~q.open \/ k.peer = "reset")
Write(k, n) == [k EXCEPT !.room = @ - Taken(k, n), !.blocked = @ \/ k.room < n]

(* Slip: the whole buffer is erased, whatever was written.                    *)
EraseAll(c) ==
  [q |-> [c.q EXCEPT !.output = 0], k |-> Write(c.k, c.q.output)]

stream_socket_write(c) ==
  [q |-> [c.q EXCEPT !.output = @ - Taken(c.k, c.q.output)],
   k |-> Write(c.k, c.q.output)]

(* SSL_read and SSL_write do the handshake first, for which the peer must     *)
(* have sent its part.                                                        *)
Handshake(c) ==
  IF c.q.shaken \/ c.k.unread = 0 THEN c
  ELSE [q |-> [c.q EXCEPT !.shaken = TRUE], k |-> [c.k EXCEPT !.unread = @ - 1]]

(* SSL_write: one record, which counts as written when the socket has taken   *)
(* all of it.                                                                 *)
SendRecord(c) ==
  LET record == IF c.q.record > 0 THEN c.q.record ELSE Min({Record, c.q.output})
      left == IF c.q.record > 0 THEN c.q.left ELSE record
      done == c.k.room >= left
  IN  [q |-> [c.q EXCEPT !.output = IF done THEN @ - record ELSE @,
                         !.record = IF done THEN 0 ELSE record,
                         !.left = IF done THEN 0 ELSE left - c.k.room,
                         !.want_write = ~done],
       k |-> Write(c.k, left)]

(* On a reset connection SSL_write reports an error, and the buffer stays.    *)
stream_ssl_flush(c) ==
  LET h == Handshake(c)
  IN  IF ~h.q.shaken \/ h.q.output = 0 \/ h.k.peer = "reset"
      THEN [h EXCEPT !.q.want_write = FALSE]
      ELSE SendRecord(h)

(* Slip: one block is read, whatever is left.                                 *)
ReadOneBlock(c) ==
  LET n == Min({1, c.k.unread})
  IN  [q |-> [c.q EXCEPT !.input = @ + n], k |-> [c.k EXCEPT !.unread = @ - n]]

(* All that has arrived is read, block by block.                              *)
stream_socket_read(c) ==
  [q |-> [c.q EXCEPT !.input = @ + c.k.unread], k |-> [c.k EXCEPT !.unread = 0]]
stream_ssl_read(c) ==
  LET h == Handshake(c) IN stream_socket_read([h EXCEPT !.q.want_write = FALSE])

-----------------------------------------------------------------------------
(* The event loop.                                                            *)

Now == [q |-> stream, k |-> socket]
Becomes(c) == stream' = c.q /\ socket' = c.k

(* epoll_wait reports what the socket is ready for, of what is watched.       *)
StreamReport ==
  /\ ~failed /\ pending = {}
  /\ stream.open /\ socket.woken
  /\ pending' = Ready(socket) \cap Watched(stream)
  /\ socket' = [Polled(socket) EXCEPT !.woken = FALSE]
  /\ UNCHANGED <<stream, history, seen, failed>>

(* The stream's callback is called with k, read before write before close.    *)
StreamPort == INSTANCE EventPort WITH Descriptors <- {"stream"},
                                      open <- IF stream.open THEN {"stream"} ELSE {},
                                      due <- [d \in {"stream"} |-> pending]
Deliver(k) ==
  /\ ~failed
  /\ k \in pending
  /\ \A j \in pending : ~StreamPort!Precedes(j, k)
  /\ pending' = pending \ {k}

WithSsl == stream.ssl = "live"

(* DESCRIPTOR_READ.                                                           *)
ReadEvent ==
  /\ Deliver("read")
  /\ LET c == IF WithSsl THEN stream_ssl_update(stream_ssl_read(Now))
              ELSE stream_socket_read(Now)
     IN  Becomes(c) /\ seen' = seen + c.q.input - stream.input
  /\ UNCHANGED <<history, failed>>

(* DESCRIPTOR_WRITE: whoever asked to be notified is, with SSL when all is    *)
(* written.  Writing to a connection that was reset fails.                    *)
WriteEvent ==
  /\ Deliver("write")
  /\ LET c == IF WithSsl THEN stream_ssl_flush(Now) ELSE stream_socket_write(Now)
         d == [c EXCEPT !.q.notify = @ /\ WithSsl /\ c.q.output > 0]
     IN  Becomes(IF WithSsl THEN stream_ssl_update(d) ELSE stream_socket_update(d))
  /\ failed' = (~WithSsl /\ Fails(stream, socket))
  /\ UNCHANGED <<history, seen>>

(* DESCRIPTOR_CLOSE: STREAM_CLOSE is dispatched and nothing else changes.     *)
CloseEvent ==
  /\ Deliver("close")
  /\ UNCHANGED <<stream, socket, history, seen, failed>>

-----------------------------------------------------------------------------
(* What the application calls.                                                *)

AppRuns == ~failed

stream_construct ==
  /\ AppRuns /\ ~stream.open
  /\ stream' = Constructed /\ written' = 0
  /\ UNCHANGED <<socket, pending, flushed, seen, failed>>

(* A socket that is connected is opened.  The object may have been used       *)
(* before: a plain stream does not look at the pointer it finds.              *)
stream_open(ssl, tcp, mask) ==
  /\ AppRuns /\ ~stream.open
  /\ ssl /\ tcp => TcpWithSsl
  /\ LET opened == [stream EXCEPT !.open = TRUE, !.mask = mask, !.shaken = FALSE,
                                  !.record = 0, !.left = 0,
                                  !.ssl = IF ssl THEN "live" ELSE @]
         watch == IF ssl THEN stream_ssl_mask(opened) ELSE stream_socket_mask(opened)
         k == [Connected EXCEPT !.tcp = tcp]
     IN  /\ stream' = [opened EXCEPT !.watch = watch]
         /\ socket' = [k EXCEPT !.woken = Ready(k) \cap watch # {}]
  /\ UNCHANGED <<pending, history, seen, failed>>

(* Slip: the mask is left to the next event.                                  *)
NotifyQuietly ==
  /\ AppRuns /\ ~stream.notify
  /\ stream' = [stream EXCEPT !.notify = TRUE]
  /\ UNCHANGED <<socket, pending, history, seen, failed>>

stream_notify ==
  /\ AppRuns /\ ~stream.notify
  /\ LET c == [Now EXCEPT !.q.notify = TRUE]
     IN  Becomes(IF ~stream.open THEN c
                 ELSE IF stream.ssl # "none" THEN stream_ssl_update(c)
                 ELSE stream_socket_update(c))
  /\ UNCHANGED <<pending, history, seen, failed>>

Closed ==
  /\ AppRuns /\ stream.open
  /\ stream' = [stream EXCEPT !.open = FALSE, !.watch = {}, !.notify = FALSE,
                              !.input = 0, !.output = 0,
                              !.ssl = IF @ = "live" THEN "freed" ELSE @]
  /\ socket' = Connected /\ written' = 0 /\ flushed' = 0 /\ seen' = 0
  /\ failed' = (stream.ssl = "freed")

(* Slip: what is due stays due.                                               *)
CloseButDue == Closed /\ UNCHANGED pending

(* stream_close and stream_destruct: the session is freed, and the pointer to *)
(* it stays.  Once a stream of the thread had SSL every close frees it.       *)
stream_close == Closed /\ pending' = {}

stream_consume(n) ==
  /\ AppRuns
  /\ stream' = [stream EXCEPT !.input = @ - n]
  /\ UNCHANGED <<socket, pending, history, seen, failed>>

(* stream_write, or stream_allocate and writing to the memory.                *)
stream_write(n) ==
  /\ AppRuns /\ written + n <= MaxWritten
  /\ stream' = [stream EXCEPT !.output = @ + n]
  /\ written' = written + n
  /\ UNCHANGED <<socket, pending, flushed, seen, failed>>

stream_flush ==
  /\ AppRuns /\ stream.open
  /\ Becomes(IF stream.ssl # "none" THEN stream_ssl_update(stream_ssl_flush(Now))
             ELSE stream_socket_update(stream_socket_write(Now)))
  /\ failed' = (stream.ssl = "freed" \/ (stream.ssl = "none" /\ Fails(stream, socket)))
  /\ flushed' = written
  /\ UNCHANGED <<pending, written, seen>>

-----------------------------------------------------------------------------
(* The peer and the kernel: an edge is data that arrives, a close, and room   *)
(* in the socket; on TCP only if a write had found it full.                   *)

PeerSends ==
  /\ stream.open /\ socket.peer = "open" /\ socket.sent < MaxSent
  /\ socket' = Wake([socket EXCEPT !.sent = @ + 1, !.unread = @ + 1], {"read"})
  /\ UNCHANGED <<stream, pending, history, seen, failed>>

PeerReads(n) ==
  /\ stream.open /\ socket.peer # "reset"
  /\ LET k == [socket EXCEPT !.room = @ + n, !.got = @ + n, !.blocked = FALSE]
     IN  socket' = IF socket.blocked \/ ~socket.tcp THEN Wake(k, {"write"}) ELSE k
  /\ UNCHANGED <<stream, pending, history, seen, failed>>

(* The peer ends its direction, or the connection, which it may have ended in *)
(* its direction before.                                                      *)
PeerCloses(how) ==
  /\ stream.open
  /\ socket.peer = "open" \/ (socket.peer = "closed" /\ how = "reset")
  /\ socket' = Wake([socket EXCEPT !.peer = how], {"close"})
  /\ UNCHANGED <<stream, pending, history, seen, failed>>

InFlight == Capacity - socket.room

-----------------------------------------------------------------------------
Loop == StreamReport \/ ReadEvent \/ WriteEvent \/ CloseEvent
Application ==
  \/ stream_construct \/ stream_notify \/ stream_close \/ stream_flush
  \/ \E ssl, tcp \in BOOLEAN, mask \in {{}, {"read"}} : stream_open(ssl, tcp, mask)
  \/ \E n \in 1..stream.input : stream_consume(n)
  \/ \E n \in 1..MaxWritten : stream_write(n)
Peer ==
  \/ PeerSends
  \/ \E n \in 1..InFlight : PeerReads(n)
  \/ \E how \in {"closed", "reset"} : PeerCloses(how)

StreamNext == Loop \/ Application \/ Peer

StreamSpec == StreamInit /\ [][StreamNext]_stream_vars

(* The loop goes round and the peer reads what has come.                      *)
FairStreamSpec ==
  /\ StreamSpec
  /\ WF_stream_vars(StreamReport) /\ WF_stream_vars(ReadEvent \/ WriteEvent \/ CloseEvent)
  /\ WF_stream_vars(\E n \in 1..InFlight : PeerReads(n))

-----------------------------------------------------------------------------
(* Every unit written is in the buffer, on its way or has reached the peer,   *)
(* once: partial writes and partial records neither lose nor repeat any.      *)
NothingLost ==
  stream.open /\ ~failed =>
    written + stream.record - stream.left = stream.output + InFlight + socket.got

(* An assertion of the stream fails only on a connection that its peer has    *)
(* reset, and freed memory is used only through an object that had SSL and    *)
(* was opened again without it, not having been constructed anew.             *)
StreamAborts ==
  failed => socket.peer = "reset" \/ stream.ssl = "freed"

Gone == ~stream.open \/ socket.peer # "open" \/ failed

(* What was flushed reaches the peer, though the socket fills up and events   *)
(* are edges: no part of it waits for an event that does not come.  With SSL  *)
(* nothing goes out before the handshake.                                     *)
FlushedArrives ==
  stream.open /\ flushed > socket.got /\ (WithSsl => stream.shaken)
    ~> socket.got >= flushed \/ Gone

(* What has arrived on a stream that is open for reading is announced to the  *)
(* application; the first unit on a connection with SSL is the handshake.     *)
Unseen == socket.sent - seen > IF WithSsl THEN 1 ELSE 0

ArrivedIsSeen == stream.open /\ "read" \in stream.mask /\ Unseen ~> ~Unseen \/ Gone

(* Whoever has called stream_notify gets STREAM_WRITE; with SSL not before    *)
(* the handshake is done.                                                     *)
NotifyAnswered ==
  stream.open /\ stream.notify /\ (WithSsl => stream.shaken) ~> ~stream.notify \/ Gone
=============================================================================
