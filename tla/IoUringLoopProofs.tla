--------------------------- MODULE IoUringLoopProofs ---------------------------
(***************************************************************************)
(* Theorems about IoUringLoop for every size of the connection table, both *)
(* kinds of listener and every queue length.                               *)
(***************************************************************************)
EXTENDS IoUringLoop, FiniteSetTheorems, TLAPS

WsStates == {"WS_RECV", "WS_SEND"}
SendStates == {"SEND", "WS_SEND"}

\* What holds of a connection between two operations, apart from the flags that
\* say which are in flight: the subscription is the WebSocket's, only a subscriber
\* has messages queued, only a response can ask for the switch to WebSocket, an
\* entry without a descriptor is in RECV, and a refused message leaves WS_RECV.
Shape(c) ==
  /\ c \in Conn
  /\ c.sub <=> c.st \in WsStates
  /\ ~c.sub => c.pend = 0
  /\ c.kw => c.st = "SEND"
  /\ ~c.fd => c.st \in {"FREE", "RECV"}
  /\ c.refused => c.st = "WS_RECV"

\* The flags of connection c with what is in flight for it; t is the listener's
\* kind, f says that it was given a completion that was not its own.
Flags(t, c, f) ==
  /\ c.k["SEND"] = IF c.sp THEN 1 ELSE 0
  /\ c.k["POLLIN"] + c.k["POLLOUT"] = IF c.pp THEN 1 ELSE 0
  /\ ~f => c.k["RECV"] <= 1 /\ (c.k["RECV"] = 1 => c.rp)
  /\ t => ~c.rp /\ ~c.sp /\ c.k["RECV"] = 0
  /\ ~t => ~c.pp /\ c.st # "TLS_HS"

\* What is in flight in which state.
Armed(t, c, f) ==
  /\ t => /\ c.fd /\ c.st \in {"TLS_HS", "RECV", "SEND"} => c.pp
          /\ c.st = "WS_RECV" /\ ~c.refused => c.pp
  /\ ~t => /\ c.sp <=> c.st \in SendStates
           /\ ~f /\ c.fd /\ c.st = "RECV" => c.rp /\ c.k["RECV"] = 1
           /\ ~f /\ c.st = "SEND" => c.k["RECV"] = 0

Sound(t, c, f) ==
  /\ Shape(c) /\ Flags(t, c, f) /\ Armed(t, c, f)
  /\ c.rc = "ok"
  /\ c.st = "FREE" => c = FreeConn

Queued(t, c) == ~t /\ c.pend > 0 /\ ~c.refused => c.st = "WS_SEND"

\* What is in flight for connections that are gone: recvs of plain connections.
LateOk(t, L) ==
  /\ \A s \in Slots, o \in Ops \ {"RECV"} : L[s][o] = 0
  /\ t => \A s \in Slots : L[s]["RECV"] = 0

Open(g) == {s \in Slots : g[s].fd}
Lost(g) == {s \in Slots : g[s].st # "FREE" /\ ~g[s].fd}

\* n descriptors are open and at most m entries were left without one.
Counts(g, n, m) == n = Cardinality(Open(g)) /\ Cardinality(Lost(g)) <= m

\* The part of the invariant about connections: table g, late L, foreign F, n
\* connections counted, m failed allocations.
Held(t, g, L, F, n, m) ==
  /\ g \in [Slots -> Conn] /\ L \in [Slots -> [Ops -> Nat]] /\ F \in [Slots -> BOOLEAN]
  /\ \A s \in Slots : Sound(t, g[s], F[s]) /\ Queued(t, g[s])
  /\ LateOk(t, L) /\ Counts(g, n, m)

\* The rest: an accept is only armed below max_accepts.
RestTyped ==
  /\ tls \in BOOLEAN
  /\ accepts_done \in 0 .. MaxAccepts
  /\ accept_pending \in BOOLEAN /\ running \in BOOLEAN
  /\ notified \in Nat /\ oom \in Nat
  /\ accept_pending => accepts_done < MaxAccepts

IInv == RestTyped /\ Held(tls, conn, late, foreign, active_conns, oom)

-------------------------------------------------------------------------------
(* The handlers, one connection at a time *)

\* A connection whose completion is being handled: no send or poll is in flight.
Idle(t, c, f) ==
  /\ Shape(c) /\ Flags(t, c, f)
  /\ ~c.sp /\ ~c.pp /\ c.rc = "ok" /\ c.st # "FREE"

\* What a handler may leave of connection c: a sound connection, or one to close
\* with at most a recv in flight.
Done(t, d, f, c) ==
  /\ d \in Conn /\ d.fd = c.fd
  /\ d.rc = "ok" => Sound(t, d, f) /\ Queued(t, d) /\ d.st # "FREE"
  /\ d.rc # "ok" => /\ d.k["SEND"] = 0 /\ d.k["POLLIN"] = 0 /\ d.k["POLLOUT"] = 0
                    /\ t => d.k["RECV"] = 0

\* A connection to close.
LEMMA FailDone ==
  ASSUME NEW t \in BOOLEAN, NEW f \in BOOLEAN, NEW c, Idle(t, c, f)
  PROVE  Done(t, Fail(c), f, c) /\ Done(t, Close(c), f, c)
<1>1. c \in Conn /\ c.k \in [Ops -> Nat]
  BY DEF Idle, Shape, Conn
<1>2. /\ Fail(c) \in Conn /\ Fail(c).fd = c.fd /\ Fail(c).k = c.k /\ Fail(c).rc = "err"
      /\ Close(c) \in Conn /\ Close(c).fd = c.fd /\ Close(c).k = c.k /\ Close(c).rc = "closed"
  BY <1>1 DEF Fail, Close, Conn
<1>3. /\ c.k["SEND"] = 0 /\ c.k["POLLIN"] = 0 /\ c.k["POLLOUT"] = 0
      /\ t => c.k["RECV"] = 0
  BY <1>1 DEF Idle, Flags, Ops
<1> QED
  BY <1>2, <1>3 DEF Done

\* submit_poll of a TLS connection with nothing in flight arms exactly one poll.
LEMMA PollDone ==
  ASSUME NEW f \in BOOLEAN, NEW c, Idle(TRUE, c, f), NEW w \in BOOLEAN
  PROVE  Done(TRUE, submit_poll(c, w), f, c) /\ submit_poll(c, w).rc = "ok"
<1> DEFINE o == IF w THEN "POLLOUT" ELSE "POLLIN"
           m == [c.k EXCEPT ![o] = @ + 1]
           d == submit_poll(c, w)
<1>1. c \in Conn /\ c.k \in [Ops -> Nat] /\ o \in Ops /\ ~c.pp /\ ~c.sp /\ c.rc = "ok"
  BY DEF Idle, Shape, Conn, Ops
<1>2. d = [c EXCEPT !.pp = TRUE, !.k = m] /\ m \in [Ops -> Nat]
  <2>1. d = [c EXCEPT !.pp = TRUE, !.k[o] = @ + 1]
    BY <1>1 DEF submit_poll
  <2> HIDE DEF o
  <2> QED
    BY <1>1, <2>1 DEF Conn
<1>3. /\ m["SEND"] = c.k["SEND"] /\ m["RECV"] = c.k["RECV"]
      /\ m["POLLIN"] + m["POLLOUT"] = c.k["POLLIN"] + c.k["POLLOUT"] + 1
  BY <1>1 DEF Ops
<1> HIDE DEF m, d
<1>4. d \in Conn
  BY <1>1, <1>2 DEF Conn
<1>5. /\ d.k = m /\ d.pp = TRUE
      /\ d.st = c.st /\ d.fd = c.fd /\ d.rp = c.rp /\ d.sp = c.sp /\ d.kw = c.kw
      /\ d.sub = c.sub /\ d.pend = c.pend /\ d.rc = c.rc /\ d.refused = c.refused
  BY <1>1, <1>2 DEF Conn
<1>6. Shape(d) /\ d.st # "FREE"
  BY <1>4, <1>5 DEF Idle, Shape
<1>7. Flags(TRUE, d, f)
  BY <1>1, <1>3, <1>5 DEF Idle, Flags
<1>8. Armed(TRUE, d, f) /\ Queued(TRUE, d)
  BY <1>5 DEF Armed, Queued
<1> QED
  BY <1>1, <1>4, <1>5, <1>6, <1>7, <1>8 DEF Done, Sound, d

\* submit_recv of a connection that may receive: under TLS one poll, otherwise one
\* recv, unless one is out already.  On a plain listener nothing is queued.
LEMMA RecvDone ==
  ASSUME tls \in BOOLEAN, NEW f \in BOOLEAN, NEW c, Idle(tls, c, f),
         c.st \in {"RECV", "WS_RECV", "TLS_HS"}, c.st = "RECV" => ~c.rp,
         Queued(tls, c)
  PROVE  Done(tls, submit_recv(c), f, c) /\ submit_recv(c).rc = "ok"
<1> DEFINE d == submit_recv(c)
           m == [c.k EXCEPT !["RECV"] = @ + 1]
<1>1. /\ c \in Conn /\ c.k \in [Ops -> Nat] /\ ~c.pp /\ ~c.sp /\ c.rc = "ok" /\ c.st # "FREE"
      /\ Shape(c) /\ Flags(tls, c, f)
  BY DEF Idle, Shape, Conn
<1>2. CASE tls = TRUE
  <2>1. ~c.rp /\ Idle(TRUE, c, f)
    BY <1>1, <1>2 DEF Flags
  <2>2. submit_recv(c) = submit_poll(c, FALSE)
    BY <1>1, <1>2, <2>1 DEF submit_recv
  <2> QED
    BY <1>2, <2>1, <2>2, PollDone
<1>3. CASE tls = FALSE /\ c.rp
  <2>1. d = c
    BY <1>3 DEF submit_recv
  <2>2. Armed(tls, c, f)
    BY <1>1, <1>3 DEF Armed, SendStates
  <2> QED
    BY <1>1, <2>1, <2>2 DEF Done, Sound
<1>4. CASE tls = FALSE /\ ~c.rp
  <2>1. d = [c EXCEPT !.rp = TRUE, !.k = m] /\ m \in [Ops -> Nat]
    <3>1. d = [c EXCEPT !.rp = TRUE, !.k["RECV"] = @ + 1]
      BY <1>1, <1>4 DEF submit_recv
    <3> QED
      BY <1>1, <3>1 DEF Conn, Ops
  <2>2. /\ m["SEND"] = c.k["SEND"] /\ m["RECV"] = c.k["RECV"] + 1
        /\ m["POLLIN"] = c.k["POLLIN"] /\ m["POLLOUT"] = c.k["POLLOUT"]
    BY <1>1 DEF Ops
  <2>3. ~f => c.k["RECV"] = 0
    BY <1>1, <1>4 DEF Flags, Ops
  <2> HIDE DEF m, d
  <2>4. d \in Conn
    BY <1>1, <2>1 DEF Conn
  <2>5. /\ d.k = m /\ d.rp = TRUE
        /\ d.st = c.st /\ d.fd = c.fd /\ d.pp = c.pp /\ d.sp = c.sp /\ d.kw = c.kw
        /\ d.sub = c.sub /\ d.pend = c.pend /\ d.rc = c.rc /\ d.refused = c.refused
    BY <1>1, <2>1 DEF Conn
  <2>6. Shape(d) /\ Queued(tls, d)
    BY <1>1, <2>4, <2>5 DEF Shape, Queued
  <2>7. Flags(tls, d, f)
    BY <1>1, <1>4, <2>2, <2>3, <2>5 DEF Flags
  <2>8. Armed(tls, d, f)
    BY <1>1, <1>4, <2>2, <2>3, <2>5 DEF Armed, SendStates
  <2> QED
    BY <1>1, <2>4, <2>5, <2>6, <2>7, <2>8 DEF Done, Sound, d
<1> QED
  BY <1>2, <1>3, <1>4

\* The switch to WebSocket after the 101: subscribed and listening.
LEMMA PromoteDone ==
  ASSUME tls \in BOOLEAN, NEW f \in BOOLEAN, NEW c, Idle(tls, c, f), c.st = "SEND"
  PROVE  Done(tls, promote_to_ws(c), f, c)
<1> DEFINE e == [c EXCEPT !.sub = TRUE, !.kw = FALSE, !.st = "WS_RECV"]
<1>1. c \in Conn /\ c.fd /\ c.pend = 0
  BY DEF Idle, Shape, WsStates, Conn
<1>2. e \in Conn
  BY <1>1 DEF Conn, States
<1>3. /\ e.sub = TRUE /\ e.kw = FALSE /\ e.st = "WS_RECV" /\ e.fd = c.fd /\ e.rp = c.rp
      /\ e.sp = c.sp /\ e.pp = c.pp /\ e.pend = c.pend /\ e.k = c.k /\ e.rc = c.rc
      /\ e.refused = c.refused
  BY <1>1 DEF Conn
<1> HIDE DEF e
<1>4. Idle(tls, e, f) /\ Queued(tls, e)
  BY <1>1, <1>2, <1>3 DEF Idle, Shape, Flags, Queued, WsStates
<1>5. Done(tls, submit_recv(e), f, e)
  BY <1>3, <1>4, RecvDone
<1> QED
  BY <1>3, <1>5 DEF promote_to_ws, Done, e

\* Back to receiving once the queue is empty.
LEMMA WsIdleDone ==
  ASSUME tls \in BOOLEAN, NEW f \in BOOLEAN, NEW c, Idle(tls, c, f), c.st = "WS_SEND",
         c.pend = 0
  PROVE  Done(tls, WsIdle(c), f, c)
<1> DEFINE e == [c EXCEPT !.st = "WS_RECV"]
<1>1. c \in Conn /\ c.fd
  BY DEF Idle, Shape, Conn
<1>2. e \in Conn
  BY <1>1 DEF Conn, States
<1>3. /\ e.sub = c.sub /\ e.kw = c.kw /\ e.st = "WS_RECV" /\ e.fd = c.fd /\ e.rp = c.rp
      /\ e.sp = c.sp /\ e.pp = c.pp /\ e.pend = c.pend /\ e.k = c.k /\ e.rc = c.rc
      /\ e.refused = c.refused
  BY <1>1 DEF Conn
<1> HIDE DEF e
<1>4. Idle(tls, e, f) /\ Queued(tls, e)
  BY <1>1, <1>2, <1>3 DEF Idle, Shape, Flags, Queued, WsStates
<1>5. Done(tls, submit_recv(e), f, e)
  BY <1>3, <1>4, RecvDone
<1> QED
  BY <1>3, <1>5 DEF WsIdle, Done, e

\* Messages taken from the queue of a subscriber.
LEMMA TakenIdle ==
  ASSUME NEW t \in BOOLEAN, NEW f \in BOOLEAN, NEW c, Idle(t, c, f),
         NEW j \in 0 .. c.pend
  PROVE  /\ Idle(t, Taken(c, j), f) /\ Taken(c, j).st = c.st /\ Taken(c, j).fd = c.fd
         /\ Taken(c, j).kw = c.kw /\ Taken(c, j).sub = c.sub /\ Taken(c, j).k = c.k
         /\ Taken(c, j).refused = c.refused
<1> DEFINE e == [c EXCEPT !.pend = @ - j]
<1>1. c \in Conn /\ c.pend \in 0 .. PendingMax /\ PendingMax \in Nat
  BY LoopAssumption DEF Idle, Shape, Conn
<1>2. c.pend - j \in 0 .. PendingMax /\ (c.pend = 0 => c.pend - j = 0)
  BY <1>1
<1>3. e \in Conn
  BY <1>1, <1>2 DEF Conn
<1>4. /\ e.sub = c.sub /\ e.kw = c.kw /\ e.st = c.st /\ e.fd = c.fd /\ e.rp = c.rp
      /\ e.sp = c.sp /\ e.pp = c.pp /\ e.pend = c.pend - j /\ e.k = c.k /\ e.rc = c.rc
      /\ e.refused = c.refused
  BY <1>1 DEF Conn
<1>5. Taken(c, j) = e
  BY DEF Taken
<1> HIDE DEF e
<1>6. Idle(t, e, f)
  BY <1>2, <1>3, <1>4 DEF Idle, Shape, Flags
<1> QED
  BY <1>4, <1>5, <1>6

\* A message was taken and refused: in WS_RECV, with what was in flight before.
LEMMA RefusedFields ==
  ASSUME NEW c \in Conn, NEW j \in 1 .. c.pend
  PROVE  LET d == Refused(c, j)
         IN /\ d \in Conn /\ d.st = "WS_RECV" /\ d.refused = TRUE /\ d.rc = c.rc
            /\ d.sub = c.sub /\ d.kw = c.kw /\ d.fd = c.fd /\ d.rp = c.rp
            /\ d.sp = c.sp /\ d.pp = c.pp /\ d.k = c.k
<1> DEFINE n == c.pend - j
           d == [c EXCEPT !.pend = n, !.st = "WS_RECV", !.refused = TRUE]
<1>1. c.pend \in 0 .. PendingMax /\ PendingMax \in Nat
  BY LoopAssumption DEF Conn
<1>2. n \in 0 .. PendingMax
  BY <1>1
<1>3. Refused(c, j) = d
  BY DEF Refused, Taken, Conn
<1> HIDE DEF n
<1>4. d \in Conn
  BY <1>2 DEF Conn, States
<1>5. /\ d.st = "WS_RECV" /\ d.refused = TRUE /\ d.rc = c.rc
      /\ d.sub = c.sub /\ d.kw = c.kw /\ d.fd = c.fd /\ d.rp = c.rp
      /\ d.sp = c.sp /\ d.pp = c.pp /\ d.k = c.k
  BY DEF Conn
<1> QED
  BY <1>3, <1>4, <1>5

\* So the connection is sound, although nothing may be in flight for it.
LEMMA RefusedSound ==
  ASSUME tls \in BOOLEAN, NEW f \in BOOLEAN, NEW c, Shape(c), Flags(tls, c, f),
         ~c.sp, c.rc = "ok", c.st \in WsStates, NEW j \in 1 .. c.pend
  PROVE  /\ Sound(tls, Refused(c, j), f) /\ Queued(tls, Refused(c, j))
         /\ Refused(c, j).st = "WS_RECV" /\ Refused(c, j).fd = c.fd
         /\ Refused(c, j).rc = "ok"
<1> DEFINE d == Refused(c, j)
<1>1. c \in Conn
  BY DEF Shape
<1>2. /\ d \in Conn /\ d.st = "WS_RECV" /\ d.refused = TRUE /\ d.rc = c.rc
      /\ d.sub = c.sub /\ d.kw = c.kw /\ d.fd = c.fd /\ d.rp = c.rp
      /\ d.sp = c.sp /\ d.pp = c.pp /\ d.k = c.k
  BY <1>1, RefusedFields
<1> HIDE DEF d
<1>3. Shape(d) /\ Queued(tls, d)
  BY <1>2 DEF Shape, Queued, WsStates
<1>4. Flags(tls, d, f)
  BY <1>2 DEF Flags
<1>5. Armed(tls, d, f)
  BY <1>2 DEF Armed, SendStates
<1> QED
  BY <1>2, <1>3, <1>4, <1>5 DEF Sound, d

\* The same in the middle of a TLS write.
LEMMA TlsRefusedDone ==
  ASSUME NEW f \in BOOLEAN, NEW c, Idle(TRUE, c, f), c.st = "WS_SEND",
         NEW j \in 1 .. c.pend
  PROVE  Done(TRUE, Refused(c, j), f, c) /\ Refused(c, j).rc = "ok"
<1> DEFINE d == Refused(c, j)
<1>1. c \in Conn
  BY DEF Idle, Shape
<1>2. /\ d \in Conn /\ d.st = "WS_RECV" /\ d.refused = TRUE /\ d.rc = c.rc
      /\ d.sub = c.sub /\ d.kw = c.kw /\ d.fd = c.fd /\ d.rp = c.rp
      /\ d.sp = c.sp /\ d.pp = c.pp /\ d.k = c.k
  BY <1>1, RefusedFields
<1> HIDE DEF d
<1>3. Shape(d) /\ Queued(TRUE, d)
  BY <1>2 DEF Idle, Shape, Queued, WsStates
<1>4. Flags(TRUE, d, f)
  BY <1>2 DEF Idle, Flags
<1>5. Armed(TRUE, d, f)
  BY <1>2 DEF Armed
<1> QED
  BY <1>2, <1>3, <1>4, <1>5 DEF Idle, Done, Sound, d

\* A TLS connection in WS_SEND is sound with nothing in flight.
LEMMA TlsSendSound ==
  ASSUME NEW f \in BOOLEAN, NEW c, Idle(TRUE, c, f), c.st = "WS_SEND"
  PROVE  Done(TRUE, c, f, c)
BY DEF Idle, Done, Sound, Armed, Queued, Shape

\* Every way a TLS write can end.
LEMMA DriveWriteDone ==
  ASSUME tls = TRUE, NEW f \in BOOLEAN, NEW c, Idle(tls, c, f), c.st \in SendStates,
         NEW d \in tls_drive_write(c)
  PROVE  Done(tls, d, f, c)
<1>1. c \in Conn /\ c.pend \in Nat /\ Idle(TRUE, c, f)
  <2>1. c \in Conn
    BY DEF Idle, Shape
  <2>2. c.pend \in Nat
    BY <2>1, LoopAssumption DEF Conn
  <2>3. Idle(TRUE, c, f)
    OBVIOUS
  <2> QED
    BY <2>1, <2>2, <2>3
<1>2. ASSUME NEW j \in 0 .. c.pend, NEW w \in BOOLEAN
      PROVE  Done(TRUE, submit_poll(Taken(c, j), w), f, c)
  <2>1. Idle(TRUE, Taken(c, j), f) /\ Taken(c, j).fd = c.fd
    BY <1>1, TakenIdle
  <2>2. Done(TRUE, submit_poll(Taken(c, j), w), f, Taken(c, j))
    BY <2>1, PollDone
  <2> QED
    BY <2>1, <2>2 DEF Done
<1>3. Done(TRUE, Fail(c), f, c)
  BY <1>1, FailDone
<1>4. ASSUME c.st = "WS_SEND", NEW j \in 1 .. c.pend
      PROVE  Done(TRUE, Taken(c, j), f, c)
  <2>1. j \in 0 .. c.pend
    BY <1>1
  <2>2. /\ Idle(TRUE, Taken(c, j), f) /\ Taken(c, j).fd = c.fd
        /\ Taken(c, j).st = "WS_SEND"
    BY <1>1, <1>4, <2>1, TakenIdle
  <2> QED
    BY <2>2, TlsSendSound DEF Done
<1>5. ASSUME c.st = "WS_SEND"
      PROVE  Done(TRUE, WsIdle(Taken(c, c.pend)), f, c)
  <2> DEFINE e == Taken(c, c.pend)
  <2>1. c.pend \in 0 .. c.pend
    BY <1>1
  <2>2. Idle(TRUE, e, f) /\ e.fd = c.fd /\ e.st = c.st
    BY <1>1, <2>1, TakenIdle
  <2>3. e.pend = 0
    BY <1>1 DEF Taken, Conn
  <2> HIDE DEF e
  <2>4. Done(TRUE, WsIdle(e), f, e)
    BY <1>5, <2>2, <2>3, WsIdleDone
  <2> QED
    BY <2>2, <2>4 DEF Done, e
<1>6. ASSUME c.st = "SEND"
      PROVE  Done(TRUE, IF c.kw THEN promote_to_ws(c) ELSE Close(c), f, c)
  BY <1>1, <1>6, PromoteDone, FailDone
<1>9. ASSUME c.st = "WS_SEND", NEW j \in 1 .. c.pend
      PROVE  Done(TRUE, Refused(c, j), f, c)
  BY <1>1, <1>9, TlsRefusedDone
<1>7. CASE c.st = "WS_SEND"
  <2>1. \/ \E w \in BOOLEAN, j \in 0 .. c.pend : d = submit_poll(Taken(c, j), w)
        \/ d = Fail(c)
        \/ \E j \in 1 .. c.pend : d = Taken(c, j) \/ d = Refused(c, j)
        \/ d = WsIdle(Taken(c, c.pend))
    BY <1>7 DEF tls_drive_write
  <2> QED
    BY <1>2, <1>3, <1>4, <1>5, <1>7, <1>9, <2>1
<1>8. CASE c.st = "SEND"
  <2>1. \/ \E w \in BOOLEAN : d = submit_poll(Taken(c, 0), w)
        \/ d = Fail(c)
        \/ d = IF c.kw THEN promote_to_ws(c) ELSE Close(c)
    BY <1>8 DEF tls_drive_write
  <2>2. 0 \in 0 .. c.pend
    BY <1>1
  <2> QED
    BY <1>2, <1>3, <1>6, <1>8, <2>1, <2>2
<1> QED
  BY <1>7, <1>8 DEF SendStates

\* submit_send of a connection with nothing in flight but possibly a recv.
LEMMA SendDone ==
  ASSUME tls \in BOOLEAN, NEW f \in BOOLEAN, NEW c, Idle(tls, c, f), c.st \in SendStates,
         ~tls /\ ~f /\ c.st = "SEND" => c.k["RECV"] = 0,
         NEW d \in submit_send(c)
  PROVE  Done(tls, d, f, c) /\ (~tls => d.rc = "ok" /\ d.kw = c.kw)
<1> DEFINE m == [c.k EXCEPT !["SEND"] = @ + 1]
<1>1. /\ c \in Conn /\ c.k \in [Ops -> Nat] /\ ~c.pp /\ ~c.sp /\ c.rc = "ok" /\ c.st # "FREE"
      /\ Shape(c) /\ Flags(tls, c, f)
  BY DEF Idle, Shape, Conn
<1>2. CASE tls = TRUE
  BY <1>1, <1>2, DriveWriteDone DEF submit_send
<1>3. CASE tls = FALSE
  <2>1. d = [c EXCEPT !.sp = TRUE, !.k = m] /\ m \in [Ops -> Nat]
    <3>1. d = [c EXCEPT !.sp = TRUE, !.k["SEND"] = @ + 1]
      BY <1>1, <1>3 DEF submit_send
    <3> QED
      BY <1>1, <3>1 DEF Conn, Ops
  <2>2. /\ m["RECV"] = c.k["RECV"] /\ m["SEND"] = c.k["SEND"] + 1
        /\ m["POLLIN"] = c.k["POLLIN"] /\ m["POLLOUT"] = c.k["POLLOUT"]
    BY <1>1 DEF Ops
  <2> HIDE DEF m
  <2>4. d \in Conn
    BY <1>1, <2>1 DEF Conn
  <2>5. /\ d.k = m /\ d.sp = TRUE
        /\ d.st = c.st /\ d.fd = c.fd /\ d.pp = c.pp /\ d.rp = c.rp /\ d.kw = c.kw
        /\ d.sub = c.sub /\ d.pend = c.pend /\ d.rc = c.rc /\ d.refused = c.refused
    BY <1>1, <2>1 DEF Conn
  <2>6. Shape(d) /\ Queued(tls, d)
    BY <1>1, <2>4, <2>5 DEF Shape, Queued, SendStates, WsStates
  <2>7. Flags(tls, d, f)
    BY <1>1, <1>3, <2>2, <2>5 DEF Flags
  <2>8. Armed(tls, d, f)
    BY <1>1, <1>3, <2>2, <2>5 DEF Armed, SendStates
  <2> QED
    BY <1>1, <2>4, <2>5, <2>6, <2>7, <2>8 DEF Done, Sound
<1> QED
  BY <1>2, <1>3

\* begin_send_buf: a response, or a frame of a WebSocket.
LEMMA BeginSendDone ==
  ASSUME tls \in BOOLEAN, NEW f \in BOOLEAN, NEW c, Idle(tls, c, f), c.fd,
         NEW st \in SendStates, st = "WS_SEND" <=> c.sub, c.kw => st = "SEND",
         ~tls /\ ~f /\ st = "SEND" => c.k["RECV"] = 0,
         NEW d \in begin_send_buf(c, st)
  PROVE  Done(tls, d, f, c) /\ (~tls => d.rc = "ok")
<1> DEFINE e == [c EXCEPT !.st = st, !.refused = FALSE]
<1>1. c \in Conn
  BY DEF Idle, Shape
<1>2. e \in Conn
  BY <1>1 DEF Conn, States, SendStates
<1>3. /\ e.sub = c.sub /\ e.kw = c.kw /\ e.st = st /\ e.fd = c.fd /\ e.rp = c.rp
      /\ e.sp = c.sp /\ e.pp = c.pp /\ e.pend = c.pend /\ e.k = c.k /\ e.rc = c.rc
      /\ e.refused = FALSE
  BY <1>1 DEF Conn
<1>4. d \in submit_send(e)
  BY DEF begin_send_buf
<1> HIDE DEF e
<1>5. Idle(tls, e, f)
  BY <1>1, <1>2, <1>3 DEF Idle, Shape, Flags, WsStates, SendStates
<1>6. Done(tls, d, f, e) /\ (~tls => d.rc = "ok")
  BY <1>3, <1>4, <1>5, SendDone
<1> QED
  BY <1>3, <1>6 DEF Done

\* On a plain listener ws_try_send_pending of an idle WebSocket leaves a send in
\* flight whenever something is queued, unless the message is refused.
LEMMA TrySendDone ==
  ASSUME tls = FALSE, NEW f \in BOOLEAN, NEW c, Idle(tls, c, f), c.st = "WS_RECV",
         c.pend > 0, NEW d \in ws_try_send_pending(c)
  PROVE  Done(tls, d, f, c) /\ d.rc = "ok"
<1>1. c \in Conn /\ c.pend \in Nat /\ c.fd /\ c.sub /\ ~c.kw /\ ~c.sp
  <2>1. c \in Conn /\ c.fd /\ c.sub /\ ~c.kw /\ ~c.sp
    BY DEF Idle, Shape, WsStates
  <2>2. c.pend \in Nat
    BY <2>1, LoopAssumption DEF Conn
  <2> QED
    BY <2>1, <2>2
<1> DEFINE e == Taken(c, 1)
<1>2. 1 \in 0 .. c.pend
  BY <1>1
<1>3. Idle(tls, e, f) /\ e.fd = c.fd /\ e.st = c.st /\ e.sub = c.sub /\ e.kw = c.kw
  BY <1>2, TakenIdle
<1>4. d = Refused(c, 1) \/ d \in begin_send_buf(e, "WS_SEND")
  BY <1>1 DEF ws_try_send_pending
<1> HIDE DEF e
<1>5. CASE d = Refused(c, 1)
  <2>1. /\ Shape(c) /\ Flags(tls, c, f) /\ c.rc = "ok" /\ c.st \in WsStates
        /\ 1 \in 1 .. c.pend
    BY <1>1 DEF Idle, WsStates
  <2>2. /\ Sound(tls, d, f) /\ Queued(tls, d)
        /\ d.st = "WS_RECV" /\ d.fd = c.fd /\ d.rc = "ok"
    BY <1>1, <1>5, <2>1, RefusedSound
  <2> QED
    BY <2>2 DEF Done, Sound, Shape
<1>6. CASE d \in begin_send_buf(e, "WS_SEND")
  <2>1. Done(tls, d, f, e) /\ d.rc = "ok"
    BY <1>1, <1>3, <1>6, BeginSendDone DEF SendStates
  <2> QED
    BY <1>3, <2>1 DEF Done
<1> QED
  BY <1>4, <1>5, <1>6

\* handle_send_complete on a plain listener: the next frame, the switch to
\* WebSocket, the wait for frames, or a close.
LEMMA SendCompleteDone ==
  ASSUME tls = FALSE, NEW f \in BOOLEAN, NEW c, Idle(tls, c, f), c.st \in SendStates,
         NEW d \in handle_send_complete(c)
  PROVE  Done(tls, d, f, c)
<1>1. c \in Conn /\ c.pend \in Nat
  <2>1. c \in Conn
    BY DEF Idle, Shape
  <2> QED
    BY <2>1, LoopAssumption DEF Conn
<1>2. CASE c.st = "SEND" /\ c.kw
  BY <1>2, PromoteDone DEF handle_send_complete
<1>3. CASE c.st = "SEND" /\ ~c.kw
  BY <1>3, FailDone DEF handle_send_complete
<1>4. CASE c.st = "WS_SEND" /\ c.pend > 0
  <2> DEFINE e == [c EXCEPT !.st = "WS_RECV"]
  <2>1. e \in Conn
    BY <1>1 DEF Conn, States
  <2>2. /\ e.sub = c.sub /\ e.kw = c.kw /\ e.st = "WS_RECV" /\ e.fd = c.fd /\ e.rp = c.rp
        /\ e.sp = c.sp /\ e.pp = c.pp /\ e.pend = c.pend /\ e.k = c.k /\ e.rc = c.rc
        /\ e.refused = c.refused
    BY <1>1 DEF Conn
  <2>3. d \in ws_try_send_pending(e)
    BY <1>4 DEF handle_send_complete
  <2> HIDE DEF e
  <2>4. Idle(tls, e, f)
    BY <1>1, <1>4, <2>1, <2>2 DEF Idle, Shape, Flags, WsStates
  <2>5. Done(tls, d, f, e)
    BY <1>4, <2>2, <2>3, <2>4, TrySendDone
  <2> QED
    BY <2>2, <2>5 DEF Done
<1>5. CASE c.st = "WS_SEND" /\ ~(c.pend > 0)
  <2>1. c.pend = 0 /\ d = WsIdle(c)
    BY <1>1, <1>5 DEF handle_send_complete
  <2> QED
    BY <1>5, <2>1, WsIdleDone
<1> QED
  BY <1>2, <1>3, <1>4, <1>5 DEF SendStates

\* Re-arming what handle_ws_recv left in WS_RECV.
LEMMA RearmDone ==
  ASSUME tls \in BOOLEAN, NEW f \in BOOLEAN, NEW c, NEW d, Done(tls, d, f, c)
  PROVE  Done(tls, Rearm(d), f, c)
<1>1. CASE d.rc # "ok"
  BY <1>1 DEF Rearm
<1>2. CASE d.rc = "ok" /\ (d.rp \/ d.pp \/ d.st \notin {"RECV", "WS_RECV", "TLS_HS"})
  BY <1>2 DEF Rearm, submit_recv
<1>3. CASE d.rc = "ok" /\ ~d.rp /\ ~d.pp /\ d.st \in {"RECV", "WS_RECV", "TLS_HS"}
  <2>1. Sound(tls, d, f) /\ Queued(tls, d) /\ d.st # "FREE" /\ d.fd = c.fd
    BY <1>3 DEF Done
  <2>2. Idle(tls, d, f)
    BY <1>3, <2>1 DEF Sound, Flags, Armed, SendStates, Idle
  <2>3. Done(tls, submit_recv(d), f, d)
    BY <1>3, <2>1, <2>2, RecvDone
  <2> QED
    BY <1>3, <2>1, <2>3 DEF Rearm, Done
<1> QED
  BY <1>1, <1>2, <1>3

\* Frames arrived on a WebSocket.
LEMMA WsRecvDone ==
  ASSUME tls \in BOOLEAN, NEW f \in BOOLEAN, NEW c, Idle(tls, c, f), c.st = "WS_RECV",
         Queued(tls, c), NEW d \in handle_ws_recv(c)
  PROVE  Done(tls, d, f, c)
<1>1. c.fd /\ c.sub /\ ~c.kw
  BY DEF Idle, Shape, WsStates, Conn
<1>2. CASE d = submit_recv(c)
  BY <1>2, RecvDone
<1>3. CASE d = Fail(c)
  BY <1>3, FailDone
<1>4. ASSUME NEW e \in begin_send_buf(c, "WS_SEND"), d = Rearm(e)
      PROVE  Done(tls, d, f, c)
  <2>1. Done(tls, e, f, c)
    BY <1>1, BeginSendDone DEF SendStates
  <2> QED
    BY <1>4, <2>1, RearmDone
<1> QED
  BY <1>2, <1>3, <1>4 DEF handle_ws_recv

\* A connection in RECV whose recv or poll has completed.
HttpIdle(t, c, f) ==
  Idle(t, c, f) /\ c.st = "RECV" /\ ~c.rp /\ (~t /\ ~f => c.k["RECV"] = 0)

\* An unfinished, a bad or a failed request.
LEMMA HttpRestDone ==
  ASSUME tls \in BOOLEAN, NEW f \in BOOLEAN, NEW c, HttpIdle(tls, c, f),
         NEW d \in {Fail(c), HttpMore(c)} \cup begin_bad_request_plain(c)
  PROVE  Done(tls, d, f, c)
<1>1. /\ Idle(tls, c, f) /\ c.st = "RECV" /\ ~c.rp /\ ~c.kw /\ ~c.sub /\ c.pend = 0
      /\ ~tls /\ ~f => c.k["RECV"] = 0
  BY DEF HttpIdle, Idle, Shape, WsStates, Conn
<1>2. CASE d = Fail(c)
  BY <1>1, <1>2, FailDone
<1>3. CASE d = HttpMore(c)
  <2>1. Queued(tls, c)
    BY <1>1 DEF Queued
  <2> QED
    BY <1>1, <1>3, <2>1, RecvDone, FailDone DEF HttpMore
<1>4. CASE d \in begin_bad_request_plain(c)
  <2>1. CASE c.fd
    <3>1. d \in begin_send_buf(c, "SEND")
      BY <1>4, <2>1 DEF begin_bad_request_plain
    <3> QED
      BY <1>1, <2>1, <3>1, BeginSendDone DEF SendStates
  <2>2. CASE ~c.fd
    BY <1>1, <1>4, <2>2, FailDone DEF begin_bad_request_plain
  <2> QED
    BY <2>1, <2>2
<1> QED
  BY <1>2, <1>3, <1>4

\* A response, with or without the switch to WebSocket.
LEMMA HttpRespondsDone ==
  ASSUME tls \in BOOLEAN, NEW f \in BOOLEAN, NEW c, HttpIdle(tls, c, f),
         NEW keep_ws \in BOOLEAN, NEW d \in HttpResponds(c, keep_ws)
  PROVE  Done(tls, d, f, c) /\ c.fd /\ (~tls => d.rc = "ok" /\ d.kw = keep_ws)
<1> DEFINE e == [c EXCEPT !.kw = keep_ws]
<1>1. /\ c \in Conn /\ Idle(tls, c, f) /\ c.st = "RECV" /\ ~c.sub /\ c.pend = 0
      /\ ~tls /\ ~f => c.k["RECV"] = 0
  BY DEF HttpIdle, Idle, Shape, WsStates, Conn
<1>2. c.fd /\ d \in begin_send_buf(e, "SEND")
  BY DEF HttpResponds
<1>3. [e EXCEPT !.st = "SEND", !.refused = FALSE] \in Conn
  BY <1>1 DEF Conn, States
<1> DEFINE g == [e EXCEPT !.st = "SEND", !.refused = FALSE]
<1>4. /\ g.sub = c.sub /\ g.kw = keep_ws /\ g.st = "SEND" /\ g.fd = c.fd /\ g.rp = c.rp
      /\ g.sp = c.sp /\ g.pp = c.pp /\ g.pend = c.pend /\ g.k = c.k /\ g.rc = c.rc
      /\ g.refused = FALSE
  BY <1>1 DEF Conn
<1>5. d \in submit_send(g)
  BY <1>2 DEF begin_send_buf
<1> HIDE DEF g
<1>6. Idle(tls, g, f)
  BY <1>1, <1>2, <1>3, <1>4 DEF Idle, Shape, Flags, WsStates, g
<1>7. Done(tls, d, f, g) /\ (~tls => d.rc = "ok" /\ d.kw = g.kw)
  BY <1>1, <1>4, <1>5, <1>6, SendDone DEF SendStates
<1> QED
  BY <1>2, <1>4, <1>7 DEF Done

-------------------------------------------------------------------------------
(* The hub's broadcasts and flushes *)

\* What a flush or a broadcast may make of a connection c.
Kept(t, c, d, f) ==
  /\ Sound(t, d, f) /\ Queued(t, d)
  /\ d.fd = c.fd /\ (d.st = "FREE" <=> c.st = "FREE")

\* A TLS WebSocket in WS_SEND with nothing in flight, after a flush that ignored how
\* its write ended.
LEMMA FlushWriteKept ==
  ASSUME tls = TRUE, NEW f \in BOOLEAN, NEW c, Idle(tls, c, f), c.st = "WS_SEND",
         NEW e \in tls_drive_write(c)
  PROVE  /\ Sound(tls, [e EXCEPT !.rc = "ok"], f)
         /\ [e EXCEPT !.rc = "ok"].fd = c.fd /\ [e EXCEPT !.rc = "ok"].st # "FREE"
<1>1. Done(tls, e, f, c) /\ Done(TRUE, c, f, c) /\ Shape(c) /\ c.rc = "ok" /\ c \in Conn
  BY DriveWriteDone, TlsSendSound DEF SendStates, Idle, Shape
<1>2. CASE e = Fail(c)
  <2>1. [e EXCEPT !.rc = "ok"] = c
    BY <1>1, <1>2 DEF Fail, Conn
  <2> QED
    BY <1>1, <2>1 DEF Done
<1>3. CASE e.rc = "ok"
  <2>1. [e EXCEPT !.rc = "ok"] = e
    BY <1>1, <1>3 DEF Done, Conn
  <2> QED
    BY <1>1, <1>3, <2>1 DEF Done
<1>4. e = Fail(c) \/ e.rc = "ok"
  <2>1. c.pend \in Nat
    BY <1>1, LoopAssumption DEF Conn
  <2>2. ASSUME NEW j \in 0 .. c.pend
        PROVE  /\ Idle(TRUE, Taken(c, j), f) /\ Taken(c, j).st = "WS_SEND"
               /\ Taken(c, j).rc = "ok"
    BY TakenIdle DEF Idle
  <2>3. ASSUME NEW j \in 0 .. c.pend, NEW w \in BOOLEAN
        PROVE  submit_poll(Taken(c, j), w).rc = "ok"
    BY <2>2, PollDone
  <2>4. ASSUME NEW j \in 1 .. c.pend
        PROVE  Refused(c, j).rc = "ok" /\ Taken(c, j).rc = "ok"
    <3>1. j \in 0 .. c.pend
      BY <2>1
    <3>2. Idle(TRUE, c, f)
      OBVIOUS
    <3>3. Refused(c, j).rc = "ok"
      BY <3>2, TlsRefusedDone
    <3> QED
      BY <2>2, <3>1, <3>3
  <2>5. WsIdle(Taken(c, c.pend)).rc = "ok"
    <3> DEFINE g == Taken(c, c.pend)
    <3>1. c.pend \in 0 .. c.pend
      BY <2>1
    <3>2. Idle(TRUE, g, f) /\ g.st = "WS_SEND"
      BY <2>2, <3>1
    <3> HIDE DEF g
    <3>3. WsIdle(g).rc = "ok"
      <4> DEFINE h == [g EXCEPT !.st = "WS_RECV"]
      <4>1. h \in Conn
        BY <3>2 DEF Idle, Shape, Conn, States
      <4>2. /\ h.sub = g.sub /\ h.kw = g.kw /\ h.st = "WS_RECV" /\ h.fd = g.fd
            /\ h.rp = g.rp /\ h.sp = g.sp /\ h.pp = g.pp /\ h.pend = g.pend /\ h.k = g.k
            /\ h.rc = g.rc /\ h.refused = g.refused
        BY <3>2 DEF Idle, Shape, Conn
      <4> HIDE DEF h
      <4>3. Idle(TRUE, h, f) /\ Queued(TRUE, h)
        BY <3>2, <4>1, <4>2 DEF Idle, Shape, Flags, Queued, WsStates
      <4>4. submit_recv(h).rc = "ok"
        BY <4>2, <4>3, RecvDone
      <4> QED
        BY <4>4 DEF WsIdle, h
    <3> QED
      BY <3>3 DEF g
  <2>6. \/ \E w \in BOOLEAN, j \in 0 .. c.pend : e = submit_poll(Taken(c, j), w)
        \/ e = Fail(c)
        \/ \E j \in 1 .. c.pend : e = Taken(c, j) \/ e = Refused(c, j)
        \/ e = WsIdle(Taken(c, c.pend))
    BY DEF tls_drive_write
  <2> QED
    BY <2>3, <2>4, <2>5, <2>6
<1> QED
  BY <1>2, <1>3, <1>4

\* A WebSocket with something queued gets its turn: it is sending afterwards, or has
\* refused the message, or, under TLS, waits for its poll.
LEMMA FlushOneKept ==
  ASSUME tls \in BOOLEAN, NEW f \in BOOLEAN, NEW c, Sound(tls, c, f), c.st = "WS_RECV",
         c.pend > 0, NEW d \in FlushOne(c)
  PROVE  Kept(tls, c, d, f)
<1>1. /\ c \in Conn /\ Shape(c) /\ Flags(tls, c, f) /\ Armed(tls, c, f) /\ c.rc = "ok"
      /\ c.sub /\ c.fd /\ ~c.kw /\ ~c.sp
  BY DEF Sound, Shape, Flags, Armed, WsStates, SendStates
<1>2. c.pend \in 0 .. PendingMax /\ PendingMax \in Nat
  BY <1>1, LoopAssumption DEF Conn
<1>3. PICK e \in ws_try_send_pending(c) : d = [e EXCEPT !.rc = "ok"]
  BY <1>1 DEF FlushOne
<1>4. ASSUME e \in Conn, e.rc = "ok", Sound(tls, e, f), Queued(tls, e), e.fd = c.fd,
             e.st # "FREE"
      PROVE  Kept(tls, c, d, f)
  <2>1. d = e
    BY <1>3, <1>4 DEF Conn
  <2> QED
    BY <1>4, <2>1 DEF Kept
<1>5. CASE tls = FALSE
  <2>1. Idle(tls, c, f)
    BY <1>1, <1>5 DEF Idle, Flags, Armed, SendStates
  <2>2. Done(tls, e, f, c) /\ e.rc = "ok"
    BY <1>3, <1>5, <2>1, TrySendDone
  <2> QED
    BY <1>4, <2>2 DEF Done
<1>6. CASE tls = TRUE
  <2> DEFINE g == Taken(c, 1)
             h == [g EXCEPT !.st = "WS_SEND", !.refused = FALSE]
  <2>1. c.pend - 1 \in 0 .. PendingMax /\ c.pend # 0
    BY <1>2
  <2>2. g = [c EXCEPT !.pend = c.pend - 1]
    BY DEF Taken
  <2>3. g \in Conn
    BY <1>1, <2>1, <2>2 DEF Conn
  <2>4. /\ g.sub = c.sub /\ g.kw = c.kw /\ g.st = c.st /\ g.fd = c.fd /\ g.rp = c.rp
        /\ g.sp = c.sp /\ g.pp = c.pp /\ g.k = c.k /\ g.rc = c.rc
    BY <1>1, <2>2 DEF Conn
  <2>7. e = Refused(c, 1) \/ e \in submit_send(h)
    BY <1>1, <1>3, <2>1 DEF ws_try_send_pending, begin_send_buf
  <2> HIDE DEF g
  <2>5. h \in Conn
    BY <2>3 DEF Conn, States
  <2>6. /\ h.sub = c.sub /\ h.kw = c.kw /\ h.st = "WS_SEND" /\ h.fd = c.fd /\ h.rp = c.rp
        /\ h.sp = c.sp /\ h.pp = c.pp /\ h.k = c.k /\ h.rc = c.rc /\ h.refused = FALSE
    BY <2>3, <2>4 DEF Conn
  <2> HIDE DEF h
  <2>8. CASE e = Refused(c, 1)
    <3>1. 1 \in 1 .. c.pend
      BY <1>2
    <3>2. c.st \in WsStates
      BY DEF WsStates
    <3>3. Sound(tls, e, f) /\ Queued(tls, e) /\ e.fd = c.fd /\ e.st = "WS_RECV"
      BY <1>1, <2>8, <3>1, <3>2, RefusedSound
    <3> QED
      BY <1>4, <3>3 DEF Sound, Shape
  <2>9. CASE e \in submit_send(h) /\ c.pp
    <3>1. e = h
      BY <2>6, <2>9 DEF submit_send
    <3>2. Sound(tls, h, f) /\ Queued(tls, h)
      BY <1>1, <1>6, <2>5, <2>6 DEF Sound, Shape, Flags, Armed, Queued, WsStates
    <3> QED
      BY <1>1, <1>4, <2>5, <2>6, <3>1, <3>2
  <2>10. CASE e \in submit_send(h) /\ ~c.pp
    <3>1. Idle(tls, h, f)
      BY <1>1, <1>6, <2>5, <2>6, <2>10 DEF Idle, Shape, Flags, WsStates
    <3>2. e \in tls_drive_write(h)
      BY <1>1, <1>6, <2>6, <2>10 DEF submit_send
    <3>3. Sound(tls, d, f) /\ d.fd = c.fd /\ d.st # "FREE"
      BY <1>3, <1>6, <2>6, <3>1, <3>2, FlushWriteKept
    <3> QED
      BY <1>6, <3>3 DEF Kept, Queued
  <2> QED
    BY <2>7, <2>8, <2>9, <2>10
<1> QED
  BY <1>5, <1>6

\* A flush of a table of sound connections: afterwards, on a plain listener, who
\* has something queued is sending.
LEMMA FlushKept ==
  ASSUME tls \in BOOLEAN, NEW F \in [Slots -> BOOLEAN], NEW cs \in [Slots -> Conn],
         \A s \in Slots : Sound(tls, cs[s], F[s]),
         NEW g \in ws_flush_all_pending(cs)
  PROVE  /\ g \in [Slots -> Conn]
         /\ \A s \in Slots : Kept(tls, cs[s], g[s], F[s])
<1> DEFINE W == {s \in Slots : cs[s].st = "WS_RECV" /\ cs[s].pend > 0}
<1>1. PICK h \in [W -> UNION {FlushOne(cs[s]) : s \in W}] :
        /\ \A s \in W : h[s] \in FlushOne(cs[s])
        /\ g = [s \in Slots |-> IF s \in W THEN h[s] ELSE cs[s]]
  BY DEF ws_flush_all_pending
<1>2. ASSUME NEW s \in Slots PROVE Kept(tls, cs[s], g[s], F[s])
  <2>1. CASE s \in W
    <3>1. g[s] \in FlushOne(cs[s])
      BY <1>1, <2>1
    <3> QED
      BY <2>1, <3>1, FlushOneKept
  <2>2. CASE s \notin W
    <3>1. g[s] = cs[s] /\ Sound(tls, cs[s], F[s])
      BY <1>1, <2>2
    <3>2. cs[s].pend > 0 => cs[s].st = "WS_SEND"
      BY <2>2, <3>1 DEF Sound, Shape, WsStates
    <3> QED
      BY <3>1, <3>2 DEF Kept, Queued
  <2> QED
    BY <2>1, <2>2
<1>3. \A s \in Slots : g[s] \in Conn
  BY <1>2 DEF Kept, Sound, Shape
<1> QED
  BY <1>1, <1>2, <1>3

\* A broadcast changes nothing but the queues of subscribers.
LEMMA BroadcastSound ==
  ASSUME NEW t \in BOOLEAN, NEW F \in [Slots -> BOOLEAN], NEW cs \in [Slots -> Conn],
         \A s \in Slots : Sound(t, cs[s], F[s])
  PROVE  /\ broadcast(cs) \in [Slots -> Conn]
         /\ \A s \in Slots : /\ Sound(t, broadcast(cs)[s], F[s])
                             /\ broadcast(cs)[s].fd = cs[s].fd
                             /\ broadcast(cs)[s].st = cs[s].st
<1>1. ASSUME NEW s \in Slots
      PROVE  /\ broadcast(cs)[s] \in Conn
             /\ Sound(t, broadcast(cs)[s], F[s])
             /\ broadcast(cs)[s].fd = cs[s].fd
             /\ broadcast(cs)[s].st = cs[s].st
  <2> DEFINE c == cs[s]
             n == IF c.pend < PendingMax THEN c.pend + 1 ELSE c.pend
             d == [c EXCEPT !.pend = n]
  <2>1. c \in Conn /\ Sound(t, c, F[s]) /\ PendingMax \in Nat
    BY LoopAssumption
  <2>2. CASE ~c.sub
    <3>1. broadcast(cs)[s] = c
      BY <2>2 DEF broadcast
    <3> QED
      BY <2>1, <3>1
  <2>3. CASE c.sub
    <3>1. broadcast(cs)[s] = d
      BY <2>3 DEF broadcast
    <3>2. n \in 0 .. PendingMax
      BY <2>1 DEF Conn
    <3> HIDE DEF c, n
    <3>3. d \in Conn
      BY <2>1, <3>2 DEF Conn
    <3>4. /\ d.sub = c.sub /\ d.kw = c.kw /\ d.st = c.st /\ d.fd = c.fd /\ d.rp = c.rp
          /\ d.sp = c.sp /\ d.pp = c.pp /\ d.k = c.k /\ d.rc = c.rc
          /\ d.refused = c.refused
      BY <2>1 DEF Conn
    <3> HIDE DEF d
    <3>5. Shape(d) /\ d.st # "FREE"
      BY <2>1, <2>3, <3>3, <3>4 DEF Sound, Shape, WsStates
    <3>6. Flags(t, d, F[s]) /\ Armed(t, d, F[s])
      BY <2>1, <3>4 DEF Sound, Flags, Armed
    <3>7. Sound(t, d, F[s])
      BY <2>1, <3>4, <3>5, <3>6 DEF Sound
    <3> QED
      BY <3>1, <3>3, <3>4, <3>7 DEF c
  <2> QED
    BY <2>2, <2>3
<1>2. broadcast(cs) = [s \in Slots |-> broadcast(cs)[s]]
  BY DEF broadcast
<1> QED
  BY <1>1, <1>2

-------------------------------------------------------------------------------
(* Counting connections *)

\* The table is finite.
LEMMA SlotsFinite ==
  /\ IsFiniteSet(Slots) /\ Cardinality(Slots) = MaxConns
  /\ \A g : /\ IsFiniteSet(Open(g)) /\ Cardinality(Open(g)) \in 0 .. MaxConns
            /\ IsFiniteSet(Lost(g)) /\ Cardinality(Lost(g)) \in Nat
<1>1. MaxConns \in Nat
  BY LoopAssumption
<1>2. IsFiniteSet(Slots) /\ Cardinality(Slots) = MaxConns
  BY <1>1, FS_Interval DEF Slots
<1>3. ASSUME NEW g PROVE Open(g) \subseteq Slots /\ Lost(g) \subseteq Slots
  BY DEF Open, Lost
<1>4. ASSUME NEW g
      PROVE  /\ IsFiniteSet(Open(g)) /\ Cardinality(Open(g)) <= Cardinality(Slots)
             /\ IsFiniteSet(Lost(g))
  BY <1>2, <1>3, FS_Subset
<1>5. ASSUME NEW g
      PROVE  Cardinality(Open(g)) \in Nat /\ Cardinality(Lost(g)) \in Nat
  BY <1>4, FS_CardinalityType
<1> QED
  BY <1>1, <1>2, <1>4, <1>5

\* Nothing was opened or closed.
LEMMA CountsSame ==
  ASSUME NEW g, NEW h, NEW n, NEW m, Counts(g, n, m),
         \A r \in Slots : h[r].fd = g[r].fd /\ (h[r].st = "FREE" <=> g[r].st = "FREE")
  PROVE  Counts(h, n, m)
<1>1. Open(h) = Open(g) /\ Lost(h) = Lost(g)
  BY DEF Open, Lost
<1> QED
  BY <1>1 DEF Counts

\* One entry was closed.
LEMMA CountsClosed ==
  ASSUME NEW g \in [Slots -> Conn], NEW h, NEW n, NEW m \in Nat, NEW s \in Slots,
         Counts(g, n, m), h[s] = FreeConn,
         \A r \in Slots \ {s} :
           h[r].fd = g[r].fd /\ (h[r].st = "FREE" <=> g[r].st = "FREE")
  PROVE  Counts(h, n - IF g[s].fd /\ n > 0 THEN 1 ELSE 0, m)
<1>1. ~h[s].fd /\ h[s].st = "FREE" /\ g[s].fd \in BOOLEAN
  BY DEF FreeConn, Conn
<1>2. Open(h) = Open(g) \ {s} /\ Lost(h) \subseteq Lost(g)
  BY <1>1 DEF Open, Lost
<1>3. Cardinality(Lost(h)) <= Cardinality(Lost(g)) /\ Cardinality(Lost(h)) \in Nat
  BY <1>2, SlotsFinite, FS_Subset
<1>4. Cardinality(Lost(h)) <= m
  <2>1. Cardinality(Lost(g)) <= m /\ Cardinality(Lost(g)) \in Nat
    BY SlotsFinite DEF Counts
  <2> QED
    BY <1>3, <2>1
<1>5. CASE g[s].fd
  <2>1. s \in Open(g) /\ IsFiniteSet(Open(g))
    BY <1>5, SlotsFinite DEF Open
  <2>2. Cardinality(Open(h)) = Cardinality(Open(g)) - 1
    BY <1>2, <2>1, FS_RemoveElement
  <2>3. Cardinality(Open(h)) \in 0 .. MaxConns /\ MaxConns \in Nat /\ n = Cardinality(Open(g))
    BY SlotsFinite, LoopAssumption DEF Counts
  <2>4. n \in 0 .. MaxConns
    BY SlotsFinite DEF Counts
  <2>5. n > 0 /\ Cardinality(Open(h)) = n - 1
    BY <2>2, <2>3, <2>4
  <2> QED
    BY <1>4, <1>5, <2>5 DEF Counts
<1>6. CASE ~g[s].fd
  <2>1. Open(h) = Open(g)
    BY <1>2, <1>6 DEF Open
  <2>2. n \in 0 .. MaxConns
    BY SlotsFinite DEF Counts
  <2>3. n - 0 = n
    BY <2>2
  <2> QED
    BY <1>4, <1>6, <2>1, <2>3 DEF Counts
<1> QED
  BY <1>1, <1>5, <1>6

\* A free entry got a descriptor.
LEMMA CountsOpened ==
  ASSUME NEW g, NEW h, NEW n, NEW m, NEW s \in Slots, Counts(g, n, m),
         g[s] = FreeConn, h[s].fd,
         \A r \in Slots \ {s} : h[r] = g[r]
  PROVE  Counts(h, n + 1, m)
<1>1. ~g[s].fd /\ g[s].st = "FREE"
  BY DEF FreeConn
<1>2. Open(h) = Open(g) \cup {s} /\ s \notin Open(g) /\ Lost(h) = Lost(g)
  BY <1>1 DEF Open, Lost
<1>3. Cardinality(Open(h)) = Cardinality(Open(g)) + 1
  BY <1>2, SlotsFinite, FS_AddElement
<1> QED
  BY <1>2, <1>3 DEF Counts

\* An allocation failed: one more entry without a descriptor.
LEMMA CountsNomem ==
  ASSUME NEW g, NEW h, NEW n, NEW m \in Nat, NEW s \in Slots, Counts(g, n, m),
         g[s] = FreeConn, h[s].fd = FALSE, h[s].st = "RECV",
         \A r \in Slots \ {s} : h[r] = g[r]
  PROVE  Counts(h, n, m + 1)
<1>1. ~g[s].fd /\ g[s].st = "FREE"
  BY DEF FreeConn
<1>2. Open(h) = Open(g) /\ s \notin Lost(g) /\ Lost(h) = Lost(g) \cup {s}
  BY <1>1 DEF Open, Lost
<1>3. Cardinality(Lost(h)) = Cardinality(Lost(g)) + 1
  BY <1>2, SlotsFinite, FS_AddElement
<1>4. Cardinality(Lost(g)) \in Nat /\ Cardinality(Lost(g)) <= m
  BY SlotsFinite DEF Counts
<1>5. Cardinality(Lost(h)) <= m + 1
  BY <1>3, <1>4
<1> QED
  BY <1>2, <1>5 DEF Counts

-------------------------------------------------------------------------------
(* One completion *)

\* A free entry is sound whatever came before it.
LEMMA FreeSound ==
  ASSUME NEW t \in BOOLEAN, NEW f \in BOOLEAN
  PROVE  FreeConn \in Conn /\ Sound(t, FreeConn, f) /\ Queued(t, FreeConn)
<1>1. NoOps \in [Ops -> Nat] /\ \A o \in Ops : NoOps[o] = 0
  BY DEF NoOps
<1>2. PendingMax \in Nat
  BY LoopAssumption
<1>3. FreeConn \in Conn
  BY <1>1, <1>2 DEF FreeConn, Conn, States
<1>4. /\ FreeConn.st = "FREE" /\ FreeConn.fd = FALSE /\ FreeConn.rp = FALSE
      /\ FreeConn.sp = FALSE /\ FreeConn.pp = FALSE /\ FreeConn.kw = FALSE
      /\ FreeConn.sub = FALSE /\ FreeConn.pend = 0 /\ FreeConn.k = NoOps
      /\ FreeConn.rc = "ok" /\ FreeConn.refused = FALSE
  BY DEF FreeConn
<1>5. Shape(FreeConn)
  BY <1>3, <1>4 DEF Shape, WsStates
<1>6. Flags(t, FreeConn, f)
  BY <1>1, <1>4 DEF Flags, Ops
<1>7. Armed(t, FreeConn, f) /\ Queued(t, FreeConn)
  BY <1>4 DEF Armed, Queued, SendStates
<1> QED
  BY <1>3, <1>4, <1>5, <1>6, <1>7 DEF Sound

\* late and foreign once the completion at hand is accounted for.
Accounted(t, L, F) ==
  /\ L \in [Slots -> [Ops -> Nat]] /\ LateOk(t, L)
  /\ F \in [Slots -> BOOLEAN]

\* What close_conn makes of late, foreign and active_conns.
Released(L, s, d) == [L EXCEPT ![s] = [o \in Ops |-> @[o] + d.k[o]]]
Cleared(F, s) == [F EXCEPT ![s] = FALSE]
Uncounted(n, d) == n - IF d.fd /\ n > 0 THEN 1 ELSE 0

\* A handler left a sound connection in slot s.
LEMMA TableKept ==
  ASSUME NEW t \in BOOLEAN, NEW m \in Nat, NEW g, NEW n, Counts(g, n, m),
         NEW L, NEW F, Accounted(t, L, F),
         NEW h \in [Slots -> Conn], \A r \in Slots : Kept(t, g[r], h[r], F[r])
  PROVE  Held(t, h, L, F, n, m)
<1>1. Counts(h, n, m)
  BY CountsSame DEF Kept
<1> QED
  BY <1>1 DEF Held, Kept, Accounted

\* A handler failed or closed slot s: it is given back with what d has in flight.
LEMMA TableClosed ==
  ASSUME NEW t \in BOOLEAN, NEW m \in Nat, NEW g \in [Slots -> Conn], NEW n,
         Counts(g, n, m), NEW L, NEW F, Accounted(t, L, F),
         NEW s \in Slots, NEW d, Done(t, d, F[s], g[s]), d.rc # "ok",
         NEW h \in [Slots -> Conn], h[s] = FreeConn,
         \A r \in Slots \ {s} : Kept(t, g[r], h[r], F[r])
  PROVE  Held(t, h, Released(L, s, d), Cleared(F, s), Uncounted(n, d), m)
<1>1. L \in [Slots -> [Ops -> Nat]] /\ LateOk(t, L) /\ F \in [Slots -> BOOLEAN]
  BY DEF Accounted
<1>2. d \in Conn /\ d.fd = g[s].fd /\ d.k \in [Ops -> Nat]
  BY DEF Done, Conn
<1> DEFINE S == [o \in Ops |-> L[s][o] + d.k[o]]
           L2 == [L EXCEPT ![s] = S]
           F2 == [F EXCEPT ![s] = FALSE]
<1>3. /\ d.k["SEND"] = 0 /\ d.k["POLLIN"] = 0 /\ d.k["POLLOUT"] = 0
      /\ t => d.k["RECV"] = 0
  BY DEF Done
<1>4. S \in [Ops -> Nat]
  BY <1>1, <1>2
<1>5. (\A o \in Ops \ {"RECV"} : S[o] = 0) /\ (t => S["RECV"] = 0)
  BY <1>1, <1>3 DEF LateOk, Ops
<1> HIDE DEF S
<1>6. L2 \in [Slots -> [Ops -> Nat]] /\ LateOk(t, L2)
  BY <1>1, <1>4, <1>5 DEF LateOk
<1>7. /\ F2 \in [Slots -> BOOLEAN] /\ F2[s] = FALSE
      /\ \A r \in Slots \ {s} : F2[r] = F[r]
  BY <1>1
<1>8. \A r \in Slots : Sound(t, h[r], F2[r]) /\ Queued(t, h[r])
  BY <1>7, FreeSound DEF Kept
<1>9. Counts(h, n - IF g[s].fd /\ n > 0 THEN 1 ELSE 0, m)
  BY CountsClosed DEF Kept
<1>10. Counts(h, Uncounted(n, d), m)
  BY <1>2, <1>9 DEF Uncounted
<1> HIDE DEF F2
<1>11. Held(t, h, L2, F2, Uncounted(n, d), m)
  BY <1>6, <1>7, <1>8, <1>10 DEF Held
<1> QED
  BY <1>11 DEF F2, S, Released, Cleared

HeldNow == Held(tls, conn, late, foreign, active_conns, oom)

\* The step of slot s leaves the other slots' foreign flags alone.
Elsewhere(s, F) == \A r \in Slots \ {s} : F[r] = foreign[r]

\* What every completion of slot s starts from.
Completes(s, c, L, F) ==
  /\ tls \in BOOLEAN /\ oom \in Nat /\ HeldNow
  /\ s \in Slots /\ conn[s].st # "FREE" /\ c.fd = conn[s].fd
  /\ Accounted(tls, L, F) /\ Elsewhere(s, F)

\* Settle keeps the table.
LEMMA SettleHeld ==
  ASSUME NEW s, NEW c, NEW L, NEW F, Completes(s, c, L, F), NEW d, Done(tls, d, F[s], c),
         Settle(s, d, L, F)
  PROVE  Held(tls, conn', late', foreign', active_conns', oom)
<1>1. /\ tls \in BOOLEAN /\ oom \in Nat /\ s \in Slots /\ conn[s].st # "FREE"
      /\ Accounted(tls, L, F) /\ conn \in [Slots -> Conn]
      /\ Counts(conn, active_conns, oom)
      /\ \A r \in Slots : Sound(tls, conn[r], foreign[r]) /\ Queued(tls, conn[r])
  BY DEF Completes, HeldNow, Held
<1>2. Done(tls, d, F[s], conn[s]) /\ d \in Conn
  BY DEF Completes, Done
<1>3. \A r \in Slots \ {s} : Kept(tls, conn[r], conn[r], F[r])
  BY <1>1 DEF Kept, Completes, Elsewhere
<1>4. CASE d.rc = "ok"
  <2>1. /\ conn' = [conn EXCEPT ![s] = d] /\ late' = L /\ foreign' = F
        /\ active_conns' = active_conns
    BY <1>4 DEF Settle
  <2>2. conn' \in [Slots -> Conn] /\ conn'[s] = d /\ \A r \in Slots \ {s} : conn'[r] = conn[r]
    BY <1>1, <1>2, <2>1
  <2>3. Kept(tls, conn[s], conn'[s], F[s])
    BY <1>1, <1>2, <1>4, <2>2 DEF Done, Kept
  <2>4. \A r \in Slots \ {s} : Kept(tls, conn[r], conn'[r], F[r])
    BY <1>3, <2>2
  <2>5. Held(tls, conn', L, F, active_conns, oom)
    BY <1>1, <2>2, <2>3, <2>4, TableKept
  <2> QED
    BY <2>1, <2>5
<1>5. CASE d.rc # "ok"
  <2>1. /\ conn' = [conn EXCEPT ![s] = FreeConn]
        /\ late' = Released(L, s, d) /\ foreign' = Cleared(F, s)
        /\ active_conns' = Uncounted(active_conns, d)
    BY <1>5 DEF Settle, close_conn, Released, Cleared, Uncounted
  <2>2. /\ conn' \in [Slots -> Conn] /\ conn'[s] = FreeConn
        /\ \A r \in Slots \ {s} : conn'[r] = conn[r]
    BY <1>1, <2>1, FreeSound
  <2>3. \A r \in Slots \ {s} : Kept(tls, conn[r], conn'[r], F[r])
    BY <1>3, <2>2
  <2>4. Held(tls, conn', Released(L, s, d), Cleared(F, s), Uncounted(active_conns, d), oom)
    BY <1>1, <1>2, <1>5, <2>2, <2>3, TableClosed
  <2> QED
    BY <2>1, <2>4
<1> QED
  BY <1>4, <1>5

\* Frames, end of stream or an error on a WebSocket.
LEMMA RecvWsHeld ==
  ASSUME NEW s, NEW c, NEW L, NEW F, Completes(s, c, L, F),
         Idle(tls, c, F[s]), Queued(tls, c), RecvWs(s, c, L, F)
  PROVE  Held(tls, conn', late', foreign', active_conns', oom)
<1>1. tls \in BOOLEAN /\ F[s] \in BOOLEAN /\ c.st = "WS_RECV"
  BY DEF Completes, Accounted, RecvWs
<1>2. PICK d \in {Fail(c)} \cup handle_ws_recv(c) : Settle(s, d, L, F)
  BY DEF RecvWs
<1>3. Done(tls, d, F[s], c)
  BY <1>1, <1>2, WsRecvDone, FailDone
<1> QED
  BY <1>2, <1>3, SettleHeld

\* No request yet, or one that cannot be answered.
LEMMA RecvHttpHeld ==
  ASSUME NEW s, NEW c, NEW L, NEW F, Completes(s, c, L, F),
         HttpIdle(tls, c, F[s]), RecvHttp(s, c, L, F)
  PROVE  Held(tls, conn', late', foreign', active_conns', oom)
<1>1. tls \in BOOLEAN /\ F[s] \in BOOLEAN
  BY DEF Completes, Accounted
<1>2. PICK d \in {Fail(c), HttpMore(c)} \cup begin_bad_request_plain(c) : Settle(s, d, L, F)
  BY DEF RecvHttp
<1>3. Done(tls, d, F[s], c)
  BY <1>1, <1>2, HttpRestDone
<1> QED
  BY <1>2, <1>3, SettleHeld

\* A slot with a descriptor is counted.
LEMMA OpenCounted ==
  ASSUME NEW g, NEW n, NEW m, Counts(g, n, m), NEW s \in Slots, g[s].fd
  PROVE  n > 0
<1>1. Open(g) # {} /\ IsFiniteSet(Open(g)) /\ Cardinality(Open(g)) \in Nat
  <2>1. s \in Open(g)
    BY DEF Open
  <2>2. IsFiniteSet(Open(g)) /\ Cardinality(Open(g)) \in 0 .. MaxConns /\ MaxConns \in Nat
    BY SlotsFinite, LoopAssumption
  <2> QED
    BY <2>1, <2>2
<1>2. Cardinality(Open(g)) # 0
  BY <1>1, FS_EmptySet
<1> QED
  BY <1>1, <1>2 DEF Counts

\* A complete request: its response, the broadcast of what it changed and the flush
\* of the other connections' queues.
LEMMA RecvRequestHeld ==
  ASSUME NEW s, NEW c, NEW L, NEW F, Completes(s, c, L, F), notified \in Nat,
         HttpIdle(tls, c, F[s]), RecvRequest(s, c, L, F)
  PROVE  Held(tls, conn', late', foreign', active_conns', oom) /\ notified' \in Nat
<1>1. /\ tls \in BOOLEAN /\ oom \in Nat /\ s \in Slots /\ conn[s].st # "FREE"
      /\ Accounted(tls, L, F) /\ conn \in [Slots -> Conn] /\ F \in [Slots -> BOOLEAN]
      /\ Counts(conn, active_conns, oom) /\ c.fd = conn[s].fd
      /\ \A r \in Slots : Sound(tls, conn[r], foreign[r]) /\ Queued(tls, conn[r])
      /\ foreign \in [Slots -> BOOLEAN]
      /\ \A r \in Slots \ {s} : F[r] = foreign[r]
  BY DEF Completes, HeldNow, Held, Accounted, Elsewhere
<1>2. PICK keep_ws \in BOOLEAN, changed \in BOOLEAN :
        /\ changed => ~keep_ws /\ notified < MaxNotify
        /\ notified' = notified + IF changed THEN 1 ELSE 0
        /\ \E d \in HttpResponds(c, keep_ws) :
            LET cs == [IF changed THEN broadcast(conn) ELSE conn EXCEPT
                         ![s] = IF d.rc = "ok" THEN d ELSE FreeConn]
            IN \/ /\ d.rc = "err" \/ d.kw
                  /\ conn' = cs
               \/ /\ ~(d.rc = "err" \/ d.kw)
                  /\ conn' \in ws_flush_all_pending(cs)
            /\ \/ /\ d.rc = "ok"
                  /\ late' = L /\ foreign' = F /\ UNCHANGED active_conns
               \/ /\ d.rc # "ok"
                  /\ late' = [L EXCEPT ![s] = [o \in Ops |-> @[o] + d.k[o]]]
                  /\ foreign' = [F EXCEPT ![s] = FALSE]
                  /\ active_conns' = active_conns - 1
  BY DEF RecvRequest
<1> DEFINE base == IF changed THEN broadcast(conn) ELSE conn
           table(d) == [base EXCEPT ![s] = IF d.rc = "ok" THEN d ELSE FreeConn]
<1>3. PICK d \in HttpResponds(c, keep_ws) :
        /\ \/ (d.rc = "err" \/ d.kw) /\ conn' = table(d)
           \/ ~(d.rc = "err" \/ d.kw) /\ conn' \in ws_flush_all_pending(table(d))
        /\ \/ d.rc = "ok" /\ late' = L /\ foreign' = F /\ UNCHANGED active_conns
           \/ /\ d.rc # "ok"
              /\ late' = [L EXCEPT ![s] = [o \in Ops |-> @[o] + d.k[o]]]
              /\ foreign' = [F EXCEPT ![s] = FALSE]
              /\ active_conns' = active_conns - 1
  BY <1>2
<1>4. notified' \in Nat
  BY <1>2
<1>5. /\ Done(tls, d, F[s], conn[s]) /\ d \in Conn /\ d.fd /\ conn[s].fd
      /\ ~tls => d.rc = "ok" /\ d.kw = keep_ws
  <2>1. F[s] \in BOOLEAN
    BY <1>1
  <2>2. /\ Done(tls, d, F[s], c) /\ c.fd
        /\ ~tls => d.rc = "ok" /\ d.kw = keep_ws
    BY <1>1, <2>1, HttpRespondsDone
  <2> QED
    BY <1>1, <2>2 DEF Done
<1>6. /\ base \in [Slots -> Conn]
      /\ \A r \in Slots : /\ Sound(tls, base[r], foreign[r])
                          /\ base[r].fd = conn[r].fd /\ base[r].st = conn[r].st
  BY <1>1, BroadcastSound
<1>7. (tls \/ ~changed) => \A r \in Slots : Queued(tls, base[r])
  BY <1>1 DEF Queued
<1> DEFINE cs == table(d)
<1>8. /\ cs \in [Slots -> Conn] /\ cs[s] = IF d.rc = "ok" THEN d ELSE FreeConn
      /\ \A r \in Slots \ {s} : cs[r] = base[r]
  BY <1>1, <1>5, <1>6, FreeSound
<1> HIDE DEF base, cs
<1>9. Sound(tls, cs[s], F[s]) /\ Queued(tls, cs[s])
  BY <1>1, <1>5, <1>8, FreeSound DEF Done
<1>10. \A r \in Slots : Sound(tls, cs[r], F[r])
  BY <1>1, <1>6, <1>8, <1>9
<1>11. /\ conn' \in [Slots -> Conn]
       /\ \A r \in Slots : Kept(tls, cs[r], conn'[r], F[r])
  <2>1. CASE (d.rc = "err" \/ d.kw) /\ conn' = cs
    <3>1. tls \/ ~changed
      BY <1>2, <1>5, <2>1
    <3>2. \A r \in Slots : Queued(tls, cs[r])
      BY <1>7, <1>8, <1>9, <3>1
    <3> QED
      BY <1>8, <1>10, <2>1, <3>2 DEF Kept
  <2>2. CASE conn' \in ws_flush_all_pending(cs)
    BY <1>1, <1>8, <1>10, <2>2, FlushKept
  <2> QED
    BY <1>3, <2>1, <2>2 DEF cs
<1>12. \A r \in Slots \ {s} : Kept(tls, conn[r], conn'[r], F[r])
  BY <1>6, <1>8, <1>11 DEF Kept
<1>13. CASE d.rc = "ok"
  <2>1. Kept(tls, conn[s], conn'[s], F[s])
    BY <1>1, <1>5, <1>8, <1>11, <1>13 DEF Kept, Done
  <2>2. Held(tls, conn', L, F, active_conns, oom)
    BY <1>1, <1>11, <1>12, <2>1, TableKept
  <2> QED
    BY <1>3, <1>4, <1>13, <2>2
<1>14. CASE d.rc # "ok"
  <2>1. cs[s].st = "FREE"
    BY <1>8, <1>14 DEF FreeConn
  <2>2. conn'[s] = FreeConn
    BY <1>1, <1>11, <2>1 DEF Kept, Sound
  <2>3. active_conns > 0
    BY <1>1, <1>5, OpenCounted
  <2>4. Held(tls, conn', Released(L, s, d), Cleared(F, s), Uncounted(active_conns, d), oom)
    BY <1>1, <1>5, <1>11, <1>12, <1>14, <2>2, TableClosed
  <2>5. Uncounted(active_conns, d) = active_conns - 1
    BY <1>5, <2>3 DEF Uncounted
  <2> QED
    BY <1>3, <1>4, <1>14, <2>4, <2>5 DEF Released, Cleared
<1> QED
  BY <1>13, <1>14

\* The completion of op has left the kernel.
LEMMA ReapedFields ==
  ASSUME NEW s \in Slots, conn[s] \in Conn, NEW op \in Ops, conn[s].k[op] > 0
  PROVE  LET c == conn[s]
             d == Reaped(s, op)
         IN /\ d \in Conn /\ d.k = [c.k EXCEPT ![op] = c.k[op] - 1]
            /\ d.st = c.st /\ d.fd = c.fd /\ d.rp = c.rp /\ d.sp = c.sp /\ d.pp = c.pp
            /\ d.kw = c.kw /\ d.sub = c.sub /\ d.pend = c.pend /\ d.rc = c.rc
            /\ d.refused = c.refused
<1> DEFINE c == conn[s]
           m == [c.k EXCEPT ![op] = c.k[op] - 1]
           d == Reaped(s, op)
<1>1. c \in Conn /\ c.k \in [Ops -> Nat] /\ c.k[op] - 1 \in Nat
  BY DEF Conn
<1>2. m \in [Ops -> Nat]
  BY <1>1
<1>3. d = [c EXCEPT !.k = m]
  BY <1>1 DEF Reaped, Conn
<1> HIDE DEF c, m, d
<1>4. d \in Conn
  BY <1>1, <1>2, <1>3 DEF Conn
<1>5. /\ d.k = m
      /\ d.st = c.st /\ d.fd = c.fd /\ d.rp = c.rp /\ d.sp = c.sp /\ d.pp = c.pp
      /\ d.kw = c.kw /\ d.sub = c.sub /\ d.pend = c.pend /\ d.rc = c.rc /\ d.refused = c.refused
  BY <1>1, <1>3 DEF Conn
<1> QED
  BY <1>4, <1>5 DEF c, m, d

\* A poll of slot s completed: nothing is in flight for it any more.
LEMMA PollIdle ==
  ASSUME NEW s \in Slots, tls \in BOOLEAN, NEW f \in BOOLEAN, Sound(tls, conn[s], f),
         NEW dir \in {"POLLIN", "POLLOUT"}, conn[s].k[dir] > 0
  PROVE  LET c == [Reaped(s, dir) EXCEPT !.pp = FALSE]
         IN /\ tls = TRUE /\ Idle(tls, c, f) /\ conn[s].st # "FREE"
            /\ c.st = conn[s].st /\ c.fd = conn[s].fd /\ ~c.rp /\ Queued(tls, c)
<1> DEFINE b == conn[s]
           d == Reaped(s, dir)
           c == [d EXCEPT !.pp = FALSE]
<1>1. b \in Conn /\ b.k \in [Ops -> Nat] /\ dir \in Ops /\ b.k[dir] > 0 /\ Sound(tls, b, f)
  BY DEF Sound, Shape, Conn, Ops
<1>2. /\ d \in Conn /\ d.k = [b.k EXCEPT ![dir] = b.k[dir] - 1]
      /\ d.st = b.st /\ d.fd = b.fd /\ d.rp = b.rp /\ d.sp = b.sp
      /\ d.kw = b.kw /\ d.sub = b.sub /\ d.pend = b.pend /\ d.rc = b.rc /\ d.refused = b.refused
  BY <1>1, ReapedFields
<1> HIDE DEF b, d
<1>3. c \in Conn
  BY <1>2 DEF Conn
<1>4. /\ c.k = d.k /\ c.pp = FALSE /\ c.st = b.st /\ c.fd = b.fd /\ c.rp = b.rp
      /\ c.sp = b.sp /\ c.kw = b.kw /\ c.sub = b.sub /\ c.pend = b.pend /\ c.rc = b.rc
      /\ c.refused = b.refused
  BY <1>2 DEF Conn
<1> HIDE DEF c
<1>5. /\ b.k["POLLIN"] \in Nat /\ b.k["POLLOUT"] \in Nat
      /\ b.k["POLLIN"] + b.k["POLLOUT"] = IF b.pp THEN 1 ELSE 0
  BY <1>1 DEF Sound, Flags, Ops
<1>6. b.pp /\ b.k["POLLIN"] + b.k["POLLOUT"] = 1
  BY <1>1, <1>5
<1>7. tls = TRUE /\ ~b.rp /\ ~b.sp
  BY <1>1, <1>6 DEF Sound, Flags
<1>8. /\ c.k["POLLIN"] + c.k["POLLOUT"] = 0 /\ c.k["SEND"] = b.k["SEND"]
      /\ c.k["RECV"] = b.k["RECV"]
  BY <1>1, <1>2, <1>4, <1>6 DEF Ops
<1>9. b.st # "FREE"
  <2>1. FreeConn.pp = FALSE
    BY DEF FreeConn
  <2> QED
    BY <1>1, <1>6, <2>1 DEF Sound
<1>10. Shape(c)
  BY <1>1, <1>3, <1>4 DEF Sound, Shape
<1>11. Flags(tls, c, f)
  BY <1>1, <1>4, <1>7, <1>8 DEF Sound, Flags
<1>12. Idle(tls, c, f) /\ Queued(tls, c)
  BY <1>1, <1>4, <1>7, <1>9, <1>10, <1>11 DEF Sound, Idle, Queued
<1> QED
  BY <1>4, <1>7, <1>9, <1>12 DEF b, c, d

\* A send of slot s completed, on a plain listener.
LEMMA SendIdle ==
  ASSUME NEW s \in Slots, tls \in BOOLEAN, NEW f \in BOOLEAN, Sound(tls, conn[s], f),
         conn[s].k["SEND"] > 0
  PROVE  LET c == [Reaped(s, "SEND") EXCEPT !.sp = FALSE]
         IN /\ tls = FALSE /\ Idle(tls, c, f) /\ c.st \in SendStates
            /\ conn[s].st # "FREE" /\ c.fd = conn[s].fd
<1> DEFINE b == conn[s]
           d == Reaped(s, "SEND")
           c == [d EXCEPT !.sp = FALSE]
<1>1. b \in Conn /\ b.k \in [Ops -> Nat] /\ "SEND" \in Ops /\ b.k["SEND"] > 0 /\ Sound(tls, b, f)
  BY DEF Sound, Shape, Conn, Ops
<1>2. /\ d \in Conn /\ d.k = [b.k EXCEPT !["SEND"] = b.k["SEND"] - 1]
      /\ d.st = b.st /\ d.fd = b.fd /\ d.rp = b.rp /\ d.pp = b.pp
      /\ d.kw = b.kw /\ d.sub = b.sub /\ d.pend = b.pend /\ d.rc = b.rc /\ d.refused = b.refused
  BY <1>1, ReapedFields
<1> HIDE DEF b, d
<1>3. c \in Conn
  BY <1>2 DEF Conn
<1>4. /\ c.k = d.k /\ c.sp = FALSE /\ c.st = b.st /\ c.fd = b.fd /\ c.rp = b.rp
      /\ c.pp = b.pp /\ c.kw = b.kw /\ c.sub = b.sub /\ c.pend = b.pend /\ c.rc = b.rc
      /\ c.refused = b.refused
  BY <1>2 DEF Conn
<1> HIDE DEF c
<1>5. b.sp /\ b.k["SEND"] = 1
  BY <1>1 DEF Sound, Flags
<1>6. tls = FALSE /\ ~b.pp /\ b.st \in SendStates
  BY <1>1, <1>5 DEF Sound, Flags, Armed
<1>7. /\ c.k["POLLIN"] = b.k["POLLIN"] /\ c.k["POLLOUT"] = b.k["POLLOUT"]
      /\ c.k["SEND"] = 0 /\ c.k["RECV"] = b.k["RECV"]
  BY <1>1, <1>2, <1>4, <1>5 DEF Ops
<1>8. Shape(c)
  BY <1>1, <1>3, <1>4 DEF Sound, Shape
<1>9. Flags(tls, c, f)
  BY <1>1, <1>4, <1>6, <1>7 DEF Sound, Flags
<1>10. Idle(tls, c, f)
  BY <1>1, <1>4, <1>6, <1>8, <1>9 DEF Sound, Idle, SendStates
<1> QED
  BY <1>4, <1>6, <1>10 DEF b, c, d, SendStates

\* What OnRecv needs of the connection it is given: one that is receiving has
\* nothing else in flight, one that is sending stays as it is.
Received(c, f) ==
  LET e == [c EXCEPT !.rp = FALSE] IN
  /\ c.st # "TLS_HS"
  /\ c.st \in {"RECV", "WS_RECV"}
       => /\ Idle(FALSE, e, f) /\ Queued(FALSE, e) /\ ~e.rp
          /\ e.st = c.st /\ e.fd = c.fd
          /\ c.st = "RECV" /\ ~f => e.k["RECV"] = 0
  /\ c.st \in SendStates => Sound(FALSE, c, f) /\ Queued(FALSE, c)

\* A plain connection whose flags and state match, and that has no recv in flight
\* but what foreign completions explain, is ready for OnRecv.
LEMMA ReceivedReady ==
  ASSUME NEW f \in BOOLEAN, NEW c \in Conn, Shape(c), Flags(FALSE, c, f), Queued(FALSE, c),
         c.rc = "ok", c.st # "FREE", c.sp <=> c.st \in SendStates,
         ~f => c.k["RECV"] = 0
  PROVE  Received(c, f)
<1> DEFINE e == [c EXCEPT !.rp = FALSE]
<1>1. e \in Conn
  BY DEF Conn
<1>2. /\ e.k = c.k /\ e.rp = FALSE /\ e.st = c.st /\ e.fd = c.fd /\ e.pp = c.pp
      /\ e.sp = c.sp /\ e.kw = c.kw /\ e.sub = c.sub /\ e.pend = c.pend /\ e.rc = c.rc
      /\ e.refused = c.refused
  BY DEF Conn
<1> HIDE DEF e
<1>3. ASSUME c.st \in {"RECV", "WS_RECV"}
      PROVE  Idle(FALSE, e, f) /\ Queued(FALSE, e) /\ (c.st = "RECV" /\ ~f => e.k["RECV"] = 0)
  <2>1. ~c.sp /\ ~c.pp
    BY <1>3 DEF SendStates, Flags
  <2>2. Shape(e) /\ Queued(FALSE, e)
    BY <1>1, <1>2 DEF Shape, Queued
  <2>3. Flags(FALSE, e, f)
    BY <1>2 DEF Flags
  <2> QED
    BY <1>2, <2>1, <2>2, <2>3 DEF Idle
<1>4. ASSUME c.st \in SendStates PROVE Sound(FALSE, c, f)
  <2>1. Armed(FALSE, c, f)
    BY <1>4 DEF Armed, SendStates
  <2> QED
    BY <2>1 DEF Sound
<1>5. c.st # "TLS_HS"
  BY DEF Flags
<1> QED
  BY <1>2, <1>3, <1>4, <1>5 DEF Received, e

\* A recv completed, the connection's own or one that is gone.
LEMMA OnRecvHeld ==
  ASSUME NEW s, NEW c, NEW L, NEW F, Completes(s, c, L, F), tls = FALSE,
         notified \in Nat, c \in Conn, Received(c, F[s]), c.rc = "ok", OnRecv(s, c, L, F)
  PROVE  Held(tls, conn', late', foreign', active_conns', oom) /\ notified' \in Nat
<1> DEFINE e == [c EXCEPT !.rp = FALSE]
<1>1. F[s] \in BOOLEAN /\ e.st = c.st /\ e.fd = c.fd
  BY DEF Completes, Accounted, Conn
<1>2. Completes(s, e, L, F)
  BY <1>1 DEF Completes
<1>3. c.st \in {"RECV", "WS_RECV"}
        => /\ Idle(tls, e, F[s]) /\ Queued(tls, e) /\ ~e.rp
           /\ c.st = "RECV" /\ ~F[s] => e.k["RECV"] = 0
  BY DEF Received
<1> HIDE DEF e
<1>4. CASE RecvWs(s, e, L, F)
  <2>1. Idle(tls, e, F[s]) /\ Queued(tls, e) /\ notified' = notified
    BY <1>1, <1>3, <1>4 DEF RecvWs
  <2> QED
    BY <1>2, <1>4, <2>1, RecvWsHeld
<1>5. CASE RecvHttp(s, e, L, F)
  <2>1. HttpIdle(tls, e, F[s]) /\ notified' = notified
    BY <1>1, <1>3, <1>5 DEF RecvHttp, HttpIdle
  <2> QED
    BY <1>2, <1>5, <2>1, RecvHttpHeld
<1>6. CASE RecvRequest(s, e, L, F)
  <2>1. HttpIdle(tls, e, F[s])
    BY <1>1, <1>3, <1>6 DEF RecvRequest, HttpIdle
  <2> QED
    BY <1>2, <1>6, <2>1, RecvRequestHeld
<1>7. CASE RecvDropped(s, c, L, F)
  <2>1. c.st \in {"TLS_HS", "SEND", "WS_SEND"} /\ Settle(s, c, L, F) /\ notified' = notified
    BY <1>7 DEF RecvDropped
  <2>2. c.st \in SendStates /\ c.st # "FREE"
    BY <2>1 DEF Received, SendStates
  <2>3. Done(tls, c, F[s], c)
    BY <2>2 DEF Received, Done
  <2> QED
    BY <2>1, <2>3, SettleHeld
<1> QED
  BY <1>4, <1>5, <1>6, <1>7 DEF OnRecv, e

\* The invariant in the form the steps below use it.
LEMMA HeldAt ==
  ASSUME IInv
  PROVE  /\ tls \in BOOLEAN /\ oom \in Nat /\ notified \in Nat /\ HeldNow
         /\ conn \in [Slots -> Conn] /\ foreign \in [Slots -> BOOLEAN]
         /\ late \in [Slots -> [Ops -> Nat]] /\ LateOk(tls, late)
         /\ Accounted(tls, late, foreign) /\ Counts(conn, active_conns, oom)
         /\ \A s \in Slots : Sound(tls, conn[s], foreign[s]) /\ Queued(tls, conn[s])
BY DEF IInv, RestTyped, HeldNow, Held, Accounted

\* OP_RECV of the connection's own.
LEMMA RecvCqeHeld ==
  ASSUME IInv, NEW s \in Slots, RecvCqe(s)
  PROVE  Held(tls, conn', late', foreign', active_conns', oom) /\ notified' \in Nat
<1> DEFINE b == conn[s]
           c == Reaped(s, "RECV")
           f == foreign[s]
<1>1. /\ b \in Conn /\ b.k \in [Ops -> Nat] /\ "RECV" \in Ops /\ b.k["RECV"] > 0
      /\ Sound(tls, b, f) /\ Queued(tls, b) /\ f \in BOOLEAN
      /\ OnRecv(s, c, late, foreign)
  BY HeldAt DEF RecvCqe, Conn, Ops
<1>2. /\ c \in Conn /\ c.k = [b.k EXCEPT !["RECV"] = b.k["RECV"] - 1]
      /\ c.st = b.st /\ c.fd = b.fd /\ c.rp = b.rp /\ c.sp = b.sp /\ c.pp = b.pp
      /\ c.kw = b.kw /\ c.sub = b.sub /\ c.pend = b.pend /\ c.rc = b.rc /\ c.refused = b.refused
  BY <1>1, ReapedFields
<1> HIDE DEF b, c, f
<1>3. tls = FALSE /\ b.rc = "ok"
  BY <1>1, HeldAt DEF Sound, Flags
<1>4. b.st # "FREE"
  <2>1. FreeConn.k["RECV"] = 0
    BY DEF FreeConn, NoOps, Ops
  <2> QED
    BY <1>1, <2>1 DEF Sound
<1>5. /\ c.k["POLLIN"] = b.k["POLLIN"] /\ c.k["POLLOUT"] = b.k["POLLOUT"]
      /\ c.k["SEND"] = b.k["SEND"] /\ c.k["RECV"] = b.k["RECV"] - 1
      /\ b.k["RECV"] \in Nat
  BY <1>1, <1>2 DEF Ops
<1>6. ~f => c.k["RECV"] = 0
  BY <1>1, <1>5 DEF Sound, Flags
<1>7. Shape(c) /\ Queued(FALSE, c)
  BY <1>1, <1>2, <1>3 DEF Sound, Shape, Queued
<1>8. Flags(FALSE, c, f)
  BY <1>1, <1>2, <1>3, <1>5, <1>6 DEF Sound, Flags
<1>9. c.sp <=> c.st \in SendStates
  BY <1>1, <1>2, <1>3 DEF Sound, Armed
<1>10. Received(c, f)
  BY <1>1, <1>2, <1>3, <1>4, <1>6, <1>7, <1>8, <1>9, ReceivedReady
<1>11. Completes(s, c, late, foreign)
  BY <1>2, <1>4, HeldAt DEF Completes, Elsewhere, b
<1> QED
  BY <1>1, <1>2, <1>3, <1>10, <1>11, HeldAt, OnRecvHeld DEF f

\* OP_RECV of a connection that is gone.
LEMMA LateRecvCqeHeld ==
  ASSUME IInv, NEW s \in Slots, LateRecvCqe(s)
  PROVE  Held(tls, conn', late', foreign', active_conns', oom) /\ notified' \in Nat
<1> DEFINE b == conn[s]
           m == [late[s] EXCEPT !["RECV"] = @ - 1]
           L == [late EXCEPT ![s] = m]
           F == [foreign EXCEPT ![s] = TRUE]
<1>1. /\ b \in Conn /\ Sound(tls, b, foreign[s]) /\ Queued(tls, b)
      /\ foreign[s] \in BOOLEAN /\ late[s] \in [Ops -> Nat] /\ late[s]["RECV"] > 0
      /\ "RECV" \in Ops
  BY HeldAt DEF LateRecvCqe, Ops
<1>2. m \in [Ops -> Nat] /\ \A o \in Ops \ {"RECV"} : m[o] = late[s][o]
  BY <1>1
<1>3. tls = FALSE
  BY <1>1, HeldAt DEF LateOk
<1>4. [late EXCEPT ![s]["RECV"] = @ - 1] = L
  BY <1>1, HeldAt
<1> HIDE DEF m
<1>5. L \in [Slots -> [Ops -> Nat]] /\ LateOk(tls, L)
  BY <1>2, <1>3, HeldAt DEF LateOk
<1>6. F \in [Slots -> BOOLEAN] /\ F[s] = TRUE /\ \A r \in Slots \ {s} : F[r] = foreign[r]
  BY HeldAt
<1>7. \/ /\ b.st = "FREE" /\ late' = L
         /\ conn' = conn /\ foreign' = foreign /\ active_conns' = active_conns
         /\ notified' = notified
      \/ OnRecv(s, b, L, F)
  BY <1>4 DEF LateRecvCqe
<1> HIDE DEF L, F
<1>8. CASE /\ b.st = "FREE" /\ late' = L
           /\ conn' = conn /\ foreign' = foreign /\ active_conns' = active_conns
           /\ notified' = notified
  BY <1>5, <1>8, HeldAt DEF HeldNow, Held
<1>9. CASE OnRecv(s, b, L, F)
  <2>1. b.st # "FREE"
    <3>1. [b EXCEPT !.rp = FALSE].st = b.st
      BY <1>1 DEF Conn
    <3> QED
      BY <1>9, <3>1 DEF OnRecv, RecvWs, RecvHttp, RecvRequest, RecvDropped
  <2>2. Shape(b) /\ Queued(FALSE, b) /\ b.rc = "ok"
    BY <1>1, <1>3 DEF Sound
  <2>3. Flags(FALSE, b, TRUE) /\ (b.sp <=> b.st \in SendStates)
    BY <1>1, <1>3 DEF Sound, Flags, Armed
  <2>4. Received(b, TRUE)
    BY <1>1, <2>1, <2>2, <2>3, ReceivedReady
  <2>5. Completes(s, b, L, F)
    BY <1>5, <1>6, <2>1, HeldAt DEF Completes, Elsewhere, Accounted
  <2> QED
    BY <1>1, <1>3, <1>6, <1>9, <2>2, <2>4, <2>5, HeldAt, OnRecvHeld
<1> QED
  BY <1>7, <1>8, <1>9

\* OP_SEND.
LEMMA SendCqeHeld ==
  ASSUME IInv, NEW s \in Slots, SendCqe(s)
  PROVE  Held(tls, conn', late', foreign', active_conns', oom)
<1> DEFINE c == [Reaped(s, "SEND") EXCEPT !.sp = FALSE]
<1>1. PICK d \in {Fail(c)} \cup handle_send_complete(c) : Settle(s, d, late, foreign)
  BY DEF SendCqe
<1>2. conn[s].k["SEND"] > 0 /\ foreign[s] \in BOOLEAN /\ Sound(tls, conn[s], foreign[s])
  BY HeldAt DEF SendCqe
<1>3. /\ tls = FALSE /\ Idle(tls, c, foreign[s]) /\ c.st \in SendStates
      /\ conn[s].st # "FREE" /\ c.fd = conn[s].fd
  BY <1>2, HeldAt, SendIdle
<1> HIDE DEF c
<1>4. Done(tls, d, foreign[s], c)
  BY <1>1, <1>2, <1>3, SendCompleteDone, FailDone
<1>5. Completes(s, c, late, foreign)
  BY <1>3, HeldAt DEF Completes, Elsewhere
<1> QED
  BY <1>1, <1>4, <1>5, SettleHeld

\* OP_POLL.
LEMMA PollCqeHeld ==
  ASSUME IInv, NEW s \in Slots, NEW dir \in {"POLLIN", "POLLOUT"}, PollCqe(s, dir)
  PROVE  Held(tls, conn', late', foreign', active_conns', oom) /\ notified' \in Nat
<1> DEFINE c == [Reaped(s, dir) EXCEPT !.pp = FALSE]
           f == foreign[s]
<1>1. \/ TlsHandshake(s, c)
      \/ TlsReadBlocks(s, c)
      \/ RecvWs(s, c, late, foreign)
      \/ RecvHttp(s, c, late, foreign)
      \/ RecvRequest(s, c, late, foreign)
      \/ TlsWrite(s, c)
  BY DEF PollCqe
<1>2. conn[s].k[dir] > 0 /\ f \in BOOLEAN /\ Sound(tls, conn[s], f) /\ notified \in Nat
  BY HeldAt DEF PollCqe
<1>3. /\ tls = TRUE /\ Idle(tls, c, f) /\ conn[s].st # "FREE"
      /\ c.st = conn[s].st /\ c.fd = conn[s].fd /\ ~c.rp /\ Queued(tls, c)
  BY <1>2, HeldAt, PollIdle
<1> HIDE DEF c
<1>4. Completes(s, c, late, foreign)
  BY <1>3, HeldAt DEF Completes, Elsewhere
<1>5. CASE TlsHandshake(s, c)
  <2> DEFINE e == [c EXCEPT !.st = "RECV"]
  <2>1. c.st = "TLS_HS" /\ notified' = notified
    BY <1>5 DEF TlsHandshake
  <2>2. PICK d \in {submit_recv(e), submit_poll(c, FALSE), submit_poll(c, TRUE), Fail(c)} :
          Settle(s, d, late, foreign)
    BY <1>5 DEF TlsHandshake
  <2>3. c \in Conn
    BY <1>3 DEF Idle, Shape
  <2>4. e \in Conn
    BY <2>3 DEF Conn, States
  <2>5. /\ e.k = c.k /\ e.pp = c.pp /\ e.st = "RECV" /\ e.fd = c.fd /\ e.rp = c.rp
        /\ e.sp = c.sp /\ e.kw = c.kw /\ e.sub = c.sub /\ e.pend = c.pend /\ e.rc = c.rc
        /\ e.refused = c.refused
    BY <2>3 DEF Conn
  <2> HIDE DEF e
  <2>6. Idle(tls, e, f) /\ Queued(tls, e) /\ ~e.rp
    BY <1>3, <2>1, <2>4, <2>5 DEF Idle, Shape, Flags, Queued, WsStates
  <2>7. Done(tls, submit_recv(e), f, c)
    <3>1. Done(tls, submit_recv(e), f, e)
      BY <1>2, <1>3, <2>5, <2>6, RecvDone
    <3> QED
      BY <2>5, <3>1 DEF Done
  <2>8. Done(tls, d, f, c)
    BY <1>2, <1>3, <2>2, <2>7, PollDone, FailDone
  <2> QED
    BY <1>2, <1>4, <2>1, <2>2, <2>8, SettleHeld
<1>6. CASE TlsReadBlocks(s, c)
  <2>1. PICK w \in BOOLEAN : Settle(s, submit_poll(c, w), late, foreign)
    BY <1>6 DEF TlsReadBlocks
  <2>2. Done(tls, submit_poll(c, w), f, c) /\ notified' = notified
    BY <1>2, <1>3, <1>6, PollDone DEF TlsReadBlocks
  <2> QED
    BY <1>2, <1>4, <2>1, <2>2, SettleHeld
<1>7. CASE RecvWs(s, c, late, foreign)
  <2>1. notified' = notified
    BY <1>7 DEF RecvWs
  <2> QED
    BY <1>2, <1>3, <1>4, <1>7, <2>1, RecvWsHeld
<1>8. ASSUME c.st = "RECV" PROVE HttpIdle(tls, c, f)
  BY <1>3, <1>8 DEF HttpIdle
<1>9. CASE RecvHttp(s, c, late, foreign)
  <2>1. notified' = notified /\ c.st = "RECV"
    BY <1>9 DEF RecvHttp
  <2> QED
    BY <1>2, <1>4, <1>8, <1>9, <2>1, RecvHttpHeld
<1>10. CASE RecvRequest(s, c, late, foreign)
  <2>1. c.st = "RECV"
    BY <1>10 DEF RecvRequest
  <2> QED
    BY <1>2, <1>4, <1>8, <1>10, <2>1, RecvRequestHeld
<1>11. CASE TlsWrite(s, c)
  <2>1. PICK d \in tls_drive_write(c) : Settle(s, d, late, foreign)
    BY <1>11 DEF TlsWrite
  <2>2. c.st \in SendStates /\ notified' = notified
    BY <1>11 DEF TlsWrite, SendStates
  <2>3. Done(tls, d, f, c)
    BY <1>2, <1>3, <2>1, <2>2, DriveWriteDone
  <2> QED
    BY <1>2, <1>4, <2>1, <2>2, <2>3, SettleHeld
<1> QED
  BY <1>1, <1>5, <1>6, <1>7, <1>9, <1>10, <1>11

-------------------------------------------------------------------------------
(* The steps that are nobody's completion *)

\* alloc_conn finds a free entry when there is one.
LEMMA FreeEntry ==
  ASSUME Free # {}
  PROVE  Min(Free) \in Slots /\ conn[Min(Free)].st = "FREE"
<1>1. Free \subseteq Nat
  BY LoopAssumption DEF Free, Slots
<1>2. PICK x \in Free : \A y \in Free : ~(<<y, x>> \in OpToRel(<, Nat))
  BY <1>1, NatLessThanWellFounded, WFMin
<1>3. OpToRel(<, Nat) = {ss \in Nat \X Nat : ss[1] < ss[2]}
  BY DEF OpToRel
<1>4. \A y \in Free : x <= y
  <2> TAKE y \in Free
  <2>1. ~(<<y, x>> \in {ss \in Nat \X Nat : ss[1] < ss[2]})
    BY <1>2, <1>3
  <2>2. x \in Nat /\ y \in Nat
    BY <1>1
  <2> QED
    BY <2>1, <2>2
<1>5. Min(Free) \in Free
  BY <1>4 DEF Min
<1> QED
  BY <1>5 DEF Free

\* A new connection: its recv, or its poll, is armed.
LEMMA AcceptHeld ==
  ASSUME IInv, AcceptOne
  PROVE  Held(tls, conn', late', foreign', active_conns', oom)
<1> DEFINE s == Min(Free)
           f == foreign[s]
           c == [FreeConn EXCEPT !.fd = TRUE, !.st = "TLS_HS"]
           e == [c EXCEPT !.st = "RECV"]
<1>1. s \in Slots /\ conn[s].st = "FREE"
  BY FreeEntry DEF AcceptOne
<1> HIDE DEF s
<1>2. f \in BOOLEAN /\ conn[s] = FreeConn
  BY <1>1, HeldAt DEF Sound
<1>3. late' = late /\ foreign' = foreign
  BY DEF AcceptOne
<1>4. /\ c \in Conn /\ e \in Conn
      /\ c.fd = TRUE /\ c.st = "TLS_HS" /\ c.rp = FALSE /\ c.sp = FALSE /\ c.pp = FALSE
      /\ c.kw = FALSE /\ c.sub = FALSE /\ c.pend = 0 /\ c.k = NoOps /\ c.rc = "ok"
      /\ c.refused = FALSE /\ e.refused = FALSE
      /\ e.fd = TRUE /\ e.st = "RECV" /\ e.rp = FALSE /\ e.sp = FALSE /\ e.pp = FALSE
      /\ e.kw = FALSE /\ e.sub = FALSE /\ e.pend = 0 /\ e.k = NoOps /\ e.rc = "ok"
  <2>1. FreeConn \in Conn
    BY FreeSound
  <2>2. c \in Conn /\ e \in Conn
    BY <2>1 DEF Conn, States
  <2> QED
    BY <2>2 DEF FreeConn
<1>5. \/ tls /\ conn' = conn /\ active_conns' = active_conns
      \/ /\ active_conns' = active_conns + 1
         /\ \E d \in {submit_recv(e)} \cup {x \in {submit_poll(c, FALSE), submit_poll(c, TRUE)} : tls} :
              conn' = [conn EXCEPT ![s] = d]
  BY DEF AcceptOne, s
<1> HIDE DEF c, e
<1>6. \A o \in Ops : NoOps[o] = 0
  BY DEF NoOps
<1>7. Shape(c) /\ Shape(e)
  BY <1>4 DEF Shape, WsStates
<1>8. Flags(tls, e, f) /\ (tls => Flags(tls, c, f))
  BY <1>4, <1>6, HeldAt DEF Flags, Ops
<1>9. Idle(tls, e, f) /\ Queued(tls, e) /\ (tls => Idle(tls, c, f))
  BY <1>4, <1>7, <1>8 DEF Idle, Queued
<1>10. CASE tls /\ conn' = conn /\ active_conns' = active_conns
  BY <1>3, <1>10, HeldAt DEF HeldNow
<1>11. ASSUME active_conns' = active_conns + 1,
              NEW d, Done(tls, d, f, c) \/ Done(tls, d, f, e), d.rc = "ok",
              conn' = [conn EXCEPT ![s] = d]
       PROVE  Held(tls, conn', late', foreign', active_conns', oom)
  <2>1. d \in Conn /\ d.fd /\ Sound(tls, d, f) /\ Queued(tls, d)
    BY <1>4, <1>11 DEF Done
  <2>2. conn' \in [Slots -> Conn] /\ conn'[s] = d /\ \A r \in Slots \ {s} : conn'[r] = conn[r]
    BY <1>1, <1>11, <2>1, HeldAt
  <2>3. Counts(conn', active_conns + 1, oom)
    BY <1>1, <1>2, <2>1, <2>2, HeldAt, CountsOpened
  <2>4. \A r \in Slots : Sound(tls, conn'[r], foreign[r]) /\ Queued(tls, conn'[r])
    BY <2>1, <2>2, HeldAt
  <2> QED
    BY <1>3, <1>11, <2>2, <2>3, <2>4, HeldAt DEF Held
<1>12. Done(tls, submit_recv(e), f, e) /\ submit_recv(e).rc = "ok"
  BY <1>2, <1>4, <1>9, HeldAt, RecvDone
<1>13. ASSUME tls, NEW w \in BOOLEAN
       PROVE  Done(tls, submit_poll(c, w), f, c) /\ submit_poll(c, w).rc = "ok"
  <2>1. tls = TRUE /\ Idle(TRUE, c, f)
    BY <1>9, <1>13, HeldAt
  <2> QED
    BY <1>2, <2>1, PollDone
<1> QED
  BY <1>5, <1>10, <1>11, <1>12, <1>13

\* An entry left without a descriptor by a failed allocation.
LEMMA NomemHeld ==
  ASSUME IInv, AcceptNomem
  PROVE  Held(tls, conn', late', foreign', active_conns', oom')
<1> DEFINE s == Min(Free)
           f == foreign[s]
           d == [FreeConn EXCEPT !.st = "RECV"]
<1>1. s \in Slots /\ conn[s].st = "FREE"
  BY FreeEntry DEF AcceptNomem
<1>2. conn' = [conn EXCEPT ![s].st = "RECV"]
  BY DEF AcceptNomem
<1>3. late' = late /\ foreign' = foreign /\ active_conns' = active_conns /\ oom' = oom + 1
  BY DEF AcceptNomem
<1> HIDE DEF s
<1>4. f \in BOOLEAN /\ conn[s] = FreeConn
  BY <1>1, HeldAt DEF Sound
<1>5. /\ d \in Conn
      /\ d.fd = FALSE /\ d.st = "RECV" /\ d.rp = FALSE /\ d.sp = FALSE /\ d.pp = FALSE
      /\ d.kw = FALSE /\ d.sub = FALSE /\ d.pend = 0 /\ d.k = NoOps /\ d.rc = "ok"
      /\ d.refused = FALSE
  <2>1. FreeConn \in Conn
    BY FreeSound
  <2>2. d \in Conn
    BY <2>1 DEF Conn, States
  <2> QED
    BY <2>2 DEF FreeConn
<1>6. conn' = [conn EXCEPT ![s] = d]
  BY <1>2, <1>4
<1> HIDE DEF d
<1>7. \A o \in Ops : NoOps[o] = 0
  BY DEF NoOps
<1>8. Shape(d) /\ Flags(tls, d, f)
  BY <1>5, <1>7, HeldAt DEF Shape, Flags, WsStates, Ops
<1>9. Sound(tls, d, f) /\ Queued(tls, d)
  BY <1>5, <1>8 DEF Sound, Queued, Armed, SendStates
<1>10. conn' \in [Slots -> Conn] /\ conn'[s] = d /\ \A r \in Slots \ {s} : conn'[r] = conn[r]
  BY <1>1, <1>5, <1>6, HeldAt
<1>11. Counts(conn', active_conns, oom + 1)
  BY <1>1, <1>4, <1>5, <1>10, HeldAt, CountsNomem
<1>12. \A r \in Slots : Sound(tls, conn'[r], foreign[r]) /\ Queued(tls, conn'[r])
  BY <1>9, <1>10, HeldAt
<1> QED
  BY <1>3, <1>10, <1>11, <1>12, HeldAt DEF Held

\* The 200 ms timer.
LEMMA TimeoutHeld ==
  ASSUME IInv, Timeout
  PROVE  Held(tls, conn', late', foreign', active_conns', oom) /\ notified' \in Nat
<1>1. late' = late /\ foreign' = foreign /\ active_conns' = active_conns
  BY DEF Timeout
<1>2. PICK g \in ws_flush_all_pending(conn) :
        \/ conn' = g /\ notified' = notified
        \/ notified' = notified + 1 /\ conn' \in ws_flush_all_pending(broadcast(g))
  BY DEF Timeout
<1>3. g \in [Slots -> Conn] /\ \A s \in Slots : Kept(tls, conn[s], g[s], foreign[s])
  BY HeldAt, FlushKept
<1>4. notified' \in Nat
  BY <1>2, HeldAt
<1>5. CASE conn' = g
  <2>1. Held(tls, g, late, foreign, active_conns, oom)
    BY <1>3, HeldAt, TableKept
  <2> QED
    BY <1>1, <1>4, <1>5, <2>1
<1>6. CASE conn' \in ws_flush_all_pending(broadcast(g))
  <2> DEFINE h == broadcast(g)
  <2>1. /\ h \in [Slots -> Conn]
        /\ \A s \in Slots : /\ Sound(tls, h[s], foreign[s])
                            /\ h[s].fd = g[s].fd /\ h[s].st = g[s].st
    BY <1>3, HeldAt, BroadcastSound DEF Kept
  <2> HIDE DEF h
  <2>2. conn' \in [Slots -> Conn] /\ \A s \in Slots : Kept(tls, h[s], conn'[s], foreign[s])
    BY <1>6, <2>1, HeldAt, FlushKept DEF h
  <2>3. \A s \in Slots : Kept(tls, conn[s], conn'[s], foreign[s])
    BY <1>3, <2>1, <2>2 DEF Kept
  <2>4. Held(tls, conn', late, foreign, active_conns, oom)
    BY <2>2, <2>3, HeldAt, TableKept
  <2> QED
    BY <1>1, <1>4, <2>4
<1> QED
  BY <1>2, <1>5, <1>6

\* A table of free entries.
LEMMA AllFreeHeld ==
  ASSUME NEW t \in BOOLEAN, NEW m \in Nat
  PROVE  Held(t, [s \in Slots |-> FreeConn], [s \in Slots |-> NoOps],
              [s \in Slots |-> FALSE], 0, m)
<1> DEFINE g == [s \in Slots |-> FreeConn]
           L == [s \in Slots |-> NoOps]
           F == [s \in Slots |-> FALSE]
<1>1. NoOps \in [Ops -> Nat] /\ \A o \in Ops : NoOps[o] = 0
  BY DEF NoOps
<1>2. L \in [Slots -> [Ops -> Nat]] /\ LateOk(t, L)
  BY <1>1 DEF LateOk, Ops
<1>3. g \in [Slots -> Conn] /\ F \in [Slots -> BOOLEAN]
  BY FreeSound
<1>4. \A s \in Slots : Sound(t, g[s], F[s]) /\ Queued(t, g[s])
  BY FreeSound
<1>5. Open(g) = {} /\ Lost(g) = {}
  BY DEF Open, Lost, FreeConn
<1>6. Counts(g, 0, m)
  BY <1>5, FS_EmptySet DEF Counts
<1> QED
  BY <1>2, <1>3, <1>4, <1>6 DEF Held

\* The loop is left.
LEMMA ExitHeld ==
  ASSUME IInv, Exit
  PROVE  Held(tls, conn', late', foreign', active_conns', oom)
<1>1. /\ conn' = [s \in Slots |-> FreeConn] /\ late' = [s \in Slots |-> NoOps]
      /\ foreign' = [s \in Slots |-> FALSE]
      /\ active_conns' = active_conns - Cardinality(Open(conn))
  BY DEF Exit, Open
<1>2. active_conns = Cardinality(Open(conn)) /\ active_conns \in 0 .. MaxConns
  BY HeldAt, SlotsFinite DEF Counts
<1>3. active_conns' = 0
  BY <1>1, <1>2
<1> QED
  BY <1>1, <1>3, HeldAt, AllFreeHeld

-------------------------------------------------------------------------------
(* The theorems *)

\* The inductive invariant holds at startup.
LEMMA InitInv == Init => IInv
<1> SUFFICES ASSUME Init PROVE IInv
  OBVIOUS
<1>1. RestTyped
  BY LoopAssumption DEF Init, RestTyped
<1>2. Held(tls, conn, late, foreign, active_conns, oom)
  BY <1>1, AllFreeHeld DEF Init, RestTyped
<1> QED
  BY <1>1, <1>2 DEF IInv

\* Every step of the loop keeps it.
LEMMA NextInv == IInv /\ [Next]_vars => IInv'
<1> SUFFICES ASSUME IInv, [Next]_vars PROVE IInv'
  OBVIOUS
<1>1. RestTyped /\ MaxAccepts \in Nat
  BY LoopAssumption DEF IInv
<1>2. ASSUME tls' = tls, oom' = oom, accepts_done' = accepts_done,
             accept_pending' = accept_pending, running' \in BOOLEAN, notified' \in Nat,
             Held(tls, conn', late', foreign', active_conns', oom)
      PROVE  IInv'
  BY <1>1, <1>2 DEF IInv, RestTyped
<1>3. CASE AcceptOne
  <2>1. Held(tls, conn', late', foreign', active_conns', oom)
    BY <1>3, AcceptHeld
  <2>2. /\ tls' = tls /\ oom' = oom /\ running' = running /\ notified' = notified
        /\ accept_pending /\ accepts_done' = accepts_done + 1
        /\ accept_pending' = submit_accept(accepts_done + 1)
    BY <1>3 DEF AcceptOne, hist
  <2>3. /\ submit_accept(accepts_done + 1) \in BOOLEAN
        /\ submit_accept(accepts_done + 1) => accepts_done + 1 < MaxAccepts
    BY DEF submit_accept
  <2>4. accept_pending' \in BOOLEAN /\ (accept_pending' => accepts_done + 1 < MaxAccepts)
    BY <2>2, <2>3, Zenon
  <2>5. accepts_done' \in 0 .. MaxAccepts
    BY <1>1, <2>2 DEF RestTyped
  <2>6. RestTyped'
    BY <1>1, <2>2, <2>4, <2>5 DEF RestTyped
  <2> QED
    BY <2>1, <2>2, <2>6 DEF IInv
<1>4. CASE AcceptNomem
  <2>1. Held(tls, conn', late', foreign', active_conns', oom')
    BY <1>4, NomemHeld
  <2>2. RestTyped' /\ tls' = tls
    BY <1>1, <1>4 DEF AcceptNomem, RestTyped
  <2> QED
    BY <2>1, <2>2 DEF IInv
<1>5. ASSUME NEW s \in Slots, RecvCqe(s) PROVE IInv'
  BY <1>1, <1>2, <1>5, RecvCqeHeld DEF RecvCqe, RestTyped
<1>6. ASSUME NEW s \in Slots, LateRecvCqe(s) PROVE IInv'
  BY <1>1, <1>2, <1>6, LateRecvCqeHeld DEF LateRecvCqe, RestTyped
<1>7. ASSUME NEW s \in Slots, SendCqe(s) PROVE IInv'
  BY <1>1, <1>2, <1>7, SendCqeHeld DEF SendCqe, RestTyped, hist
<1>8. ASSUME NEW s \in Slots, NEW dir \in {"POLLIN", "POLLOUT"}, PollCqe(s, dir) PROVE IInv'
  BY <1>1, <1>2, <1>8, PollCqeHeld DEF PollCqe, RestTyped
<1>9. CASE Timeout
  BY <1>1, <1>2, <1>9, TimeoutHeld DEF Timeout, RestTyped
<1>10. CASE Exit
  BY <1>1, <1>2, <1>10, ExitHeld DEF Exit, RestTyped, hist
<1>11. CASE UNCHANGED vars
  BY <1>1, <1>2, <1>11, HeldAt DEF vars, hist, RestTyped, HeldNow
<1> QED
  BY <1>3, <1>4, <1>5, <1>6, <1>7, <1>8, <1>9, <1>10, <1>11 DEF Next

\* So it holds for ever.
LEMMA LoopInvariant == Spec => []IInv
<1>1. IInv /\ [Next]_vars => IInv'
  BY NextInv
<1> QED
  BY <1>1, InitInv, PTL DEF Spec

\* The loop's state keeps its types, max_accepts and max_conns are respected, and
\* every handler's result has been dealt with when the next completion is taken.
THEOREM LoopIsTyped == Spec => []TypeOK
<1>1. IInv => TypeOK
  <2> SUFFICES ASSUME IInv PROVE TypeOK
    OBVIOUS
  <2>1. active_conns \in 0 .. MaxConns
    BY HeldAt, SlotsFinite DEF Counts
  <2>2. \A s \in Slots : conn[s].rc = "ok"
    BY HeldAt DEF Sound
  <2> QED
    BY <2>1, <2>2, HeldAt DEF TypeOK, IInv, RestTyped
<1> QED
  BY <1>1, LoopInvariant, PTL

\* recv_pending, send_pending and poll_pending keep a connection from having two
\* operations of a kind in flight, as long as it was given no completion of an
\* earlier connection of its slot.
THEOREM OneInFlightOfEach == Spec => []OneOfEach
<1>1. IInv => OneOfEach
  <2> SUFFICES ASSUME IInv, NEW s \in Slots, ~foreign[s]
               PROVE  /\ \A o \in Ops : conn[s].k[o] <= 1
                      /\ ~({"POLLIN", "POLLOUT"} \subseteq InFlight(s))
                      /\ "RECV" \in InFlight(s) => conn[s].rp
                      /\ "SEND" \in InFlight(s) <=> conn[s].sp
                      /\ {"POLLIN", "POLLOUT"} \cap InFlight(s) # {} <=> conn[s].pp
    BY DEF OneOfEach
  <2> DEFINE c == conn[s]
  <2>1. c \in Conn /\ c.k \in [Ops -> Nat] /\ Flags(tls, c, foreign[s])
    BY HeldAt DEF Sound, Conn
  <2> HIDE DEF c
  <2>2. /\ c.k["RECV"] \in Nat /\ c.k["SEND"] \in Nat /\ c.k["POLLIN"] \in Nat
        /\ c.k["POLLOUT"] \in Nat
        /\ c.k["RECV"] <= 1 /\ (c.k["RECV"] = 1 => c.rp)
        /\ c.k["SEND"] = IF c.sp THEN 1 ELSE 0
        /\ c.k["POLLIN"] + c.k["POLLOUT"] = IF c.pp THEN 1 ELSE 0
    BY <2>1 DEF Flags, Ops
  <2>3. \A o \in Ops : o \in InFlight(s) <=> c.k[o] > 0
    BY DEF InFlight, c
  <2>4. \A o \in Ops : c.k[o] <= 1
    BY <2>2 DEF Ops
  <2>5. ~({"POLLIN", "POLLOUT"} \subseteq InFlight(s))
    BY <2>2, <2>3 DEF Ops
  <2>6. ("RECV" \in InFlight(s) => c.rp) /\ ("SEND" \in InFlight(s) <=> c.sp)
    BY <2>1, <2>2, <2>3 DEF Ops
  <2>7. (c.k["POLLIN"] > 0 \/ c.k["POLLOUT"] > 0) <=> c.pp
    BY <2>2
  <2>8. {"POLLIN", "POLLOUT"} \cap InFlight(s) # {} <=> c.pp
    BY <2>3, <2>7 DEF Ops
  <2> QED
    BY <2>4, <2>5, <2>6, <2>8 DEF c
<1> QED
  BY <1>1, LoopInvariant, PTL

\* A connection that speaks HTTP always has exactly one operation in flight, whose
\* completion the loop will handle.
THEOREM HttpIsNeverForgotten == Spec => []HttpNeverForgotten
<1>1. IInv => HttpNeverForgotten
  <2> SUFFICES ASSUME IInv, NEW s \in Slots,
                      conn[s].st \in {"TLS_HS", "RECV", "SEND"}, conn[s].fd, ~foreign[s]
               PROVE  Cardinality(InFlight(s)) = 1
    BY DEF HttpNeverForgotten
  <2> DEFINE c == conn[s]
  <2>1. /\ c \in Conn /\ c.k \in [Ops -> Nat] /\ Flags(tls, c, foreign[s])
        /\ Armed(tls, c, foreign[s]) /\ c.st \in {"TLS_HS", "RECV", "SEND"} /\ c.fd
        /\ tls \in BOOLEAN
    BY HeldAt DEF Sound, Conn
  <2>2. InFlight(s) = {o \in Ops : c.k[o] > 0}
    BY DEF InFlight
  <2> HIDE DEF c
  <2>3. \E x \in Ops : c.k[x] = 1 /\ \A o \in Ops \ {x} : c.k[o] = 0
    <3>1. CASE tls = TRUE
      <4>1. /\ c.k["RECV"] = 0 /\ c.k["SEND"] = 0
            /\ c.k["POLLIN"] + c.k["POLLOUT"] = 1
            /\ c.k["POLLIN"] \in Nat /\ c.k["POLLOUT"] \in Nat
        BY <2>1, <3>1 DEF Flags, Armed, Ops
      <4>2. \/ c.k["POLLIN"] = 1 /\ c.k["POLLOUT"] = 0
            \/ c.k["POLLIN"] = 0 /\ c.k["POLLOUT"] = 1
        BY <4>1
      <4> QED
        BY <4>1, <4>2 DEF Ops
    <3>2. CASE tls = FALSE
      <4>1. /\ c.k["POLLIN"] + c.k["POLLOUT"] = 0 /\ c.st \in {"RECV", "SEND"}
            /\ c.k["POLLIN"] \in Nat /\ c.k["POLLOUT"] \in Nat
            /\ c.k["SEND"] = IF c.sp THEN 1 ELSE 0
        BY <2>1, <3>2 DEF Flags, Ops
      <4>2. c.k["POLLIN"] = 0 /\ c.k["POLLOUT"] = 0
        BY <4>1
      <4>3. \/ c.k["RECV"] = 1 /\ c.k["SEND"] = 0
            \/ c.k["RECV"] = 0 /\ c.k["SEND"] = 1
        BY <2>1, <3>2, <4>1 DEF Armed, SendStates
      <4> QED
        BY <4>2, <4>3 DEF Ops
    <3> QED
      BY <2>1, <3>1, <3>2
  <2>4. PICK x \in Ops : c.k[x] = 1 /\ \A o \in Ops \ {x} : c.k[o] = 0
    BY <2>3
  <2>5. InFlight(s) = {x}
    BY <2>2, <2>4
  <2> QED
    BY <2>5, FS_Singleton
<1> QED
  BY <1>1, LoopInvariant, PTL

\* The hub delivers to exactly the slots that speak WebSocket.
THEOREM SubscribedIsWs == Spec => []SubscribedIffWs
<1>1. IInv => SubscribedIffWs
  BY HeldAt DEF SubscribedIffWs, Sound, Shape, WsStates
<1> QED
  BY <1>1, LoopInvariant, PTL

\* active_conns is the number of open descriptors, whatever failed on the way.
THEOREM ActiveConnsIsExact == Spec => []ActiveConnsExact
<1>1. IInv => ActiveConnsExact
  BY HeldAt DEF ActiveConnsExact, Counts, Open, Lost
<1> QED
  BY <1>1, LoopInvariant, PTL

\* close_conn never leaves a send or a poll in flight.
THEOREM OnlyRecvsOutlive == Spec => []OnlyRecvOutlives
<1>1. IInv => OnlyRecvOutlives
  BY HeldAt DEF OnlyRecvOutlives, LateOk
<1> QED
  BY <1>1, LoopInvariant, PTL

\* On a plain listener a queued STATE_CHANGED message never waits for the timer, unless
\* the codec has just refused the one before it.
THEOREM QueuedIsSending == Spec => []QueuedMeansSending
<1>1. IInv => QueuedMeansSending
  BY HeldAt DEF QueuedMeansSending, Queued
<1> QED
  BY <1>1, LoopInvariant, PTL

\* Under TLS a WebSocket in WS_RECV has a poll in flight unless the codec has refused a
\* message it was to send.
THEOREM TlsWsListens == Spec => []TlsWsRecvListens
<1>1. IInv => TlsWsRecvListens
  <2> SUFFICES ASSUME IInv, tls, NEW s \in Slots, conn[s].st = "WS_RECV", ~conn[s].refused
               PROVE  Listening(s)
    BY DEF TlsWsRecvListens, WsRecvListens
  <2> DEFINE c == conn[s]
  <2>1. c.k \in [Ops -> Nat] /\ Flags(tls, c, foreign[s]) /\ c.pp
    BY HeldAt DEF Sound, Conn, Armed
  <2>2. c.k["POLLIN"] > 0 \/ c.k["POLLOUT"] > 0
    BY <2>1 DEF Flags, Ops
  <2>3. "POLLIN" \in InFlight(s) \/ "POLLOUT" \in InFlight(s)
    BY <2>2 DEF InFlight, Ops
  <2> QED
    BY <2>3 DEF Listening
<1> QED
  BY <1>1, LoopInvariant, PTL

-------------------------------------------------------------------------------
(* On a plain listener a WebSocket that does not listen never will *)

\* recv_pending is set although no recv is in flight, so submit_recv submits none.
Deaf(c) == c.st \in WsStates /\ c.rp /\ c.k["RECV"] = 0

\* A WebSocket that waits for frames believes that a recv is in flight, unless it came
\* to wait by refusing a message.
Hears(c) == c.st = "WS_RECV" /\ ~c.refused => c.rp

\* A message was taken: its frame is being sent, or it was refused.
Took(d) == d.st = "WS_SEND" \/ (d.st = "WS_RECV" /\ d.refused)

\* d has the recv of c, and c's state unless a message was taken.
SameRecv(c, d) ==
  /\ d.rp = c.rp /\ d.k["RECV"] = c.k["RECV"]
  /\ (d.st = c.st /\ d.refused = c.refused) \/ (c.st = "WS_RECV" /\ Took(d))

LEMMA SameRecvKeeps ==
  ASSUME NEW c, NEW d, SameRecv(c, d)
  PROVE  (Hears(c) => Hears(d)) /\ (Deaf(c) => Deaf(d))
BY DEF SameRecv, Took, Hears, Deaf, WsStates

\* Two steps of this kind make one.
LEMMA SameRecvTwice ==
  ASSUME NEW c, NEW d, NEW e, SameRecv(c, d), SameRecv(d, e)
  PROVE  SameRecv(c, e)
BY DEF SameRecv, Took

\* submit_recv leaves recv_pending set, whether or not it submits.
LEMMA RecvHears ==
  ASSUME tls = FALSE, NEW c \in Conn, ~c.pp, c.st \in {"RECV", "WS_RECV", "TLS_HS"}
  PROVE  submit_recv(c).st = c.st /\ submit_recv(c).rp /\ (c.rp => submit_recv(c) = c)
<1>1. CASE c.rp
  <2>1. submit_recv(c) = c
    BY <1>1 DEF submit_recv
  <2> QED
    BY <1>1, <2>1
<1>2. CASE ~c.rp
  <2> DEFINE d == [c EXCEPT !.rp = TRUE, !.k["RECV"] = @ + 1]
  <2>1. submit_recv(c) = d
    BY <1>2 DEF submit_recv
  <2>2. d.st = c.st /\ d.rp
    BY DEF Conn
  <2> HIDE DEF d
  <2> QED
    BY <1>2, <2>1, <2>2
<1> QED
  BY <1>1, <1>2

\* A plain submit_send does not touch the recv, nor the queue.
LEMMA SendSameRecv ==
  ASSUME tls = FALSE, NEW c \in Conn, NEW d \in submit_send(c)
  PROVE  d.st = c.st /\ d.rp = c.rp /\ d.k["RECV"] = c.k["RECV"] /\ d.pend = c.pend
<1> DEFINE m == [c.k EXCEPT !["SEND"] = c.k["SEND"] + 1]
           e == [c EXCEPT !.sp = TRUE, !.k = m]
<1>1. d = c \/ d = e
  BY DEF submit_send, Conn
<1>2. m["RECV"] = c.k["RECV"]
  BY DEF Conn, Ops
<1> HIDE DEF m
<1>3. e.st = c.st /\ e.rp = c.rp /\ e.k = m /\ e.pend = c.pend
  BY DEF Conn
<1> HIDE DEF e
<1> QED
  BY <1>1, <1>2, <1>3

LEMMA BeginSendSameRecv ==
  ASSUME tls = FALSE, NEW c \in Conn, NEW st \in SendStates, NEW d \in begin_send_buf(c, st)
  PROVE  d.st = st /\ d.rp = c.rp /\ d.k["RECV"] = c.k["RECV"] /\ d.pend = c.pend
<1> DEFINE e == [c EXCEPT !.st = st, !.refused = FALSE]
<1>1. e \in Conn
  BY DEF Conn, States, SendStates
<1>2. e.st = st /\ e.rp = c.rp /\ e.k = c.k /\ e.pend = c.pend
  BY DEF Conn
<1>3. d \in submit_send(e)
  BY DEF begin_send_buf
<1> HIDE DEF e
<1> QED
  BY <1>1, <1>2, <1>3, SendSameRecv

LEMMA TrySendSameRecv ==
  ASSUME tls = FALSE, NEW c \in Conn, c.st = "WS_RECV", NEW d \in ws_try_send_pending(c)
  PROVE  SameRecv(c, d) /\ (~c.sp /\ c.pend # 0 => Took(d) /\ d.pend = c.pend - 1)
<1>1. CASE c.sp \/ c.pend = 0
  BY <1>1 DEF ws_try_send_pending, SameRecv
<1>2. CASE ~(c.sp \/ c.pend = 0)
  <2> DEFINE e == Taken(c, 1)
  <2>1. c.pend \in 0 .. PendingMax /\ PendingMax \in Nat
    BY LoopAssumption DEF Conn
  <2>2. c.pend - 1 \in 0 .. PendingMax
    BY <1>2, <2>1
  <2>3. e = [c EXCEPT !.pend = c.pend - 1]
    BY DEF Taken
  <2>4. e \in Conn /\ e.rp = c.rp /\ e.k = c.k /\ e.pend = c.pend - 1
    BY <2>2, <2>3 DEF Conn
  <2>5. \/ d = [e EXCEPT !.st = "WS_RECV", !.refused = TRUE]
        \/ d \in begin_send_buf(e, "WS_SEND")
    BY <1>2 DEF ws_try_send_pending, Refused
  <2> HIDE DEF e
  <2>6. Took(d) /\ d.rp = e.rp /\ d.k["RECV"] = e.k["RECV"] /\ d.pend = e.pend
    <3>1. CASE d = [e EXCEPT !.st = "WS_RECV", !.refused = TRUE]
      BY <2>4, <3>1 DEF Took, Conn
    <3>2. CASE d \in begin_send_buf(e, "WS_SEND")
      BY <2>4, <3>2, BeginSendSameRecv DEF SendStates, Took
    <3> QED
      BY <2>5, <3>1, <3>2
  <2> QED
    BY <2>4, <2>6 DEF SameRecv
<1> QED
  BY <1>1, <1>2

\* A flush and a broadcast.
LEMMA FlushSameRecv ==
  ASSUME tls = FALSE, NEW cs \in [Slots -> Conn], NEW g \in ws_flush_all_pending(cs),
         NEW s \in Slots
  PROVE  SameRecv(cs[s], g[s])
<1> DEFINE W == {r \in Slots : cs[r].st = "WS_RECV" /\ cs[r].pend > 0}
<1>1. PICK h \in [W -> UNION {FlushOne(cs[r]) : r \in W}] :
        /\ \A r \in W : h[r] \in FlushOne(cs[r])
        /\ g = [r \in Slots |-> IF r \in W THEN h[r] ELSE cs[r]]
  BY DEF ws_flush_all_pending
<1>2. CASE s \notin W
  BY <1>1, <1>2 DEF SameRecv
<1>3. CASE s \in W
  <2> DEFINE c == cs[s]
  <2>1. g[s] \in FlushOne(c) /\ c \in Conn /\ c.st = "WS_RECV"
    BY <1>1, <1>3
  <2> HIDE DEF c
  <2>2. CASE ~c.sub
    <3>1. g[s] = c
      BY <2>1, <2>2 DEF FlushOne
    <3> QED
      BY <3>1 DEF SameRecv, c
  <2>3. CASE c.sub
    <3>1. PICK e \in ws_try_send_pending(c) : g[s] = [e EXCEPT !.rc = "ok"]
      BY <2>1, <2>3 DEF FlushOne
    <3>2. SameRecv(c, e)
      BY <2>1, <3>1, TrySendSameRecv
    <3>3. g[s].st = e.st /\ g[s].rp = e.rp /\ g[s].k = e.k /\ g[s].refused = e.refused
      BY <3>1
    <3> QED
      BY <3>2, <3>3 DEF SameRecv, Took, c
  <2> QED
    BY <2>2, <2>3
<1> QED
  BY <1>2, <1>3

LEMMA BroadcastSameRecv ==
  ASSUME NEW cs \in [Slots -> Conn], NEW s \in Slots
  PROVE  SameRecv(cs[s], broadcast(cs)[s]) /\ broadcast(cs)[s] \in Conn
<1> DEFINE c == cs[s]
           n == IF c.pend < PendingMax THEN c.pend + 1 ELSE c.pend
           d == [c EXCEPT !.pend = n]
<1>1. broadcast(cs)[s] = IF c.sub THEN d ELSE c
  BY DEF broadcast
<1>2. c \in Conn /\ n \in 0 .. PendingMax
  BY LoopAssumption DEF Conn
<1> HIDE DEF c, n
<1>3. d \in Conn /\ d.st = c.st /\ d.rp = c.rp /\ d.k = c.k /\ d.refused = c.refused
  BY <1>2 DEF Conn
<1> HIDE DEF d
<1> QED
  BY <1>1, <1>2, <1>3 DEF SameRecv, c

\* handle_send_complete: a connection that goes back to WS_RECV calls submit_recv,
\* which believes recv_pending.
LEMMA SendCompleteHears ==
  ASSUME tls = FALSE, NEW c \in Conn, ~c.pp, ~c.sp, NEW d \in handle_send_complete(c),
         d.rc = "ok"
  PROVE  Hears(d) /\ (Deaf(c) => Deaf(d))
<1>1. c.pend \in Nat
  BY LoopAssumption DEF Conn
<1>2. CASE c.st = "SEND" /\ c.kw
  <2> DEFINE e == [c EXCEPT !.sub = TRUE, !.kw = FALSE, !.st = "WS_RECV"]
  <2>1. e \in Conn /\ e.st = "WS_RECV" /\ ~e.pp
    BY DEF Conn, States
  <2>2. d = submit_recv(e)
    BY <1>2 DEF handle_send_complete, promote_to_ws
  <2> HIDE DEF e
  <2>3. d.rp
    BY <2>1, <2>2, RecvHears
  <2> QED
    BY <1>2, <2>3 DEF Hears, Deaf, WsStates
<1>3. CASE c.st = "WS_SEND"
  <2> DEFINE e == [c EXCEPT !.st = "WS_RECV"]
  <2>1. /\ e \in Conn /\ e.st = "WS_RECV" /\ ~e.pp /\ ~e.sp /\ e.pend = c.pend
        /\ e.rp = c.rp /\ e.k = c.k
    BY DEF Conn, States
  <2>2. IF c.pend > 0 THEN d \in ws_try_send_pending(e) ELSE d = submit_recv(e)
    BY <1>3 DEF handle_send_complete, WsIdle
  <2> HIDE DEF e
  <2>3. CASE c.pend > 0
    <3>1. d \in ws_try_send_pending(e)
      BY <2>2, <2>3
    <3>2. SameRecv(e, d) /\ (~e.sp /\ e.pend # 0 => Took(d))
      BY <2>1, <3>1, TrySendSameRecv
    <3>3. Took(d)
      BY <1>1, <2>1, <2>3, <3>2
    <3> QED
      BY <2>1, <3>2, <3>3 DEF SameRecv, Took, Hears, Deaf, WsStates
  <2>4. CASE ~(c.pend > 0)
    <3>1. d = submit_recv(e)
      BY <2>2, <2>4
    <3>2. d.st = "WS_RECV" /\ d.rp /\ (e.rp => d = e)
      BY <2>1, <3>1, RecvHears
    <3> QED
      BY <2>1, <3>2 DEF Hears, Deaf, WsStates
  <2> QED
    BY <2>3, <2>4
<1>4. CASE ~(c.st = "SEND" /\ c.kw) /\ c.st # "WS_SEND"
  <2>1. d = Close(c)
    BY <1>4 DEF handle_send_complete
  <2>2. d.rc = "closed"
    BY <2>1 DEF Close, Conn
  <2> QED
    BY <2>2
<1> QED
  BY <1>2, <1>3, <1>4

\* What a completion of slot r's connection c leaves in the slot.
Left(c, d) == d = FreeConn \/ Hears(d)

\* Settle concerns one slot.
LEMMA SettleOne ==
  ASSUME conn \in [Slots -> Conn], NEW r \in Slots, NEW c, NEW L, NEW F, Settle(r, c, L, F)
  PROVE  /\ conn'[r] = IF c.rc = "ok" THEN c ELSE FreeConn
         /\ \A s \in Slots : s # r => conn'[s] = conn[s]
BY DEF Settle, close_conn

LEMMA RecvWsHears ==
  ASSUME tls = FALSE, conn \in [Slots -> Conn], NEW r \in Slots, NEW c \in Conn, NEW L, NEW F,
         ~c.pp, RecvWs(r, c, L, F)
  PROVE  Left(c, conn'[r]) /\ \A s \in Slots : s # r => conn'[s] = conn[s]
<1>1. c.st = "WS_RECV"
  BY DEF RecvWs
<1>2. PICK d \in {Fail(c)} \cup handle_ws_recv(c) : Settle(r, d, L, F)
  BY DEF RecvWs
<1>3. CASE d = Fail(c)
  <2>1. d.rc = "err"
    BY <1>3 DEF Fail, Conn
  <2> QED
    BY <1>2, <2>1, SettleOne DEF Left
<1>4. CASE d = submit_recv(c)
  <2>1. d.rp
    BY <1>1, <1>4, RecvHears
  <2> QED
    BY <1>2, <2>1, SettleOne DEF Left, Hears
<1>5. ASSUME NEW e \in begin_send_buf(c, "WS_SEND"), d = Rearm(e)
      PROVE  Left(c, conn'[r]) /\ \A s \in Slots : s # r => conn'[s] = conn[s]
  <2>1. e.st = "WS_SEND"
    BY BeginSendSameRecv DEF SendStates
  <2>2. d = e
    BY <1>5, <2>1 DEF Rearm, submit_recv
  <2> QED
    BY <1>2, <2>1, <2>2, SettleOne DEF Left, Hears
<1> QED
  BY <1>2, <1>3, <1>4, <1>5 DEF handle_ws_recv

LEMMA RecvHttpHears ==
  ASSUME tls = FALSE, conn \in [Slots -> Conn], NEW r \in Slots, NEW c \in Conn, NEW L, NEW F,
         ~c.pp, RecvHttp(r, c, L, F)
  PROVE  Left(c, conn'[r]) /\ \A s \in Slots : s # r => conn'[s] = conn[s]
<1>1. c.st = "RECV"
  BY DEF RecvHttp
<1>2. PICK d \in {Fail(c), HttpMore(c)} \cup begin_bad_request_plain(c) : Settle(r, d, L, F)
  BY DEF RecvHttp
<1>3. CASE d = Fail(c)
  <2>1. d.rc = "err"
    BY <1>3 DEF Fail, Conn
  <2> QED
    BY <1>2, <2>1, SettleOne DEF Left
<1>4. CASE d = submit_recv(c)
  <2>1. d.rp
    BY <1>1, <1>4, RecvHears
  <2> QED
    BY <1>2, <2>1, SettleOne DEF Left, Hears
<1>5. CASE d \in begin_send_buf(c, "SEND")
  <2>1. d.st = "SEND"
    BY <1>5, BeginSendSameRecv DEF SendStates
  <2> QED
    BY <1>2, <2>1, SettleOne DEF Left, Hears
<1> QED
  BY <1>2, <1>3, <1>4, <1>5 DEF HttpMore, begin_bad_request_plain

\* A request whose response starts; the flush reaches the other connections.
LEMMA RecvRequestHears ==
  ASSUME tls = FALSE, conn \in [Slots -> Conn], NEW r \in Slots, NEW c \in Conn, NEW L, NEW F,
         RecvRequest(r, c, L, F)
  PROVE  Left(c, conn'[r]) /\ \A s \in Slots : s # r => SameRecv(conn[s], conn'[s])
<1>1. PICK keep_ws \in BOOLEAN, changed \in BOOLEAN :
        \E d \in HttpResponds(c, keep_ws) :
          LET cs == [IF changed THEN broadcast(conn) ELSE conn EXCEPT
                       ![r] = IF d.rc = "ok" THEN d ELSE FreeConn]
          IN conn' = cs \/ conn' \in ws_flush_all_pending(cs)
  BY DEF RecvRequest
<1> DEFINE base == IF changed THEN broadcast(conn) ELSE conn
<1>2. PICK d \in HttpResponds(c, keep_ws) :
        \/ conn' = [base EXCEPT ![r] = IF d.rc = "ok" THEN d ELSE FreeConn]
        \/ conn' \in ws_flush_all_pending([base EXCEPT ![r] = IF d.rc = "ok" THEN d ELSE FreeConn])
  BY <1>1
<1>3. base \in [Slots -> Conn] /\ \A s \in Slots : SameRecv(conn[s], base[s])
  <2>1. broadcast(conn) = [s \in Slots |-> broadcast(conn)[s]]
    BY DEF broadcast
  <2>2. \A s \in Slots : SameRecv(conn[s], broadcast(conn)[s]) /\ broadcast(conn)[s] \in Conn
    BY BroadcastSameRecv
  <2>3. \A s \in Slots : SameRecv(conn[s], conn[s])
    BY DEF SameRecv
  <2> QED
    BY <2>1, <2>2, <2>3
<1> HIDE DEF base
<1>4. d \in Conn /\ d.st = "SEND"
  <2> DEFINE e == [c EXCEPT !.kw = keep_ws]
  <2>1. e \in Conn
    BY DEF Conn
  <2>2. d \in begin_send_buf(e, "SEND")
    BY <1>2 DEF HttpResponds
  <2> HIDE DEF e
  <2>3. d.st = "SEND"
    BY <2>1, <2>2, BeginSendSameRecv DEF SendStates
  <2>4. d \in Conn
    <3> DEFINE g == [e EXCEPT !.st = "SEND", !.refused = FALSE]
               m == [g.k EXCEPT !["SEND"] = g.k["SEND"] + 1]
    <3>1. g \in Conn
      BY <2>1 DEF Conn, States
    <3>2. d \in submit_send(g)
      BY <2>2 DEF begin_send_buf
    <3> HIDE DEF g
    <3>3. m \in [Ops -> Nat]
      BY <3>1 DEF Conn, Ops
    <3>4. d = g \/ d = [g EXCEPT !.sp = TRUE, !.k = m]
      BY <3>1, <3>2 DEF submit_send, Conn
    <3> HIDE DEF m
    <3> QED
      BY <3>1, <3>3, <3>4 DEF Conn
  <2> QED
    BY <2>3, <2>4
<1> DEFINE x == IF d.rc = "ok" THEN d ELSE FreeConn
           cs == [base EXCEPT ![r] = x]
<1>5. x \in Conn /\ x.st \in {"SEND", "FREE"}
  BY <1>4, FreeSound DEF FreeConn
<1> HIDE DEF x
<1>6. /\ cs \in [Slots -> Conn] /\ cs[r] = x
      /\ \A s \in Slots : s # r => cs[s] = base[s]
  BY <1>3, <1>5
<1>7. conn' = cs \/ conn' \in ws_flush_all_pending(cs)
  BY <1>2 DEF x
<1> HIDE DEF cs
<1>8. \A s \in Slots : SameRecv(cs[s], conn'[s])
  <2>1. CASE conn' = cs
    BY <2>1 DEF SameRecv
  <2>2. CASE conn' \in ws_flush_all_pending(cs)
    BY <1>6, <2>2, FlushSameRecv
  <2> QED
    BY <1>7, <2>1, <2>2
<1>9. Hears(conn'[r])
  BY <1>5, <1>6, <1>8 DEF SameRecv, Hears
<1>10. \A s \in Slots : s # r => SameRecv(conn[s], conn'[s])
  BY <1>3, <1>6, <1>8, SameRecvTwice
<1> QED
  BY <1>9, <1>10 DEF Left

LEMMA OnRecvHears ==
  ASSUME tls = FALSE, conn \in [Slots -> Conn], NEW r \in Slots, NEW c \in Conn, NEW L, NEW F,
         ~c.pp, OnRecv(r, c, L, F)
  PROVE  Left(c, conn'[r]) /\ \A s \in Slots : s # r => SameRecv(conn[s], conn'[s])
<1> DEFINE e == [c EXCEPT !.rp = FALSE]
<1>1. e \in Conn /\ ~e.pp
  BY DEF Conn
<1>2. \/ RecvWs(r, e, L, F) \/ RecvHttp(r, e, L, F) \/ RecvRequest(r, e, L, F)
      \/ RecvDropped(r, c, L, F)
  BY DEF OnRecv
<1> HIDE DEF e
<1>3. (\A s \in Slots : s # r => conn'[s] = conn[s])
        => \A s \in Slots : s # r => SameRecv(conn[s], conn'[s])
  BY DEF SameRecv
<1>4. CASE RecvWs(r, e, L, F)
  BY <1>1, <1>3, <1>4, RecvWsHears DEF Left
<1>5. CASE RecvHttp(r, e, L, F)
  BY <1>1, <1>3, <1>5, RecvHttpHears DEF Left
<1>6. CASE RecvRequest(r, e, L, F)
  BY <1>1, <1>6, RecvRequestHears DEF Left
<1>7. CASE RecvDropped(r, c, L, F)
  <2>1. c.st # "WS_RECV" /\ Settle(r, c, L, F)
    BY <1>7 DEF RecvDropped
  <2> QED
    BY <1>3, <2>1, SettleOne DEF Left, Hears
<1> QED
  BY <1>2, <1>4, <1>5, <1>6, <1>7

\* What a step may do to a slot of a plain listener.
Stays(s) ==
  /\ Hears(conn[s]) => Hears(conn'[s])
  /\ Deaf(conn[s]) => Deaf(conn'[s]) \/ conn'[s] = FreeConn \/ LateRecvCqe(s)

LEMMA StaysDeaf ==
  ASSUME IInv, tls = FALSE, [Next]_vars, NEW s \in Slots
  PROVE  Stays(s)
<1>0. conn \in [Slots -> Conn] /\ \A r \in Slots : ~conn[r].pp
  BY HeldAt DEF Sound, Flags
<1>1. Hears(FreeConn)
  BY DEF Hears, FreeConn
<1>2. SameRecv(conn[s], conn'[s]) => Stays(s)
  BY SameRecvKeeps DEF Stays
<1>3. conn'[s] = conn[s] => Stays(s)
  BY DEF Stays
<1>4. CASE AcceptOne
  <2> DEFINE r == Min(Free)
             c == [FreeConn EXCEPT !.fd = TRUE, !.st = "TLS_HS"]
             g == [c EXCEPT !.st = "RECV"]
  <2>1. conn' = [conn EXCEPT ![r] = submit_recv(g)] /\ Free # {}
    BY <1>4 DEF AcceptOne
  <2>2. r \in Slots /\ conn[r].st = "FREE"
    BY <2>1, FreeEntry
  <2>3. g.st = "RECV" /\ g \in Conn /\ ~g.pp
    BY FreeSound DEF Conn, FreeConn, States
  <2> HIDE DEF r, g
  <2>4. submit_recv(g).st = "RECV"
    BY <2>3, RecvHears
  <2>5. CASE s = r
    <3>1. conn'[s].st = "RECV"
      BY <1>0, <2>1, <2>2, <2>4, <2>5
    <3> QED
      BY <2>2, <2>5, <3>1 DEF Stays, Hears, Deaf, WsStates
  <2>6. CASE s # r
    BY <1>0, <1>3, <2>1, <2>6
  <2> QED
    BY <2>5, <2>6
<1>5. CASE AcceptNomem
  <2> DEFINE r == Min(Free)
  <2>1. conn' = [conn EXCEPT ![r].st = "RECV"] /\ Free # {}
    BY <1>5 DEF AcceptNomem
  <2>2. r \in Slots /\ conn[r].st = "FREE"
    BY <2>1, FreeEntry
  <2> HIDE DEF r
  <2>3. CASE s = r
    <3>1. conn'[s].st = "RECV"
      BY <1>0, <2>1, <2>2, <2>3 DEF Conn
    <3> QED
      BY <2>2, <2>3, <3>1 DEF Stays, Hears, Deaf, WsStates
  <2>4. CASE s # r
    BY <1>0, <1>3, <2>1, <2>4
  <2> QED
    BY <2>3, <2>4
<1>6. ASSUME NEW r \in Slots, RecvCqe(r) PROVE Stays(s)
  <2> DEFINE c == Reaped(r, "RECV")
  <2>1. conn[r].k["RECV"] > 0 /\ OnRecv(r, c, late, foreign) /\ "RECV" \in Ops
    BY <1>6 DEF RecvCqe, Ops
  <2>2. c \in Conn /\ ~c.pp
    BY <1>0, <2>1, ReapedFields
  <2> HIDE DEF c
  <2>3. Left(c, conn'[r]) /\ \A t \in Slots : t # r => SameRecv(conn[t], conn'[t])
    BY <1>0, <2>1, <2>2, OnRecvHears
  <2>4. CASE s = r
    BY <1>1, <2>1, <2>3, <2>4 DEF Left, Stays, Deaf
  <2> QED
    BY <1>2, <2>3, <2>4
<1>7. ASSUME NEW r \in Slots, LateRecvCqe(r) PROVE Stays(s)
  <2> DEFINE L == [late EXCEPT ![r]["RECV"] = @ - 1]
             F == [foreign EXCEPT ![r] = TRUE]
  <2>1. conn' = conn \/ OnRecv(r, conn[r], L, F)
    BY <1>7 DEF LateRecvCqe
  <2> HIDE DEF L, F
  <2>2. CASE OnRecv(r, conn[r], L, F)
    <3>1. Left(conn[r], conn'[r]) /\ \A t \in Slots : t # r => SameRecv(conn[t], conn'[t])
      BY <1>0, <2>2, OnRecvHears
    <3>2. CASE s = r
      BY <1>1, <1>7, <3>1, <3>2 DEF Left, Stays
    <3> QED
      BY <1>2, <3>1, <3>2
  <2> QED
    BY <1>3, <2>1, <2>2
<1>8. ASSUME NEW r \in Slots, SendCqe(r) PROVE Stays(s)
  <2> DEFINE b == Reaped(r, "SEND")
             c == [b EXCEPT !.sp = FALSE]
  <2>1. conn[r].k["SEND"] > 0 /\ "SEND" \in Ops
    BY <1>8 DEF SendCqe, Ops
  <2>2. PICK d \in {Fail(c)} \cup handle_send_complete(c) : Settle(r, d, late, foreign)
    BY <1>8 DEF SendCqe
  <2>3. /\ b \in Conn /\ ~b.pp /\ b.st = conn[r].st /\ b.rp = conn[r].rp
        /\ b.k = [conn[r].k EXCEPT !["SEND"] = conn[r].k["SEND"] - 1]
    BY <1>0, <2>1, ReapedFields
  <2>4. b.k["RECV"] = conn[r].k["RECV"]
    BY <1>0, <2>3 DEF Conn, Ops
  <2> HIDE DEF b
  <2>5. c \in Conn /\ ~c.pp /\ ~c.sp /\ c.st = b.st /\ c.rp = b.rp /\ c.k = b.k
    BY <2>3 DEF Conn
  <2> HIDE DEF c
  <2>6. /\ conn'[r] = IF d.rc = "ok" THEN d ELSE FreeConn
        /\ \A t \in Slots : t # r => conn'[t] = conn[t]
    BY <1>0, <2>2, SettleOne
  <2>7. CASE s = r
    <3>1. Deaf(conn[s]) => Deaf(c)
      BY <2>3, <2>4, <2>5, <2>7 DEF Deaf
    <3>2. CASE d.rc # "ok"
      BY <1>1, <2>6, <2>7, <3>2 DEF Stays
    <3>3. CASE d.rc = "ok"
      <4>1. d \in handle_send_complete(c)
        BY <2>2, <2>5, <3>3 DEF Fail, Conn
      <4>2. Hears(d) /\ (Deaf(c) => Deaf(d))
        BY <2>5, <3>3, <4>1, SendCompleteHears
      <4> QED
        BY <2>6, <2>7, <3>1, <3>3, <4>2 DEF Stays
    <3> QED
      BY <3>2, <3>3
  <2> QED
    BY <1>3, <2>6, <2>7
<1>9. ASSUME NEW r \in Slots, NEW dir \in {"POLLIN", "POLLOUT"}, PollCqe(r, dir) PROVE FALSE
  <2>1. conn[r].k[dir] > 0
    BY <1>9 DEF PollCqe
  <2>2. conn[r].k \in [Ops -> Nat] /\ conn[r].k["POLLIN"] + conn[r].k["POLLOUT"] = 0
    BY <1>0, HeldAt DEF Sound, Flags, Conn
  <2> QED
    BY <2>1, <2>2 DEF Ops
<1>10. CASE Timeout
  <2>1. PICK g \in ws_flush_all_pending(conn) :
          conn' = g \/ conn' \in ws_flush_all_pending(broadcast(g))
    BY <1>10 DEF Timeout
  <2>2. SameRecv(conn[s], g[s])
    BY <1>0, <2>1, FlushSameRecv
  <2>3. CASE conn' \in ws_flush_all_pending(broadcast(g))
    <3>1. g \in [Slots -> Conn]
      BY <2>1, HeldAt, FlushKept
    <3>2. SameRecv(g[s], broadcast(g)[s])
      BY <3>1, BroadcastSameRecv
    <3>3. broadcast(g) \in [Slots -> Conn]
      <4>1. broadcast(g) = [t \in Slots |-> broadcast(g)[t]]
        BY DEF broadcast
      <4>2. \A t \in Slots : broadcast(g)[t] \in Conn
        BY <3>1, BroadcastSameRecv
      <4> QED
        BY <4>1, <4>2
    <3>4. SameRecv(broadcast(g)[s], conn'[s])
      BY <2>3, <3>3, FlushSameRecv
    <3>5. SameRecv(conn[s], broadcast(g)[s])
      BY <2>2, <3>2, SameRecvTwice
    <3>6. SameRecv(conn[s], conn'[s])
      BY <3>4, <3>5, SameRecvTwice
    <3> QED
      BY <1>2, <3>6
  <2> QED
    BY <1>2, <2>1, <2>2, <2>3
<1>11. CASE Exit
  <2>1. conn'[s] = FreeConn
    BY <1>11 DEF Exit
  <2> QED
    BY <1>1, <2>1 DEF Stays
<1>12. CASE UNCHANGED vars
  BY <1>3, <1>12 DEF vars
<1> QED
  BY <1>4, <1>5, <1>6, <1>7, <1>8, <1>9, <1>10, <1>11, <1>12 DEF Next

\* The listener's kind is settled at startup.
LEMMA KindIsFixed == [Next]_vars => tls' = tls
BY DEF Next, vars, AcceptOne, AcceptNomem, RecvCqe, LateRecvCqe, SendCqe, PollCqe, Timeout, Exit

HearsInv == tls = FALSE => \A s \in Slots : Hears(conn[s])

\* On a plain listener a WebSocket that waits for frames has a recv in flight, or it has
\* recv_pending set without one since RecvDropped threw its recv away, or it waits since
\* the codec refused a message it was to send: there is no third way to stop listening.
THEOREM OnlyDropsAndRefusalsDeafen ==
  Spec => [](~tls => \A s \in Slots :
               conn[s].st = "WS_RECV"
                 => "RECV" \in InFlight(s) \/ Deaf(conn[s]) \/ conn[s].refused)
<1>1. Init => HearsInv
  BY DEF Init, HearsInv, Hears, FreeConn
<1>2. IInv /\ HearsInv /\ [Next]_vars => HearsInv'
  <2> SUFFICES ASSUME IInv, HearsInv, [Next]_vars, tls' = FALSE, NEW s \in Slots
               PROVE  Hears(conn'[s])
    BY DEF HearsInv, Hears
  <2>1. tls = FALSE
    BY KindIsFixed
  <2>2. Hears(conn[s]) /\ Stays(s)
    BY <2>1, StaysDeaf DEF HearsInv
  <2> QED
    BY <2>2 DEF Stays
<1>3. IInv /\ HearsInv
        => (~tls => \A s \in Slots :
              conn[s].st = "WS_RECV"
                => "RECV" \in InFlight(s) \/ Deaf(conn[s]) \/ conn[s].refused)
  <2> SUFFICES ASSUME IInv, HearsInv, ~tls, NEW s \in Slots, conn[s].st = "WS_RECV",
                      "RECV" \notin InFlight(s), ~conn[s].refused
               PROVE  Deaf(conn[s])
    OBVIOUS
  <2>1. tls = FALSE /\ conn[s] \in Conn
    BY HeldAt
  <2>2. conn[s].rp
    BY <2>1 DEF HearsInv, Hears
  <2>3. conn[s].k["RECV"] \in Nat
    BY <2>1 DEF Conn, Ops
  <2>4. conn[s].k["RECV"] = 0
    BY <2>3 DEF InFlight, Ops
  <2> QED
    BY <2>2, <2>4 DEF Deaf, WsStates
<1>4. Init => IInv
  BY InitInv
<1>5. IInv /\ [Next]_vars => IInv'
  BY NextInv
<1> QED
  BY <1>1, <1>2, <1>3, <1>4, <1>5, PTL DEF Spec

\* "The connection never receives again": no step of the loop makes a deaf WebSocket
\* listen.  It stays deaf until it is closed, by a send that fails or at the end of the
\* loop, or until the recv of an earlier connection of its slot is taken for its own.
THEOREM DeafnessLasts ==
  Spec => [][~tls => \A s \in Slots :
               Deaf(conn[s]) => Deaf(conn'[s]) \/ conn'[s] = FreeConn \/ LateRecvCqe(s)]_vars
<1>1. IInv /\ [Next]_vars
        => [~tls => \A s \in Slots :
              Deaf(conn[s]) => Deaf(conn'[s]) \/ conn'[s] = FreeConn \/ LateRecvCqe(s)]_vars
  <2> SUFFICES ASSUME IInv, [Next]_vars, ~tls, NEW s \in Slots PROVE Stays(s)
    BY DEF Stays
  <2>1. tls = FALSE
    BY HeldAt
  <2> QED
    BY <2>1, StaysDeaf
<1> QED
  BY <1>1, LoopInvariant, PTL DEF Spec

-------------------------------------------------------------------------------
(* On a plain listener what is to be sent is in the kernel, and comes to an end *)

\* On a plain listener every connection in a SEND state has a send in flight, one that was
\* given another's recv included: begin_send_buf never finds send_pending set, so it never
\* leaves a frame in send_buf behind a flag.  (Over TLS it does: FanoutSent is refuted.)
THEOREM FramesAreSubmitted ==
  Spec => [](~tls => \A s \in Slots : conn[s].st \in SendStates => "SEND" \in InFlight(s))
<1>1. IInv => (~tls => \A s \in Slots : conn[s].st \in SendStates => "SEND" \in InFlight(s))
  <2> SUFFICES ASSUME IInv, ~tls, NEW s \in Slots, conn[s].st \in SendStates
               PROVE  "SEND" \in InFlight(s)
    OBVIOUS
  <2>1. Sound(tls, conn[s], foreign[s])
    BY HeldAt
  <2>2. conn[s].sp
    BY <2>1 DEF Sound, Armed
  <2>3. conn[s].k["SEND"] = 1
    BY <2>1, <2>2 DEF Sound, Flags
  <2> QED
    BY <2>3 DEF InFlight, Ops
<1> QED
  BY <1>1, LoopInvariant, PTL

\* The work of a WebSocket that is sending does not grow unless something is broadcast.
Shrinks(s) ==
  \/ conn'[s].st # "WS_SEND" \/ conn'[s].pend <= conn[s].pend
  \/ notified' > notified

LEMMA SendCompleteShrinks ==
  ASSUME tls = FALSE, NEW c \in Conn, c.st = "WS_SEND", ~c.pp, ~c.sp,
         NEW d \in handle_send_complete(c)
  PROVE  d.st # "WS_SEND" \/ d.pend < c.pend
<1> DEFINE e == [c EXCEPT !.st = "WS_RECV"]
<1>1. e \in Conn /\ e.st = "WS_RECV" /\ ~e.pp /\ ~e.sp /\ e.pend = c.pend
  BY DEF Conn, States
<1>2. c.pend \in Nat
  BY LoopAssumption DEF Conn
<1>3. IF c.pend > 0 THEN d \in ws_try_send_pending(e) ELSE d = submit_recv(e)
  BY DEF handle_send_complete, WsIdle
<1> HIDE DEF e
<1>4. CASE c.pend > 0
  <2>1. d \in ws_try_send_pending(e)
    BY <1>3, <1>4
  <2>2. ~e.sp /\ e.pend # 0 => d.pend = e.pend - 1
    BY <1>1, <2>1, TrySendSameRecv
  <2> QED
    BY <1>1, <1>2, <1>4, <2>2
<1>5. CASE ~(c.pend > 0)
  <2>1. d = submit_recv(e)
    BY <1>3, <1>5
  <2> QED
    BY <1>1, <2>1, RecvHears
<1> QED
  BY <1>4, <1>5

\* The kernel's completion of a send takes the next message or ends the sending.
LEMMA SendCqeShrinks ==
  ASSUME IInv, tls = FALSE, NEW s \in Slots, SendCqe(s), conn[s].st = "WS_SEND"
  PROVE  conn'[s].st # "WS_SEND" \/ conn'[s].pend < conn[s].pend
<1> DEFINE b == Reaped(s, "SEND")
           c == [b EXCEPT !.sp = FALSE]
<1>1. conn \in [Slots -> Conn] /\ conn[s].k["SEND"] > 0 /\ "SEND" \in Ops /\ ~conn[s].pp
  BY HeldAt DEF SendCqe, Ops, Sound, Flags
<1>2. PICK d \in {Fail(c)} \cup handle_send_complete(c) : Settle(s, d, late, foreign)
  BY DEF SendCqe
<1>3. b \in Conn /\ ~b.pp /\ b.st = conn[s].st /\ b.pend = conn[s].pend
  BY <1>1, ReapedFields
<1> HIDE DEF b
<1>4. c \in Conn /\ ~c.pp /\ ~c.sp /\ c.st = "WS_SEND" /\ c.pend = conn[s].pend
  BY <1>3 DEF Conn
<1> HIDE DEF c
<1>5. conn'[s] = IF d.rc = "ok" THEN d ELSE FreeConn
  BY <1>1, <1>2, SettleOne
<1>6. CASE d.rc # "ok"
  BY <1>5, <1>6 DEF FreeConn
<1>7. CASE d.rc = "ok"
  <2>1. d \in handle_send_complete(c)
    BY <1>2, <1>4, <1>7 DEF Fail, Conn
  <2> QED
    BY <1>4, <1>5, <1>7, <2>1, SendCompleteShrinks
<1> QED
  BY <1>6, <1>7

\* A flush leaves alone who is sending.
LEMMA FlushLeavesSending ==
  ASSUME NEW cs, NEW g \in ws_flush_all_pending(cs), NEW s \in Slots, cs[s].st = "WS_SEND"
  PROVE  g[s] = cs[s]
BY DEF ws_flush_all_pending

LEMMA OnRecvShrinks ==
  ASSUME IInv, NEW s \in Slots, conn[s].st = "WS_SEND", NEW r \in Slots, NEW c \in Conn,
         NEW L, NEW F, c.st = conn[r].st, c.pend = conn[r].pend, OnRecv(r, c, L, F)
  PROVE  Shrinks(s)
<1> DEFINE e == [c EXCEPT !.rp = FALSE]
<1>1. /\ conn \in [Slots -> Conn] /\ conn[s].pend \in Nat /\ conn[s].pend <= conn[s].pend
      /\ notified \in Nat
  BY HeldAt, LoopAssumption DEF Conn
<1>2. \/ RecvWs(r, e, L, F) \/ RecvHttp(r, e, L, F) \/ RecvRequest(r, e, L, F)
      \/ RecvDropped(r, c, L, F)
  BY DEF OnRecv
<1>3. e.st = conn[r].st
  BY DEF Conn
<1> HIDE DEF e
<1>4. conn'[s] = conn[s] => Shrinks(s)
  BY <1>1 DEF Shrinks
<1>5. CASE RecvWs(r, e, L, F) \/ RecvHttp(r, e, L, F)
  <2>1. s # r
    BY <1>3, <1>5 DEF RecvWs, RecvHttp
  <2>2. \E d : Settle(r, d, L, F)
    BY <1>5 DEF RecvWs, RecvHttp
  <2> QED
    BY <1>1, <1>4, <2>1, <2>2, SettleOne
<1>6. CASE RecvRequest(r, e, L, F)
  <2>1. s # r
    BY <1>3, <1>6 DEF RecvRequest
  <2>2. PICK changed \in BOOLEAN : \E x :
          LET cs == [IF changed THEN broadcast(conn) ELSE conn EXCEPT ![r] = x]
          IN  /\ notified' = notified + IF changed THEN 1 ELSE 0
              /\ conn' = cs \/ conn' \in ws_flush_all_pending(cs)
    BY <1>6 DEF RecvRequest
  <2>3. CASE changed
    BY <1>1, <2>2, <2>3 DEF Shrinks
  <2>4. CASE ~changed
    <3>0. PICK x : LET cs == [conn EXCEPT ![r] = x]
                   IN  conn' = cs \/ conn' \in ws_flush_all_pending(cs)
      BY <2>2, <2>4
    <3> DEFINE cs == [conn EXCEPT ![r] = x]
    <3>1. cs[s] = conn[s]
      BY <1>1, <2>1
    <3>2. conn' = cs \/ conn' \in ws_flush_all_pending(cs)
      BY <3>0
    <3> HIDE DEF cs
    <3>3. conn'[s] = conn[s]
      BY <3>1, <3>2, FlushLeavesSending
    <3> QED
      BY <1>4, <3>3
  <2> QED
    BY <2>3, <2>4
<1>7. CASE RecvDropped(r, c, L, F)
  <2>1. /\ conn'[r] = IF c.rc = "ok" THEN c ELSE FreeConn
        /\ \A t \in Slots : t # r => conn'[t] = conn[t]
    BY <1>1, <1>7, SettleOne DEF RecvDropped
  <2>2. CASE s = r
    BY <1>1, <2>1, <2>2 DEF Shrinks, FreeConn
  <2>3. CASE s # r
    BY <1>4, <2>1, <2>3
  <2> QED
    BY <2>2, <2>3
<1> QED
  BY <1>2, <1>5, <1>6, <1>7

LEMMA NextShrinks ==
  ASSUME IInv, tls = FALSE, [Next]_vars, NEW s \in Slots, conn[s].st = "WS_SEND"
  PROVE  Shrinks(s)
<1>1. /\ conn \in [Slots -> Conn] /\ conn[s].pend \in Nat /\ conn[s].pend <= conn[s].pend
      /\ notified \in Nat
  BY HeldAt, LoopAssumption DEF Conn
<1>2. conn'[s] = conn[s] => Shrinks(s)
  BY <1>1 DEF Shrinks
<1>3. CASE AcceptOne \/ AcceptNomem
  <2> DEFINE r == Min(Free)
  <2>1. Free # {} /\ (conn' = conn \/ \E x : conn' = [conn EXCEPT ![r] = x])
    BY <1>3 DEF AcceptOne, AcceptNomem
  <2>2. r \in Slots /\ r # s
    BY <2>1, FreeEntry
  <2> HIDE DEF r
  <2> QED
    BY <1>1, <1>2, <2>1, <2>2
<1>4. ASSUME NEW r \in Slots, RecvCqe(r) PROVE Shrinks(s)
  <2> DEFINE c == Reaped(r, "RECV")
  <2>1. conn[r].k["RECV"] > 0 /\ OnRecv(r, c, late, foreign) /\ "RECV" \in Ops
    BY <1>4 DEF RecvCqe, Ops
  <2>2. c \in Conn /\ c.st = conn[r].st /\ c.pend = conn[r].pend
    BY <1>1, <2>1, ReapedFields
  <2> HIDE DEF c
  <2> QED
    BY <2>1, <2>2, OnRecvShrinks
<1>5. ASSUME NEW r \in Slots, LateRecvCqe(r) PROVE Shrinks(s)
  <2> DEFINE L == [late EXCEPT ![r]["RECV"] = @ - 1]
             F == [foreign EXCEPT ![r] = TRUE]
  <2>1. conn' = conn \/ OnRecv(r, conn[r], L, F)
    BY <1>5 DEF LateRecvCqe
  <2> HIDE DEF L, F
  <2>2. CASE OnRecv(r, conn[r], L, F)
    BY <1>1, <2>2, OnRecvShrinks
  <2> QED
    BY <1>2, <2>1, <2>2
<1>6. ASSUME NEW r \in Slots, SendCqe(r) PROVE Shrinks(s)
  <2>1. CASE r = s
    <3>1. conn'[s].st # "WS_SEND" \/ conn'[s].pend < conn[s].pend
      BY <1>6, <2>1, SendCqeShrinks
    <3>2. CASE conn'[s].st # "WS_SEND"
      BY <3>2 DEF Shrinks
    <3>3. CASE conn'[s].pend < conn[s].pend
      <4>1. IInv'
        BY NextInv
      <4>2. conn'[s] \in Conn
        BY <4>1 DEF IInv, Held
      <4>3. conn'[s].pend \in Nat
        BY <4>2, LoopAssumption DEF Conn
      <4> QED
        BY <1>1, <3>3, <4>3 DEF Shrinks
    <3> QED
      BY <3>1, <3>2, <3>3
  <2>2. CASE r # s
    <3>1. \E d : Settle(r, d, late, foreign)
      BY <1>6 DEF SendCqe
    <3> QED
      BY <1>1, <1>2, <2>2, <3>1, SettleOne
  <2> QED
    BY <2>1, <2>2
<1>7. ASSUME NEW r \in Slots, NEW dir \in {"POLLIN", "POLLOUT"}, PollCqe(r, dir) PROVE FALSE
  <2>1. conn[r].k[dir] > 0
    BY <1>7 DEF PollCqe
  <2>2. conn[r].k \in [Ops -> Nat] /\ conn[r].k["POLLIN"] + conn[r].k["POLLOUT"] = 0
    BY <1>1, HeldAt DEF Sound, Flags, Conn
  <2> QED
    BY <2>1, <2>2 DEF Ops
<1>8. CASE Timeout
  <2>1. PICK g \in ws_flush_all_pending(conn) : conn' = g \/ notified' = notified + 1
    BY <1>8 DEF Timeout
  <2>2. g[s] = conn[s]
    BY <2>1, FlushLeavesSending
  <2> QED
    BY <1>1, <1>2, <2>1, <2>2 DEF Shrinks
<1>9. CASE Exit
  <2>1. conn'[s] = FreeConn
    BY <1>9 DEF Exit
  <2> QED
    BY <2>1 DEF Shrinks, FreeConn
<1>10. CASE UNCHANGED vars
  BY <1>2, <1>10 DEF vars
<1> QED
  BY <1>3, <1>4, <1>5, <1>6, <1>7, <1>8, <1>9, <1>10 DEF Next

\* A WebSocket of a plain listener that is sending comes nearer to WS_RECV with every
\* completion of a send, and only a broadcast gives it more to do.  With
\* FramesAreSubmitted this is what PlainFanoutSent needs besides a kernel that completes
\* what was submitted.
THEOREM FramesGoOut ==
  Spec => [][~tls => \A s \in Slots : conn[s].st = "WS_SEND" =>
               /\ Shrinks(s)
               /\ SendCqe(s) => conn'[s].st # "WS_SEND" \/ conn'[s].pend < conn[s].pend]_vars
<1>1. IInv /\ [Next]_vars
        => [~tls => \A s \in Slots : conn[s].st = "WS_SEND" =>
               /\ Shrinks(s)
               /\ SendCqe(s) => conn'[s].st # "WS_SEND" \/ conn'[s].pend < conn[s].pend]_vars
  <2> SUFFICES ASSUME IInv, [Next]_vars, ~tls, NEW s \in Slots, conn[s].st = "WS_SEND"
               PROVE  /\ Shrinks(s)
                      /\ SendCqe(s) => conn'[s].st # "WS_SEND" \/ conn'[s].pend < conn[s].pend
    OBVIOUS
  <2>1. tls = FALSE
    BY HeldAt
  <2> QED
    BY <2>1, NextShrinks, SendCqeShrinks
<1> QED
  BY <1>1, LoopInvariant, PTL DEF Spec
===============================================================================
