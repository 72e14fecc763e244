----------------------------- MODULE IoUringLoop -----------------------------
(***************************************************************************)
(* The server loop (src/src/host/iouring_loop.c): one thread, one io_uring, *)
(* a fixed table of connections.  Every completion is one action, because   *)
(* the loop handles it to the end before it waits again.  A completion      *)
(* carries only (op, slot): pack_ud has no generation, and close_conn       *)
(* closes the descriptor without cancelling what is in flight on it, so the *)
(* model keeps apart the operations the current connection of a slot        *)
(* submitted (conn[s].k) and those of connections that are gone (late[s]).  *)
(*                                                                         *)
(* The content of the STATE_CHANGED messages is the matter of StateFanout;  *)
(* here the hub keeps a subscription and a number of queued messages per    *)
(* slot.  The submission queue (256 entries by default) has room for what   *)
(* one completion can submit, so io_uring_get_sqe does not fail.  The peer, *)
(* the TLS library and the HTTP parser choose their results freely.         *)
(***************************************************************************)
EXTENDS Integers, FiniteSets, FiniteSetsExt

CONSTANTS
  MaxConns,      \* opts.max_conns: entries of the connection table
  MaxAccepts,    \* opts.max_accepts: the loop ends after that many
  Listeners,     \* kinds of listener: TRUE has a TLS context, FALSE is plain
  PendingMax,    \* messages the hub keeps per subscriber
  MaxNotify,     \* bound: state changes broadcast
  MaxOom         \* bound: allocations in alloc_conn that fail

ASSUME LoopAssumption ==
  /\ {MaxConns, MaxAccepts, PendingMax} \subseteq Nat \ {0}
  /\ {MaxNotify, MaxOom} \subseteq Nat
  /\ Listeners \subseteq BOOLEAN

VARIABLES
  tls,             \* the listener's kind, settled at startup
  conn,            \* the connection table
  late,            \* in flight for connections that are gone, by slot
  accepts_done, accept_pending, active_conns,
  running,         \* the loop has not been left
  foreign,         \* history: slots whose connection was given the completion
                   \* of an earlier connection
  notified, oom    \* history: broadcasts, failed allocations

hist == <<notified, oom>>
vars == <<tls, conn, late, accepts_done, accept_pending, active_conns, running,
          foreign, hist>>

Slots == 1 .. MaxConns
Ops == {"RECV", "SEND", "POLLIN", "POLLOUT"}
NoOps == [o \in Ops |-> 0]

States == {"FREE", "TLS_HS", "RECV", "SEND", "WS_RECV", "WS_SEND"}

\* conn_t: st is state, fd that fd >= 0, rp/sp/pp the recv, send and poll_pending
\* flags, kw is keep_ws, sub and pend are what the hub keeps for the slot, k
\* counts what is in flight.  send_off < send_len holds exactly in the two SEND
\* states.  refused is history: the connection is in WS_RECV since the codec
\* refused a message.  rc is the result of the handler that is running, "ok" in
\* between.
Conn == [st : States, fd : BOOLEAN, rp : BOOLEAN, sp : BOOLEAN, pp : BOOLEAN,
         kw : BOOLEAN, sub : BOOLEAN, pend : 0 .. PendingMax, refused : BOOLEAN,
         k : [Ops -> Nat], rc : {"ok", "closed", "err"}]

FreeConn == [st |-> "FREE", fd |-> FALSE, rp |-> FALSE, sp |-> FALSE,
             pp |-> FALSE, kw |-> FALSE, sub |-> FALSE, pend |-> 0,
             refused |-> FALSE, k |-> NoOps, rc |-> "ok"]

Init ==
  /\ tls \in Listeners
  /\ conn = [s \in Slots |-> FreeConn]
  /\ late = [s \in Slots |-> NoOps]
  /\ accepts_done = 0 /\ accept_pending = TRUE /\ active_conns = 0
  /\ running = TRUE
  /\ foreign = [s \in Slots |-> FALSE]
  /\ notified = 0 /\ oom = 0

-------------------------------------------------------------------------------
(* Handlers: from a connection to the set of connections they may leave *)

\* A handler that returns -1, and one that called close_conn itself.
Fail(c) == [c EXCEPT !.rc = "err"]
Close(c) == [c EXCEPT !.rc = "closed"]

submit_poll(c, want_write) ==
  IF c.pp THEN c
  ELSE [c EXCEPT !.pp = TRUE, !.k[IF want_write THEN "POLLOUT" ELSE "POLLIN"] = @ + 1]

\* Mutant: recv_pending is not looked at.
submit_recv_unchecked(c) ==
  IF c.pp \/ c.st \notin {"RECV", "WS_RECV", "TLS_HS"} THEN c
  ELSE IF tls THEN submit_poll(c, FALSE)
  ELSE [c EXCEPT !.rp = TRUE, !.k["RECV"] = @ + 1]

\* submit_recv: under TLS readiness comes from a poll.
submit_recv(c) ==
  IF c.rp \/ c.pp \/ c.st \notin {"RECV", "WS_RECV", "TLS_HS"} THEN c
  ELSE IF tls THEN submit_poll(c, FALSE)
  ELSE [c EXCEPT !.rp = TRUE, !.k["RECV"] = @ + 1]

\* promote_to_ws after the 101 is out: subscribe, wait for frames.  The queue of
\* a new subscriber is empty, so the trailing ws_try_send_pending sends nothing.
promote_to_ws(c) ==
  submit_recv([c EXCEPT !.sub = TRUE, !.kw = FALSE, !.st = "WS_RECV"])

\* Mutant: no wait for frames after a send.
WsIdle_no_rearm(c) == [c EXCEPT !.st = "WS_RECV"]

\* The frame being sent is out and nothing is queued: back to receiving.
WsIdle(c) == submit_recv([c EXCEPT !.st = "WS_RECV"])

\* j messages are taken from the hub's queue (edge_ws_hub_take_pending).
Taken(c, j) == [c EXCEPT !.pend = @ - j]

\* ws_try_send_pending returns -1 on the last of j messages it took: the codec did
\* not make a frame of it (websocket_send_text fails, websocket_get_output has
\* nothing), and the connection is left in WS_RECV.
Refused(c, j) == [Taken(c, j) EXCEPT !.st = "WS_RECV", !.refused = TRUE]

\* tls_drive_write, with the handle_send_complete, ws_try_send_pending and
\* submit_send it calls in turn: it writes the rest of send_buf and then j of the
\* queued messages until the socket blocks, the queue is empty or a message is
\* refused.  A queued message that is refused, or on which the write fails, is
\* swallowed by handle_send_complete, which re-arms only when ws_try_send_pending
\* returns 0.
tls_drive_write(c) ==
  {submit_poll(Taken(c, j), w) :
     w \in BOOLEAN, j \in IF c.st = "WS_SEND" THEN 0 .. c.pend ELSE {0}}
  \cup {Fail(c)}
  \cup IF c.st = "WS_SEND"
       THEN {Taken(c, j) : j \in 1 .. c.pend} \cup {Refused(c, j) : j \in 1 .. c.pend}
            \cup {WsIdle(Taken(c, c.pend))}
       ELSE {IF c.kw THEN promote_to_ws(c) ELSE Close(c)}

\* Mutant: an outstanding recv keeps a send from being submitted.
submit_send_after_recv(c) ==
  IF c.sp \/ c.pp \/ c.rp THEN {c}
  ELSE IF tls THEN tls_drive_write(c)
  ELSE {[c EXCEPT !.sp = TRUE, !.k["SEND"] = @ + 1]}

\* submit_send on a connection with something to send.
submit_send(c) ==
  IF c.sp \/ c.pp THEN {c}
  ELSE IF tls THEN tls_drive_write(c)
  ELSE {[c EXCEPT !.sp = TRUE, !.k["SEND"] = @ + 1]}

begin_send_buf(c, st) == submit_send([c EXCEPT !.st = st, !.refused = FALSE])

\* ws_try_send_pending in WS_RECV: take one message and start sending it, unless
\* the codec refuses it.  (The frames ws_flush_output would send first are gone:
\* handle_ws_recv flushes them before it returns; a message always fits in text and
\* its frame in send_buf.)
ws_try_send_pending(c) ==
  IF c.sp \/ c.pend = 0 THEN {c}
  ELSE {Refused(c, 1)} \cup begin_send_buf(Taken(c, 1), "WS_SEND")

\* Mutant: after a frame the queue is not looked at.
handle_send_complete_no_pending(c) ==
  IF c.st = "SEND" /\ c.kw THEN {promote_to_ws(c)}
  ELSE IF c.st = "WS_SEND" THEN {WsIdle(c)}
  ELSE {Close(c)}

\* handle_send_complete on a plain connection; the -1 of ws_try_send_pending is
\* swallowed and nothing re-armed.
handle_send_complete(c) ==
  IF c.st = "SEND" /\ c.kw THEN {promote_to_ws(c)}
  ELSE IF c.st = "WS_SEND"
  THEN IF c.pend > 0 THEN ws_try_send_pending([c EXCEPT !.st = "WS_RECV"])
       ELSE {WsIdle(c)}
  ELSE {Close(c)}

\* One connection's turn in ws_flush_all_pending, which ignores errors.
FlushOne(c) ==
  IF c.st = "WS_RECV" /\ c.sub
  THEN {[d EXCEPT !.rc = "ok"] : d \in ws_try_send_pending(c)}
  ELSE {c}

\* ws_flush_all_pending over a connection table: who has something queued sends.
ws_flush_all_pending(cs) ==
  LET W == {s \in Slots : cs[s].st = "WS_RECV" /\ cs[s].pend > 0}
      sent == {g \in [W -> UNION {FlushOne(cs[s]) : s \in W}] :
                 \A s \in W : g[s] \in FlushOne(cs[s])}
  IN {[s \in Slots |-> IF s \in W THEN g[s] ELSE cs[s]] : g \in sent}

\* edge_ws_hub_broadcast: one more message for every subscriber, the oldest
\* dropped from a full queue.
broadcast(cs) ==
  [s \in Slots |-> IF cs[s].sub
                   THEN [cs[s] EXCEPT !.pend = IF @ < PendingMax THEN @ + 1 ELSE @]
                   ELSE cs[s]]

\* What the callers of handle_ws_recv do when it returns 0 in WS_RECV.
Rearm(c) == IF c.rc = "ok" THEN submit_recv(c) ELSE c

\* handle_ws_recv on n > 0 bytes, and the re-arming its callers do: nothing to
\* answer, a ping to answer, or a close frame or protocol error.
handle_ws_recv(c) ==
  {submit_recv(c), Fail(c)} \cup {Rearm(d) : d \in begin_send_buf(c, "WS_SEND")}

\* begin_bad_request_plain; a connection without a buffer cannot answer.
begin_bad_request_plain(c) ==
  IF c.fd THEN begin_send_buf(c, "SEND") ELSE {Fail(c)}

\* Mutant: no recv after an unfinished request.
HttpMore_no_rearm(c) == c

\* handle_http_bytes as far as it concerns its own connection: an unfinished
\* request, or a response, after which it may switch to WebSocket.  An entry
\* without a descriptor has no parser either.
HttpMore(c) == IF c.fd THEN submit_recv(c) ELSE Fail(c)
HttpResponds(c, keep_ws) ==
  IF c.fd THEN begin_send_buf([c EXCEPT !.kw = keep_ws], "SEND") ELSE {}

-------------------------------------------------------------------------------
(* The loop *)

\* L and F are late and foreign once the completion at hand is accounted for.

\* Mutant: the hub keeps the subscription of a closed connection.
close_conn_keeps_sub(s, c, L, F) ==
  /\ conn' = [conn EXCEPT ![s] = [FreeConn EXCEPT !.sub = c.sub, !.pend = c.pend]]
  /\ late' = [L EXCEPT ![s] = [o \in Ops |-> @[o] + c.k[o]]]
  /\ foreign' = [F EXCEPT ![s] = FALSE]
  /\ active_conns' = active_conns - IF c.fd /\ active_conns > 0 THEN 1 ELSE 0

\* Mutant: the counter goes down for an entry that never had a descriptor too.
close_conn_always_counts(s, c, L, F) ==
  /\ conn' = [conn EXCEPT ![s] = FreeConn]
  /\ late' = [L EXCEPT ![s] = [o \in Ops |-> @[o] + c.k[o]]]
  /\ foreign' = [F EXCEPT ![s] = FALSE]
  /\ active_conns' = active_conns - IF active_conns > 0 THEN 1 ELSE 0

\* close_conn: what is in flight on the descriptor stays in flight.
close_conn(s, c, L, F) ==
  /\ conn' = [conn EXCEPT ![s] = FreeConn]
  /\ late' = [L EXCEPT ![s] = [o \in Ops |-> @[o] + c.k[o]]]
  /\ foreign' = [F EXCEPT ![s] = FALSE]
  /\ active_conns' = active_conns - IF c.fd /\ active_conns > 0 THEN 1 ELSE 0

\* What the loop does with the connection a handler left behind.
Settle(s, c, L, F) ==
  \/ c.rc # "ok" /\ close_conn(s, c, L, F)
  \/ /\ c.rc = "ok"
     /\ conn' = [conn EXCEPT ![s] = c]
     /\ late' = L /\ foreign' = F
     /\ UNCHANGED active_conns

Free == {s \in Slots : conn[s].st = "FREE"}

submit_accept_off_by_one(n) == n <= MaxAccepts   \* mutant

\* submit_accept once n connections were accepted: whether it arms another.
submit_accept(n) == n < MaxAccepts

\* accept_one with a free entry, then submit_accept; under TLS the handshake
\* starts at once, and a connection whose handshake fails is closed again.  With
\* no free entry the client is rejected and nothing here changes.
AcceptOne ==
  /\ running /\ accept_pending
  /\ Free # {}
  /\ accepts_done' = accepts_done + 1
  /\ accept_pending' = submit_accept(accepts_done + 1)
  /\ LET c == [FreeConn EXCEPT !.fd = TRUE, !.st = "TLS_HS"]
         armed == submit_recv([c EXCEPT !.st = "RECV"])
     IN \/ /\ conn' \in {[conn EXCEPT ![Min(Free)] = d] :
                  d \in {armed} \cup
                        {e \in {submit_poll(c, FALSE), submit_poll(c, TRUE)} : tls}}
           /\ active_conns' = active_conns + 1
        \/ tls /\ UNCHANGED <<conn, active_conns>>
  /\ UNCHANGED <<tls, late, running, foreign, hist>>

\* alloc_conn fails to allocate: the entry is left in RECV without a descriptor,
\* and accept_one closes the client.
AcceptNomem ==
  /\ running /\ accept_pending
  /\ oom < MaxOom
  /\ Free # {}
  /\ oom' = oom + 1
  /\ conn' = [conn EXCEPT ![Min(Free)].st = "RECV"]
  /\ UNCHANGED <<tls, late, accepts_done, accept_pending, active_conns, running, foreign,
                 notified>>

\* The completion of op leaves the kernel.
Reaped(s, op) == [conn[s] EXCEPT !.k[op] = @ - 1]

\* OP_RECV or TLS input in WS_RECV: EOF or an error closes, bytes go to
\* handle_ws_recv.
RecvWs(s, c, L, F) ==
  /\ c.st = "WS_RECV"
  /\ \E d \in {Fail(c)} \cup handle_ws_recv(c) : Settle(s, d, L, F)
  /\ UNCHANGED notified

\* OP_RECV or TLS input in RECV that is no complete request: an error closes, EOF
\* is answered as a bad request, bytes are kept by the parser.
RecvHttp(s, c, L, F) ==
  /\ c.st = "RECV"
  /\ \E d \in {Fail(c), HttpMore(c)} \cup begin_bad_request_plain(c) :
       Settle(s, d, L, F)
  /\ UNCHANGED notified

\* OP_RECV or TLS input in RECV that completes a request: one that changed the
\* state store put a message in every subscriber's queue; unless the response
\* could not be sent or switches to WebSocket, all queues are flushed.
RecvRequest(s, c, L, F) ==
  /\ c.st = "RECV"
  /\ \E keep_ws \in BOOLEAN, changed \in BOOLEAN :
       /\ changed => ~keep_ws /\ notified < MaxNotify
       /\ notified' = notified + IF changed THEN 1 ELSE 0
       /\ \E d \in HttpResponds(c, keep_ws) :
            LET cs == [IF changed THEN broadcast(conn) ELSE conn EXCEPT
                         ![s] = IF d.rc = "ok" THEN d ELSE FreeConn]
            IN \/ /\ d.rc = "err" \/ d.kw
                  /\ conn' = cs
               \/ /\ ~(d.rc = "err" \/ d.kw)
                  /\ conn' \in ws_flush_all_pending(cs)
            /\ \/ /\ d.rc = "ok"
                  /\ late' = L /\ foreign' = F /\ UNCHANGED active_conns
               \/ /\ d.rc # "ok"
                  /\ late' = [L EXCEPT ![s] = [o \in Ops |-> @[o] + d.k[o]]]
                  /\ foreign' = [F EXCEPT ![s] = FALSE]
                  /\ active_conns' = active_conns - 1

\* Mutant: EOF closes a connection that is sending.
RecvDropped_closes(s, c, L, F) ==
  /\ c.st \in {"TLS_HS", "SEND", "WS_SEND"}
  /\ \E d \in {c, Fail(c)} : Settle(s, d, L, F)
  /\ UNCHANGED notified

\* OP_RECV in a SEND state is dropped, and recv_pending stays set.
RecvDropped(s, c, L, F) ==
  /\ c.st \in {"TLS_HS", "SEND", "WS_SEND"}
  /\ Settle(s, c, L, F)
  /\ UNCHANGED notified

OnRecv(s, c, L, F) ==
  \/ RecvWs(s, [c EXCEPT !.rp = FALSE], L, F)
  \/ RecvHttp(s, [c EXCEPT !.rp = FALSE], L, F)
  \/ RecvRequest(s, [c EXCEPT !.rp = FALSE], L, F)
  \/ RecvDropped(s, c, L, F)

RecvCqe(s) ==
  /\ running /\ conn[s].k["RECV"] > 0
  /\ OnRecv(s, Reaped(s, "RECV"), late, foreign)
  /\ UNCHANGED <<tls, accepts_done, accept_pending, running, oom>>

\* The recv of a connection that is gone completes: a FREE entry ignores it
\* ("late cqe"), any other takes it for its own.
LateRecvCqe(s) ==
  /\ running /\ late[s]["RECV"] > 0
  /\ LET L == [late EXCEPT ![s]["RECV"] = @ - 1] IN
     \/ /\ conn[s].st = "FREE"
        /\ late' = L
        /\ UNCHANGED <<conn, foreign, active_conns, notified>>
     \/ OnRecv(s, conn[s], L, [foreign EXCEPT ![s] = TRUE])
  /\ UNCHANGED <<tls, accepts_done, accept_pending, running, oom>>

\* OP_SEND with the whole rest sent (a short send is submitted again), or with
\* an error.
SendCqe(s) ==
  /\ running /\ conn[s].k["SEND"] > 0
  /\ LET c == [Reaped(s, "SEND") EXCEPT !.sp = FALSE] IN
     \E d \in {Fail(c)} \cup handle_send_complete(c) : Settle(s, d, late, foreign)
  /\ UNCHANGED <<tls, accepts_done, accept_pending, running, hist>>

\* handle_tls_poll in TLS_HS.
TlsHandshake(s, c) ==
  /\ c.st = "TLS_HS"
  /\ \E d \in {submit_recv([c EXCEPT !.st = "RECV"]), submit_poll(c, FALSE),
               submit_poll(c, TRUE), Fail(c)} : Settle(s, d, late, foreign)
  /\ UNCHANGED notified

\* handle_tls_poll when SSL_read yields nothing yet.
TlsReadBlocks(s, c) ==
  /\ c.st \in {"RECV", "WS_RECV"}
  /\ \E w \in BOOLEAN : Settle(s, submit_poll(c, w), late, foreign)
  /\ UNCHANGED notified

\* handle_tls_poll in the SEND states.
TlsWrite(s, c) ==
  /\ c.st \in {"SEND", "WS_SEND"}
  /\ \E d \in tls_drive_write(c) : Settle(s, d, late, foreign)
  /\ UNCHANGED notified

\* OP_POLL: the peer sent something (POLLIN) or there is room to write (POLLOUT).
PollCqe(s, dir) ==
  /\ running /\ conn[s].k[dir] > 0
  /\ LET c == [Reaped(s, dir) EXCEPT !.pp = FALSE] IN
     \/ TlsHandshake(s, c)
     \/ TlsReadBlocks(s, c)
     \/ RecvWs(s, c, late, foreign)
     \/ RecvHttp(s, c, late, foreign)
     \/ RecvRequest(s, c, late, foreign)
     \/ TlsWrite(s, c)
  /\ UNCHANGED <<tls, accepts_done, accept_pending, running, oom>>

\* No completion for 200 ms: flush, and when a scrape is due broadcast its result
\* and flush again.
Timeout ==
  /\ running
  /\ \E f \in ws_flush_all_pending(conn) :
       \/ conn' = f /\ UNCHANGED notified
       \/ /\ notified < MaxNotify
          /\ notified' = notified + 1
          /\ conn' \in ws_flush_all_pending(broadcast(f))
  /\ UNCHANGED <<tls, late, accepts_done, accept_pending, active_conns, running, foreign, oom>>

\* The loop is left, by should_stop or on a signal: every connection is closed
\* and the ring torn down.
Exit ==
  /\ running
  /\ running' = FALSE
  /\ conn' = [s \in Slots |-> FreeConn]
  /\ late' = [s \in Slots |-> NoOps]
  /\ foreign' = [s \in Slots |-> FALSE]
  /\ active_conns' = active_conns - Cardinality({s \in Slots : conn[s].fd})
  /\ UNCHANGED <<tls, accepts_done, accept_pending, hist>>

Next ==
  \/ AcceptOne
  \/ AcceptNomem
  \/ \E s \in Slots : RecvCqe(s)
  \/ \E s \in Slots : LateRecvCqe(s)
  \/ \E s \in Slots : SendCqe(s)
  \/ \E s \in Slots, dir \in {"POLLIN", "POLLOUT"} : PollCqe(s, dir)
  \/ Timeout
  \/ Exit

Spec == Init /\ [][Next]_vars

\* A TLS write that found room and got somewhere.
Written(s) == PollCqe(s, "POLLOUT") /\ conn'[s].st # conn[s].st

\* What does not depend on the peer sending something happens: the kernel completes
\* a send, a TLS write that finds room again and again does not block for ever,
\* and the loop, when idle, times out.
FairSpec ==
  /\ Spec
  /\ \A s \in Slots : WF_vars(SendCqe(s)) /\ SF_vars(Written(s))
  /\ WF_vars(Timeout)

-------------------------------------------------------------------------------
(* Properties *)

\* Type correctness; the loop accepts no more than max_accepts connections and
\* every handler's result has been dealt with.
TypeOK ==
  /\ conn \in [Slots -> Conn]
  /\ \A s \in Slots : conn[s].rc = "ok"
  /\ late \in [Slots -> [Ops -> Nat]]
  /\ accepts_done \in 0 .. MaxAccepts /\ active_conns \in 0 .. MaxConns
  /\ accept_pending \in BOOLEAN /\ running \in BOOLEAN
  /\ foreign \in [Slots -> BOOLEAN]
  /\ notified \in Nat /\ oom \in Nat

InFlight(s) == {o \in Ops : conn[s].k[o] > 0}

\* The pending flags are what keeps a connection from submitting twice: as long
\* as a connection was not given somebody else's completion, at most one recv, one
\* send and one poll are in flight for it (recv_buf and send_buf are never
\* shared by two), and a flag that is clear means that nothing is.
OneOfEach ==
  \A s \in Slots : ~foreign[s] =>
    /\ \A o \in Ops : conn[s].k[o] <= 1
    /\ ~({"POLLIN", "POLLOUT"} \subseteq InFlight(s))
    /\ "RECV" \in InFlight(s) => conn[s].rp
    /\ "SEND" \in InFlight(s) <=> conn[s].sp
    /\ {"POLLIN", "POLLOUT"} \cap InFlight(s) # {} <=> conn[s].pp

\* A connection that is still speaking HTTP is never forgotten: in TLS_HS, RECV
\* and SEND exactly one operation is in flight for it, whose completion will be
\* handled, so the slot comes back when the peer goes away.
HttpNeverForgotten ==
  \A s \in Slots :
    conn[s].st \in {"TLS_HS", "RECV", "SEND"} /\ conn[s].fd /\ ~foreign[s]
      => Cardinality(InFlight(s)) = 1

\* The hub delivers to exactly the slots that speak WebSocket: no path through
\* promotion, failed sends or closes leaves a subscription behind or misses one.
SubscribedIffWs ==
  \A s \in Slots : conn[s].sub <=> conn[s].st \in {"WS_RECV", "WS_SEND"}

\* The active_conns metric counts the open descriptors on every path, the failed
\* allocations and failed handshakes of accept_one included; an entry without a
\* descriptor is only ever left by such a failure.
ActiveConnsExact ==
  /\ active_conns = Cardinality({s \in Slots : conn[s].fd})
  /\ Cardinality({s \in Slots : conn[s].st # "FREE" /\ ~conn[s].fd}) <= oom

\* Only a recv can outlive its connection: no send and no poll is in flight when
\* close_conn gives the slot back, so a later connection's response is never
\* taken for finished by somebody else's completion.
OnlyRecvOutlives == \A s \in Slots, o \in Ops \ {"RECV"} : late[s][o] = 0

\* A queued STATE_CHANGED message never waits for the 200 ms timer on a plain
\* listener: a subscriber with something queued is already sending, and
\* handle_send_complete takes the next one, unless the codec has just refused one.
QueuedMeansSending ==
  ~tls => \A s \in Slots :
            conn[s].pend > 0 /\ ~conn[s].refused => conn[s].st = "WS_SEND"

\* Something is in flight that reports the peer's frames, or its going away.
Listening(s) == InFlight(s) \cap {"RECV", "POLLIN", "POLLOUT"} # {}

\* conn_state_t describes CS_WS_RECV as "WebSocket open, waiting for frames or
\* fan-out": the connection listens, unless it is in WS_RECV because the codec
\* refused a message.
WsRecvListens ==
  \A s \in Slots : conn[s].st = "WS_RECV" /\ ~conn[s].refused => Listening(s)

\* Under TLS a WebSocket in WS_RECV listens, whatever was sent, dropped or blocked
\* before, unless the codec refused a message.
TlsWsRecvListens == tls => WsRecvListens

\* A frame that was taken from the queue goes out (ADR-007: a client "can
\* subscribe to STATE_CHANGED without polling"): a connection does not stay in
\* WS_SEND for ever.
FanoutSent == \A s \in Slots : conn[s].st = "WS_SEND" ~> conn[s].st # "WS_SEND"

\* On a plain listener it does, although the peer sends nothing.
PlainFanoutSent ==
  \A s \in Slots : ~tls /\ conn[s].st = "WS_SEND" ~> conn[s].st # "WS_SEND"
===============================================================================
