------------------------------- MODULE Outbound -------------------------------
(***************************************************************************)
(* The outbound client (src/src/host/outbound_http.c) and the poll-driven   *)
(* TLS calls it uses (src/src/host/tls_server.c).  One exchange at a time    *)
(* runs on the loop thread; the upstream and the network act between any     *)
(* two of its system calls.                                                  *)
(*                                                                          *)
(* Bytes are counted: a response has hdr bytes up to and with the blank      *)
(* line and body bytes after it.  SIGPIPE is taken to be ignored, as under   *)
(* systemd, so that a write to a peer that is gone returns an error.  EINTR  *)
(* restarts read and write and ends a poll the way a timeout does.           *)
(***************************************************************************)
EXTENDS Integers, FiniteSetsExt

CONSTANTS
  ReqLen,       \* bytes of the request
  RawCap,       \* raw_cap: bytes of response that are read
  BodyCap,      \* body_cap: bytes of body the caller has room for
  Responses     \* responses an upstream may have in mind

\* The status line is what it should be, is rejected, or has no space where the
\* parser looks for one.
Response == [hdr : Nat \ {0}, body : Nat, line : {"ok", "bad", "odd"}]

ASSUME OutboundAssumption ==
  /\ {ReqLen, RawCap, BodyCap} \subseteq Nat \ {0}
  /\ Responses \subseteq Response

VARIABLES
  pc,           \* where edge_outbound_http_execute is; "idle" outside
  wait,         \* in a poll: for input or output, up to timeout_ms or 50 ms
  held,         \* memory, descriptor and TLS objects held
  req, sent,    \* the request and how much of it is written
  got,          \* off, later raw_len: how much of the response is read
  up,           \* the upstream and the connection to it
  out           \* rc, transport_err, status is the upstream's own, body_len

vars == <<pc, wait, held, req, sent, got, up, out>>

\* url is the scheme; addr the addr_override ("none": DNS is asked if dns allows it);
\* defect a body_cap below 64 or a request longer than its buffer.
Request == [url : {"http", "https", "junk"}, addr : {"ip", "junk", "none"},
            dns : BOOLEAN, defect : {"none", "small", "long"}]

Resources == {"reqbuf", "fd", "raw", "ctx", "ssl"}
Errors == {"none", "ENOMEM", "EINVAL", "EMSGSIZE", "ECONNREFUSED", "EIO", "EPROTO"}
Result == [rc : {0, -1}, err : Errors, own : BOOLEAN, len : Nat]

\* resp is the response, left how much of it is still to be sent, avail what has
\* arrived and is not read, record that a TLS record without data has arrived,
\* room that a write finds room.
Upstream == [resp : Response, left : Nat, avail : Nat, record : BOOLEAN,
             room : BOOLEAN, eof : BOOLEAN, rst : BOOLEAN]

NoWait == "no"
Waits == {NoWait, "in", "out", "brief"}
Https == req.url = "https"

Cleared == [rc |-> 0, err |-> "none", own |-> TRUE, len |-> 0]
Silent(r) == [resp |-> r, left |-> r.hdr + r.body, avail |-> 0, record |-> FALSE,
              room |-> TRUE, eof |-> FALSE, rst |-> FALSE]

Init ==
  /\ pc = "idle" /\ wait = NoWait /\ held = {}
  /\ req = [url |-> "junk", addr |-> "none", dns |-> FALSE, defect |-> "none"]
  /\ sent = 0 /\ got = 0
  /\ up \in {Silent(r) : r \in Responses}
  /\ out = [Cleared EXCEPT !.err = "EINVAL"]

-------------------------------------------------------------------------------
(* Up to the connection: failures return 0 with transport_err set *)

\* An early return, once free and close have given back what is in released.
EarlyReturn(err, released) ==
  /\ pc' = "idle"
  /\ held' = held \ released
  /\ out' = [Cleared EXCEPT !.err = err]

\* An http or https scheme and a host name that fits.
parse_url(q) == q.url # "junk"

\* Request line, headers and body fit into reqbuf.
build_request(q) == q.defect # "long"

\* edge_outbound_http_execute up to build_request.  malloc may fail.
Prepare(q, r) ==
  /\ pc = "idle"
  /\ req' = q /\ sent' = 0 /\ got' = 0 /\ up' = Silent(r)
  /\ \/ q.defect = "small" /\ EarlyReturn("ENOMEM", {})
     \/ q.defect # "small" /\ ~parse_url(q) /\ EarlyReturn("EINVAL", {})
     \/ q.defect # "small" /\ parse_url(q) /\ EarlyReturn("ENOMEM", {})
     \/ q.defect # "small" /\ parse_url(q) /\ ~build_request(q) /\ EarlyReturn("EMSGSIZE", {"reqbuf"})
     \/ /\ q.defect # "small" /\ parse_url(q) /\ build_request(q)
        /\ pc' = "connect" /\ held' = held \cup {"reqbuf"} /\ out' = Cleared
  /\ UNCHANGED wait

\* tcp_connect_host: the override must be an address; without one DNS must be
\* allowed and resolve; the upstream must accept.
tcp_connect_host ==
  /\ pc = "connect"
  /\ \/ /\ req.addr = "ip" \/ (req.addr = "none" /\ req.dns)
        /\ pc' = "buffer" /\ held' = held \cup {"fd"} /\ UNCHANGED out
     \/ EarlyReturn("ECONNREFUSED", {"reqbuf"})
  /\ UNCHANGED <<wait, req, sent, got, up>>

\* Mutant: the descriptor is forgotten when there is no memory.
AllocRaw_leaks ==
  /\ pc = "buffer"
  /\ \/ EarlyReturn("ENOMEM", {"reqbuf"})
     \/ /\ pc' = IF Https THEN "secure" ELSE "write"
        /\ held' = held \cup {"raw"} /\ UNCHANGED out
  /\ UNCHANGED <<wait, req, sent, got, up>>

\* The buffer for the response.
AllocRaw ==
  /\ pc = "buffer"
  /\ \/ EarlyReturn("ENOMEM", {"fd", "reqbuf"})
     \/ /\ pc' = IF Https THEN "secure" ELSE "write"
        /\ held' = held \cup {"raw"} /\ UNCHANGED out
  /\ UNCHANGED <<wait, req, sent, got, up>>

-------------------------------------------------------------------------------
(* The exchange: failures set transport_err and goto done *)

Done(err) == pc' = "done" /\ out' = [out EXCEPT !.err = err]

\* set_nonblock and the context of a TLS client.
edge_tls_client_ctx_create ==
  /\ pc = "secure"
  /\ \/ Done("EIO") /\ UNCHANGED held
     \/ pc' = "session" /\ held' = held \cup {"ctx"} /\ UNCHANGED out
  /\ UNCHANGED <<wait, req, sent, got, up>>

\* The SSL object, which frees itself if the descriptor cannot be attached.
edge_tls_client_conn_new_fd ==
  /\ pc = "session"
  /\ \/ Done("EIO") /\ UNCHANGED held
     \/ pc' = "handshake" /\ held' = held \cup {"ssl"} /\ UNCHANGED out
  /\ UNCHANGED <<wait, req, sent, got, up>>

\* What edge_tls_handshake may return: with nothing from the peer it wants to
\* read; what has arrived may complete it, not be enough, or be refused.
edge_tls_handshake ==
  IF up.record THEN {"done", "in", "out", "error"}
  ELSE IF up.eof \/ up.rst THEN {"error"} ELSE {"in"}

\* One round of the loop of edge_tls_handshake_poll.
Handshake ==
  /\ pc = "handshake" /\ wait = NoWait
  /\ \E hr \in edge_tls_handshake :
       \/ hr = "done" /\ pc' = "write" /\ UNCHANGED <<wait, out>>
       \/ hr = "error" /\ Done("ECONNREFUSED") /\ UNCHANGED wait
       \/ hr \in {"in", "out"} /\ wait' = hr /\ UNCHANGED <<pc, out>>
  /\ up' = [up EXCEPT !.record = FALSE]
  /\ UNCHANGED <<held, req, sent, got>>

\* n bytes of the request are written; the socket may be full after that.
Written(n) ==
  /\ sent' = sent + n
  /\ pc' = IF sent + n = ReqLen THEN "read" ELSE "write"
  /\ \E room \in BOOLEAN : up' = [up EXCEPT !.room = room]
  /\ UNCHANGED <<wait, held, req, got, out>>

\* What edge_tls_write may return; a plain write blocks instead of waiting.
edge_tls_write ==
  IF up.rst THEN {"error"}
  ELSE {IF up.room THEN "some" ELSE "out"} \cup (IF up.record THEN {"in"} ELSE {})
PlainWrite == IF up.rst THEN {"error"} ELSE IF up.room THEN {"some"} ELSE {}

\* One round of io_write_all_fd or edge_tls_write_all_poll.
Write ==
  /\ pc = "write" /\ wait = NoWait
  /\ \E n \in IF Https THEN edge_tls_write ELSE PlainWrite :
       \/ n = "some" /\ \E k \in 1 .. ReqLen - sent : Written(k)
       \/ n = "error" /\ Done("EIO") /\ UNCHANGED <<wait, held, req, sent, got, up>>
       \/ /\ n \in {"in", "out"} /\ wait' = n
          /\ up' = [up EXCEPT !.record = @ /\ n = "out"]
          /\ UNCHANGED <<pc, held, req, sent, got, out>>

\* Mutant: a read that returns less than it was asked for ends the response.
Read_once ==
  /\ pc = "read" /\ wait = NoWait
  /\ up.avail > 0 /\ got < RawCap
  /\ \E n \in 1 .. Min({up.avail, RawCap - got}) :
       got' = got + n /\ up' = [up EXCEPT !.avail = @ - n]
  /\ pc' = "parse"
  /\ UNCHANGED <<wait, held, req, sent, out>>

\* io_read_all_fd, edge_tls_read_all_poll: some of what has arrived is read.
Read ==
  /\ pc = "read" /\ wait = NoWait
  /\ up.avail > 0 /\ got < RawCap
  /\ \E n \in 1 .. Min({up.avail, RawCap - got}) :
       got' = got + n /\ up' = [up EXCEPT !.avail = @ - n]
  /\ UNCHANGED <<pc, wait, held, req, sent, out>>

\* What edge_tls_read may return when there is no data.  A peer that closes without
\* close_notify is an end or an error, depending on the library.
edge_tls_read ==
  IF up.rst THEN {"error"} ELSE IF up.eof THEN {"eof", "error"}
  ELSE IF up.record THEN {"in", "out"} ELSE {"in"}
PlainRead == IF up.rst THEN {"error"} ELSE IF up.eof THEN {"eof"} ELSE {}

NoData == IF up.avail > 0 \/ got = RawCap THEN {} ELSE IF Https THEN edge_tls_read ELSE PlainRead

\* The loop ends: raw is full, the upstream has closed, or the connection is broken.
ReadEnds ==
  /\ pc = "read" /\ wait = NoWait
  /\ \/ (got = RawCap \/ "eof" \in NoData) /\ pc' = "parse" /\ UNCHANGED out
     \/ "error" \in NoData /\ Done("EIO")
  /\ UNCHANGED <<wait, held, req, sent, got, up>>

\* edge_tls_read_all_poll has nothing to read: once it has data it only waits
\* briefly for more, unless TLS wants to write.
ReadWants ==
  /\ pc = "read" /\ wait = NoWait
  /\ \E n \in NoData \cap {"in", "out"} :
       wait' = IF got > 0 /\ n = "in" THEN "brief" ELSE n
  /\ up' = [up EXCEPT !.record = FALSE]
  /\ UNCHANGED <<pc, held, req, sent, got, out>>

Ready ==
  IF wait = "out" THEN up.room \/ up.rst
  ELSE up.avail > 0 \/ up.record \/ up.eof \/ up.rst

\* poll_fd returns 0.
PollReady ==
  /\ wait # NoWait /\ Ready
  /\ wait' = NoWait
  /\ UNCHANGED <<pc, held, req, sent, got, up, out>>

\* Mutant: poll is called again when it times out.
PollGivesUp_retries ==
  /\ wait # NoWait /\ ~Ready
  /\ wait' = NoWait
  /\ UNCHANGED <<pc, held, req, sent, got, up, out>>

\* poll_fd returns -1: the time is up, or a signal came.  A read that has data
\* returns it as the whole response.
PollGivesUp ==
  /\ wait # NoWait /\ ~Ready
  /\ wait' = NoWait
  /\ \/ pc = "handshake" /\ Done("ECONNREFUSED")
     \/ pc = "write" /\ Done("EIO")
     \/ pc = "read" /\ got = 0 /\ Done("EIO")
     \/ pc = "read" /\ got > 0 /\ pc' = "parse" /\ UNCHANGED out
  /\ UNCHANGED <<held, req, sent, got, up>>

\* parse_status_and_body and the copy to body_buf: the headers must be complete;
\* no Content-Length is looked at.  An odd status line is searched for a space
\* beyond its end, even beyond what was read (memory that was never written): it is
\* rejected or yields a status the upstream did not send.
Parse ==
  /\ pc = "parse"
  /\ \/ (up.resp.line # "ok" \/ got < up.resp.hdr) /\ Done("EPROTO")
     \/ /\ up.resp.line # "bad" /\ got >= up.resp.hdr
        /\ pc' = "done"
        /\ out' = [out EXCEPT !.own = up.resp.line = "ok",
                              !.len = Min({got - up.resp.hdr, BodyCap})]
  /\ UNCHANGED <<wait, held, req, sent, got, up>>

\* done: everything is given back; an error of the exchange returns -1.
Finish ==
  /\ pc = "done"
  /\ pc' = "idle"
  /\ held' = held \ Resources
  /\ out' = [out EXCEPT !.rc = IF out.err = "none" THEN 0 ELSE -1]
  /\ UNCHANGED <<wait, req, sent, got, up>>

-------------------------------------------------------------------------------
(* The upstream *)

Connected == pc \in {"buffer", "secure", "session", "handshake", "write", "read"}
Live == Connected /\ ~up.eof /\ ~up.rst
KeepClient == UNCHANGED <<pc, wait, held, req, sent, got, out>>

\* Part of the response arrives, after the handshake.
Arrive(n) ==
  /\ Live /\ pc \in {"write", "read"} /\ n <= up.left
  /\ up' = [up EXCEPT !.left = @ - n, !.avail = @ + n]
  /\ KeepClient

\* A TLS record without data arrives: handshake, key update, part of a record.
\* Nothing limits how many there are in one exchange.
Chatter == Live /\ Https /\ up' = [up EXCEPT !.record = TRUE] /\ KeepClient

Drain == Live /\ ~up.room /\ up' = [up EXCEPT !.room = TRUE] /\ KeepClient

\* The upstream closes, possibly in the middle of its response.
Close == Live /\ up' = [up EXCEPT !.eof = TRUE] /\ KeepClient

\* The connection is reset: what was not read is lost.
Reset ==
  /\ Connected /\ ~up.rst
  /\ up' = [up EXCEPT !.rst = TRUE, !.avail = 0, !.record = FALSE]
  /\ KeepClient

Client ==
  \/ tcp_connect_host \/ AllocRaw \/ edge_tls_client_ctx_create
  \/ edge_tls_client_conn_new_fd \/ Handshake \/ Write \/ Read \/ ReadEnds \/ ReadWants
  \/ PollReady \/ PollGivesUp \/ Parse \/ Finish

Next ==
  \/ \E q \in Request, r \in Responses : Prepare(q, r)
  \/ Client
  \/ \E n \in 1 .. RawCap + 1 : Arrive(n)
  \/ Chatter
  \/ Drain
  \/ Close
  \/ Reset

Spec == Init /\ [][Next]_vars

\* The client runs on: system calls that can return do, polls time out, and the
\* kernel gives up connecting in the end.  Nothing is asked of the upstream.
FairSpec == Spec /\ WF_vars(Client)

-------------------------------------------------------------------------------
(* Properties *)

Places == {"idle", "connect", "buffer", "secure", "session", "handshake", "write", "read",
           "parse", "done"}

\* Neither reqbuf nor raw is overrun.
TypeOK ==
  /\ pc \in Places /\ wait \in Waits /\ held \subseteq Resources
  /\ req \in Request /\ sent \in 0 .. ReqLen /\ got \in 0 .. RawCap
  /\ up \in Upstream /\ out \in Result

\* Whatever fails, and wherever, the call gives back all it took: the request and
\* response buffers, the descriptor and the TLS objects.
NothingLeaks == pc = "idle" => held = {}

Succeeded == pc = "idle" /\ out.err = "none"
Cut == up.eof /\ up.left > 0

\* A plain response that is reported as a success is the whole body the upstream
\* had to send, up to the room the caller and raw have for it; only an upstream
\* that closes early is cut off unnoticed.  No success, TLS included, claims more
\* than was read and there is room for, and a failure delivers nothing; on the way
\* no buffer is overrun (TypeOK).
BodyDelivered ==
  /\ TypeOK
  /\ Succeeded /\ ~Https /\ ~Cut =>
       out.len = Min({up.resp.body, BodyCap, RawCap - up.resp.hdr})
  /\ Succeeded => out.len <= Min({BodyCap, got - up.resp.hdr})
  /\ pc = "idle" /\ ~Succeeded => out.len = 0

\* Records without data keep coming.  Each of them ends the poll it arrives in, and
\* the loops of tls_server.c then poll anew for the whole of timeout_ms.
RecordsForever == []<><<Chatter>>_vars

\* The loop thread gets its turn again, whatever is lost or left out: a TLS exchange
\* ends unless its upstream feeds it records without data forever (timeout_ms limits
\* one poll, nothing limits the exchange), and any exchange ends once the connection
\* is reset or the upstream closes after the request.
ExchangeEnds ==
  /\ RecordsForever \/ ((pc # "idle" /\ Https) ~> pc = "idle")
  /\ (pc # "idle" /\ (up.rst \/ (pc = "read" /\ up.eof))) ~> pc = "idle"

\* edge_tls.h on edge_tls_read_all_poll: "read until EOF with poll": a TLS read
\* that succeeds has seen the end of the response, or has filled the buffer.
ReadUntilEof == pc = "parse" => got = RawCap \/ (up.eof /\ up.avail = 0)
===============================================================================
