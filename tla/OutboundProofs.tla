---------------------------- MODULE OutboundProofs ----------------------------
(* The outbound client gives back what it took and delivers what it says it    *)
(* does, for every size of request, buffer and response and every upstream.    *)
EXTENDS Outbound, TLAPS

-------------------------------------------------------------------------------
(* What a call holds *)

\* What is held at each place: exactly known up to the connection, where the
\* early returns name what they free; after it only the label done frees.
HeldInv ==
  /\ held \subseteq Resources
  /\ pc = "idle" => held = {}
  /\ pc = "connect" => held = {"reqbuf"}
  /\ pc = "buffer" => held = {"reqbuf", "fd"}

\* No resource is held before the first exchange.
LEMMA HeldInit == Init => HeldInv
BY DEF Init, HeldInv, Resources

\* The start of a call, whose early returns free by name.
LEMMA HeldPrepare ==
  ASSUME HeldInv, NEW q, NEW r, Prepare(q, r)
  PROVE  HeldInv'
BY DEF HeldInv, Prepare, EarlyReturn, Resources, parse_url, build_request

\* So do the two steps that follow.
LEMMA HeldEarly ==
  ASSUME HeldInv, tcp_connect_host \/ AllocRaw
  PROVE  HeldInv'
<1>1. CASE tcp_connect_host
  BY <1>1 DEF HeldInv, tcp_connect_host, EarlyReturn, Resources
<1>2. CASE AllocRaw
  BY <1>2 DEF HeldInv, AllocRaw, EarlyReturn, Resources
<1> QED BY <1>1, <1>2

\* The steps of the exchange hold on to what they have; all of them end at done.
LEMMA HeldExchange ==
  ASSUME HeldInv,
         \/ edge_tls_client_ctx_create \/ edge_tls_client_conn_new_fd \/ Handshake
         \/ Write \/ Read \/ ReadEnds \/ ReadWants \/ PollReady \/ PollGivesUp \/ Parse
  PROVE  HeldInv'
<1>1. CASE edge_tls_client_ctx_create \/ edge_tls_client_conn_new_fd
  BY <1>1 DEF HeldInv, edge_tls_client_ctx_create, edge_tls_client_conn_new_fd, Done, Resources
<1>2. CASE Handshake
  BY <1>2 DEF HeldInv, Handshake, Done
<1>3. CASE Write
  BY <1>3 DEF HeldInv, Write, Written, Done
<1>4. CASE Read
  BY <1>4 DEF HeldInv, Read
<1>5. CASE ReadEnds \/ ReadWants
  BY <1>5 DEF HeldInv, ReadEnds, ReadWants, Done
<1>6. CASE PollReady
  BY <1>6 DEF HeldInv, PollReady
<1>7. CASE PollGivesUp
  BY <1>7 DEF HeldInv, PollGivesUp, Done
<1>8. CASE Parse
  BY <1>8 DEF HeldInv, Parse, Done
<1> QED BY <1>1, <1>2, <1>3, <1>4, <1>5, <1>6, <1>7, <1>8

\* The label done gives everything back.
LEMMA HeldFinish == HeldInv /\ Finish => HeldInv'
BY DEF HeldInv, Finish, Resources

\* The upstream cannot touch what the client holds.
LEMMA HeldUpstream ==
  ASSUME HeldInv, NEW n, Arrive(n) \/ Chatter \/ Drain \/ Close \/ Reset
  PROVE  HeldInv'
BY DEF HeldInv, Arrive, Chatter, Drain, Close, Reset, KeepClient

\* Every path through edge_outbound_http_execute, whatever fails and whatever the
\* upstream does, ends with nothing held.
THEOREM NothingIsLeaked == Spec => []NothingLeaks
<1>1. HeldInv /\ [Next]_vars => HeldInv'
  <2> SUFFICES ASSUME HeldInv, [Next]_vars PROVE HeldInv'
    OBVIOUS
  <2>1. ASSUME NEW q \in Request, NEW r \in Responses, Prepare(q, r) PROVE HeldInv'
    BY <2>1, HeldPrepare
  <2>2. CASE Client
    BY <2>2, HeldEarly, HeldExchange, HeldFinish DEF Client
  <2>3. ASSUME NEW n \in 1 .. RawCap + 1, Arrive(n) PROVE HeldInv'
    BY <2>3, HeldUpstream
  <2>4. CASE Chatter \/ Drain \/ Close \/ Reset
    BY <2>4, HeldUpstream
  <2>5. CASE UNCHANGED vars
    BY <2>5 DEF HeldInv, vars
  <2> QED BY <2>1, <2>2, <2>3, <2>4, <2>5 DEF Next
<1>2. HeldInv => NothingLeaks
  BY DEF HeldInv, NothingLeaks
<1> QED BY HeldInit, <1>1, <1>2, PTL DEF Spec

-------------------------------------------------------------------------------
(* What a success delivers *)

\* Min of two numbers.
LEMMA LeastOfTwo ==
  ASSUME NEW a \in Int, NEW b \in Int
  PROVE  Min({a, b}) = IF a <= b THEN a ELSE b
<1> DEFINE m == IF a <= b THEN a ELSE b
<1>1. m \in {a, b} /\ \A y \in {a, b} : m <= y
  OBVIOUS
<1>2. \A x \in {a, b} : (\A y \in {a, b} : x <= y) => x = m
  OBVIOUS
<1> HIDE DEF m
<1>3. Min({a, b}) = m
  BY <1>1, <1>2 DEF Min
<1> QED BY <1>3 DEF m

\* Min of three.
LEMMA LeastOfThree ==
  ASSUME NEW a \in Int, NEW b \in Int, NEW c \in Int, NEW m \in {a, b, c},
         m <= a, m <= b, m <= c
  PROVE  Min({a, b, c}) = m
<1>1. m \in {a, b, c} /\ \A y \in {a, b, c} : m <= y
  OBVIOUS
<1>2. \A x \in {a, b, c} : (\A y \in {a, b, c} : x <= y) => x = m
  OBVIOUS
<1> QED BY <1>1, <1>2 DEF Min

\* The reader has seen the end of what the upstream sent, or has no more room.
EndSeen == got = RawCap \/ (up.eof /\ up.avail = 0 /\ ~up.rst)

\* No byte of the response is read twice or out of nowhere, and only a reset
\* loses any.
BytesInv ==
  /\ got + up.avail + up.left <= up.resp.hdr + up.resp.body
  /\ ~up.rst => got + up.avail + up.left = up.resp.hdr + up.resp.body

\* Only TLS waits, and only in the three places that poll.
WaitInv ==
  /\ wait # NoWait => pc \in {"handshake", "write", "read"}
  /\ ~Https => wait = NoWait /\ pc \notin {"secure", "session", "handshake"}

\* The caller's record says nothing before the exchange ends, and then what was read.
ResultInv ==
  /\ pc \notin {"idle", "done"} => out = Cleared
  /\ ~Https /\ pc = "parse" => EndSeen
  /\ pc \in {"idle", "done"} /\ out.err = "none" =>
       /\ got >= up.resp.hdr
       /\ out.len = Min({got - up.resp.hdr, BodyCap})
       /\ ~Https => EndSeen
  /\ out.err # "none" => out.len = 0

DeliveryInv == TypeOK /\ BytesInv /\ WaitInv /\ ResultInv

\* The sizes are numbers, and none is zero.
LEMMA SizesAreNumbers ==
  /\ ReqLen \in Nat /\ RawCap \in Nat /\ BodyCap \in Nat
  /\ ReqLen > 0 /\ RawCap > 0 /\ BodyCap > 0
BY OutboundAssumption

\* The fields of a connection have their types.
LEMMA UpstreamFields ==
  ASSUME NEW u \in Upstream
  PROVE  /\ u.resp \in Response /\ u.left \in Nat /\ u.avail \in Nat
         /\ u.record \in BOOLEAN /\ u.room \in BOOLEAN /\ u.eof \in BOOLEAN /\ u.rst \in BOOLEAN
         /\ u.resp.hdr \in Nat /\ u.resp.hdr > 0 /\ u.resp.body \in Nat
BY DEF Upstream, Response

\* A connection on which nothing has happened yet.
LEMMA SilentIsTyped ==
  ASSUME NEW r \in Response
  PROVE  /\ Silent(r) \in Upstream
         /\ Silent(r).resp = r /\ Silent(r).left = r.hdr + r.body /\ Silent(r).avail = 0
         /\ Silent(r).rst = FALSE
<1>1. r.hdr + r.body \in Nat
  BY DEF Response
<1> QED BY <1>1 DEF Silent, Upstream

\* A result without an error, and one with it.
LEMMA ClearedIsTyped ==
  /\ Cleared \in Result /\ Cleared.err = "none" /\ Cleared.len = 0
  /\ \A e \in Errors :
       /\ [Cleared EXCEPT !.err = e] \in Result
       /\ [Cleared EXCEPT !.err = e].err = e
       /\ [Cleared EXCEPT !.err = e].len = 0
BY DEF Cleared, Result, Errors

\* Nothing has been read or claimed at first.
LEMMA DeliveryInit == Init => DeliveryInv
<1> SUFFICES ASSUME Init PROVE DeliveryInv
  OBVIOUS
<1>1. PICK r \in Response : up = Silent(r)
  BY OutboundAssumption DEF Init
<1>2. out = [Cleared EXCEPT !.err = "EINVAL"] /\ "EINVAL" \in Errors
  BY DEF Init, Errors
<1>a. /\ up \in Upstream /\ up.resp = r /\ up.left = r.hdr + r.body /\ up.avail = 0
      /\ r.hdr \in Nat /\ r.body \in Nat
  <2>1. r.hdr \in Nat /\ r.body \in Nat
    BY DEF Response
  <2> QED BY <1>1, <2>1, SilentIsTyped
<1>3. TypeOK
  <2>1. out \in Result
    BY <1>2, ClearedIsTyped
  <2>2. req \in Request
    BY DEF Init, Request
  <2>3. sent \in 0 .. ReqLen /\ got \in 0 .. RawCap
    BY SizesAreNumbers DEF Init
  <2> QED
    BY <1>a, <2>1, <2>2, <2>3 DEF Init, TypeOK, Places, Waits
<1>4. BytesInv
  BY <1>a DEF Init, BytesInv
<1>5. WaitInv
  BY DEF Init, WaitInv
<1>6. ResultInv
  BY <1>2, ClearedIsTyped DEF Init, ResultInv
<1> QED BY <1>3, <1>4, <1>5, <1>6 DEF DeliveryInv

\* A call starts from nothing; the early returns claim nothing.
LEMMA DeliveryPrepare ==
  ASSUME DeliveryInv, NEW q \in Request, NEW r \in Responses, Prepare(q, r)
  PROVE  DeliveryInv'
<1>1. r \in Response /\ up' = Silent(r) /\ req' = q /\ sent' = 0 /\ got' = 0 /\ wait' = wait
  BY OutboundAssumption DEF Prepare
<1>2. wait = NoWait
  BY DEF DeliveryInv, WaitInv, Prepare
<1>3. \/ pc' = "connect" /\ out' = Cleared /\ held' = held \cup {"reqbuf"}
      \/ /\ pc' = "idle" /\ held' \subseteq held
         /\ \E e \in Errors \ {"none"} : out' = [Cleared EXCEPT !.err = e]
  BY DEF Prepare, EarlyReturn, Errors
<1>4. /\ out' \in Result /\ out'.len = 0 /\ pc' \in {"connect", "idle"}
      /\ pc' = "connect" => out' = Cleared
      /\ pc' = "idle" => out'.err # "none"
  BY <1>3, ClearedIsTyped
<1>a. /\ up' \in Upstream /\ up'.resp = r /\ up'.left = r.hdr + r.body /\ up'.avail = 0
      /\ r.hdr \in Nat /\ r.body \in Nat
  <2>1. r.hdr \in Nat /\ r.body \in Nat
    BY <1>1 DEF Response
  <2> QED BY <1>1, <2>1, SilentIsTyped
<1>5. TypeOK'
  <2>1. held' \subseteq Resources
    BY <1>3 DEF DeliveryInv, TypeOK, Resources
  <2>2. sent' \in 0 .. ReqLen /\ got' \in 0 .. RawCap
    BY <1>1, SizesAreNumbers
  <2> QED
    BY <1>1, <1>2, <1>4, <1>a, <2>1, <2>2 DEF TypeOK, Places, Waits
<1>6. BytesInv'
  BY <1>1, <1>a DEF BytesInv
<1>7. WaitInv'
  BY <1>1, <1>2, <1>4 DEF WaitInv, Https
<1>8. ResultInv'
  BY <1>4 DEF ResultInv
<1> QED BY <1>5, <1>6, <1>7, <1>8 DEF DeliveryInv

\* What has been sent, has arrived and is read stays as it is.
SameBytes ==
  /\ up' \in Upstream /\ got' = got
  /\ up'.resp = up.resp /\ up'.left = up.left /\ up'.avail = up.avail
  /\ up'.eof = up.eof /\ up'.rst = up.rst

\* Then the account of the bytes still holds, and so does what the reader has seen.
LEMMA SameBytesSameAccount ==
  ASSUME BytesInv, SameBytes
  PROVE  BytesInv' /\ (EndSeen' <=> EndSeen)
BY DEF BytesInv, SameBytes, EndSeen

\* A failure in the exchange sets the error of a result that claims nothing.
LEMMA DoneIsTyped ==
  ASSUME DeliveryInv, NEW e \in Errors, e # "none", pc \notin {"idle", "done"}, Done(e)
  PROVE  pc' = "done" /\ out' \in Result /\ out'.err # "none" /\ out'.len = 0
BY ClearedIsTyped DEF DeliveryInv, ResultInv, Done

\* A step of the exchange that leaves the bytes alone, and either goes on with the
\* result still empty, or ends with an error.
LEMMA DeliveryQuiet ==
  ASSUME DeliveryInv, SameBytes, req' = req, wait' \in Waits,
         sent' \in 0 .. ReqLen, held' \subseteq Resources,
         pc \notin {"idle", "done"},
         \/ /\ pc' \in Places \ {"idle", "done"} /\ out' = out
            /\ pc' = "parse" /\ ~Https => EndSeen
            /\ ~Https => pc' \notin {"secure", "session", "handshake"}
         \/ pc' = "done" /\ out' \in Result /\ out'.err # "none" /\ out'.len = 0,
         wait' # NoWait => Https /\ pc' \in {"handshake", "write", "read"}
  PROVE  DeliveryInv'
<1>1. BytesInv' /\ (EndSeen' <=> EndSeen)
  BY SameBytesSameAccount DEF DeliveryInv
<1>2. out = Cleared /\ out.err = "none" /\ out.len = 0
  BY ClearedIsTyped DEF DeliveryInv, ResultInv
<1>3. TypeOK'
  BY DEF DeliveryInv, TypeOK, SameBytes, Places
<1>4. WaitInv'
  BY DEF WaitInv, Https
<1>5. ResultInv'
  BY <1>1, <1>2 DEF ResultInv, Https
<1> QED BY <1>1, <1>3, <1>4, <1>5 DEF DeliveryInv

\* Up to the exchange; the early returns go straight back to the caller.
LEMMA DeliveryEarly ==
  ASSUME DeliveryInv, tcp_connect_host \/ AllocRaw
  PROVE  DeliveryInv'
<1>1. /\ SameBytes /\ req' = req /\ wait' = wait /\ sent' = sent /\ pc \in {"connect", "buffer"}
      /\ pc' \in {"idle", "buffer", "secure", "write"}
      /\ pc' = "secure" => Https
  BY DEF tcp_connect_host, AllocRaw, EarlyReturn, SameBytes, DeliveryInv, TypeOK
<1>2. wait = NoWait
  BY <1>1 DEF DeliveryInv, WaitInv
<1>3. held' \subseteq Resources
  BY DEF tcp_connect_host, AllocRaw, EarlyReturn, Resources, DeliveryInv, TypeOK
<1>4. CASE pc' = "idle"
  <2>1. \E e \in Errors \ {"none"} : out' = [Cleared EXCEPT !.err = e]
    BY <1>4 DEF tcp_connect_host, AllocRaw, EarlyReturn, Errors
  <2>2. out' \in Result /\ out'.err # "none" /\ out'.len = 0
    BY <2>1, ClearedIsTyped
  <2>3. TypeOK'
    BY <1>1, <1>3, <1>4, <2>2 DEF DeliveryInv, TypeOK, SameBytes, Places
  <2>4. BytesInv'
    BY <1>1, SameBytesSameAccount DEF DeliveryInv
  <2>5. WaitInv'
    BY <1>1, <1>2, <1>4 DEF WaitInv
  <2>6. ResultInv'
    BY <1>4, <2>2 DEF ResultInv
  <2> QED BY <2>3, <2>4, <2>5, <2>6 DEF DeliveryInv
<1>5. CASE pc' # "idle"
  <2>1. out' = out
    BY <1>5 DEF tcp_connect_host, AllocRaw, EarlyReturn
  <2>2. wait' \in Waits /\ sent' \in 0 .. ReqLen
    BY <1>1 DEF DeliveryInv, TypeOK
  <2> QED BY <1>1, <1>2, <1>3, <1>5, <2>1, <2>2, DeliveryQuiet DEF Places
<1> QED BY <1>4, <1>5

\* Setting up TLS.
LEMMA DeliverySecure ==
  ASSUME DeliveryInv, edge_tls_client_ctx_create \/ edge_tls_client_conn_new_fd
  PROVE  DeliveryInv'
<1>1. /\ SameBytes /\ req' = req /\ wait' = wait /\ sent' = sent /\ pc \in {"secure", "session"}
      /\ held' \subseteq Resources
  BY DEF edge_tls_client_ctx_create, edge_tls_client_conn_new_fd, SameBytes, Done,
         DeliveryInv, TypeOK, Resources
<1>2. wait = NoWait /\ Https /\ wait' \in Waits /\ sent' \in 0 .. ReqLen
  BY <1>1 DEF DeliveryInv, WaitInv, TypeOK
<1>3. \/ Done("EIO")
      \/ pc' \in {"session", "handshake"} /\ out' = out
  BY DEF edge_tls_client_ctx_create, edge_tls_client_conn_new_fd
<1>4. CASE Done("EIO")
  <2>1. pc' = "done" /\ out' \in Result /\ out'.err # "none" /\ out'.len = 0
    BY <1>1, <1>4, DoneIsTyped DEF Errors
  <2> QED BY <1>1, <1>2, <2>1, DeliveryQuiet
<1>5. CASE pc' \in {"session", "handshake"} /\ out' = out
  BY <1>1, <1>2, <1>5, DeliveryQuiet DEF Places
<1> QED BY <1>3, <1>4, <1>5

\* Rounds of the handshake: a record is used up, no byte of the response.
LEMMA DeliveryHandshake ==
  ASSUME DeliveryInv, Handshake
  PROVE  DeliveryInv'
<1>1. up' = [up EXCEPT !.record = FALSE] /\ up \in Upstream /\ pc = "handshake" /\ got' = got
  BY DEF Handshake, DeliveryInv, TypeOK
<1>2. SameBytes
  BY <1>1 DEF SameBytes, Upstream
<1>3. /\ req' = req /\ sent' = sent /\ held' = held /\ wait = NoWait
      /\ \/ pc' = "write" /\ wait' = wait /\ out' = out
         \/ Done("ECONNREFUSED") /\ wait' = wait
         \/ pc' = pc /\ wait' \in {"in", "out"} /\ out' = out
  BY DEF Handshake
<1>4. Https /\ wait' \in Waits /\ sent' \in 0 .. ReqLen /\ held' \subseteq Resources
  BY <1>1, <1>3 DEF DeliveryInv, WaitInv, TypeOK, Waits
<1>5. CASE Done("ECONNREFUSED") /\ wait' = wait
  <2>1. pc' = "done" /\ out' \in Result /\ out'.err # "none" /\ out'.len = 0
    BY <1>1, <1>5, DoneIsTyped DEF Errors
  <2> QED BY <1>1, <1>2, <1>3, <1>4, <1>5, <2>1, DeliveryQuiet
<1>6. CASE pc' \in {"write", "handshake"} /\ out' = out
  BY <1>1, <1>2, <1>3, <1>4, <1>6, DeliveryQuiet DEF Places
<1> QED BY <1>1, <1>3, <1>5, <1>6

\* Rounds of the write.
LEMMA DeliveryWrite ==
  ASSUME DeliveryInv, Write
  PROVE  DeliveryInv'
<1>0. /\ pc = "write" /\ wait = NoWait /\ up \in Upstream /\ wait \in Waits
      /\ sent \in 0 .. ReqLen /\ held \subseteq Resources
  BY DEF Write, DeliveryInv, TypeOK
<1>1. ASSUME NEW k \in 1 .. ReqLen - sent, Written(k) PROVE DeliveryInv'
  <2>1. PICK room \in BOOLEAN : up' = [up EXCEPT !.room = room]
    BY <1>1 DEF Written
  <2>2. SameBytes
    BY <1>0, <1>1, <2>1 DEF SameBytes, Upstream, Written
  <2>3. sent' \in 0 .. ReqLen
    BY <1>0, <1>1, SizesAreNumbers DEF Written
  <2>4. /\ req' = req /\ wait' = wait /\ held' = held /\ out' = out
        /\ pc' \in {"read", "write"}
    BY <1>1 DEF Written
  <2> QED BY <1>0, <2>2, <2>3, <2>4, DeliveryQuiet DEF Places
<1>2. CASE Done("EIO") /\ UNCHANGED <<wait, held, req, sent, got, up>>
  <2>1. pc' = "done" /\ out' \in Result /\ out'.err # "none" /\ out'.len = 0
    BY <1>0, <1>2, DoneIsTyped DEF Errors
  <2>2. SameBytes
    BY <1>0, <1>2 DEF SameBytes
  <2> QED BY <1>0, <1>2, <2>1, <2>2, DeliveryQuiet
<1>3. ASSUME NEW n \in {"in", "out"}, Https, wait' = n, up' = [up EXCEPT !.record = @ /\ n = "out"],
             UNCHANGED <<pc, held, req, sent, got, out>>
      PROVE  DeliveryInv'
  <2>1. SameBytes
    BY <1>0, <1>3 DEF SameBytes, Upstream
  <2>2. wait' \in Waits
    BY <1>3 DEF Waits
  <2> QED BY <1>0, <1>3, <2>1, <2>2, DeliveryQuiet DEF Places
<1>4. "in" \notin PlainWrite /\ "out" \notin PlainWrite
  BY DEF PlainWrite
<1> QED BY <1>1, <1>2, <1>3, <1>4 DEF Write

\* A read takes no more than has arrived and than there is room for.
LEMMA DeliveryRead ==
  ASSUME DeliveryInv, Read
  PROVE  DeliveryInv'
<1>0. /\ pc = "read" /\ wait = NoWait /\ up \in Upstream /\ got \in Nat /\ got < RawCap
      /\ up.avail \in Nat
      /\ UNCHANGED <<pc, wait, held, req, sent, out>>
  BY SizesAreNumbers, UpstreamFields DEF Read, DeliveryInv, TypeOK
<1>1. PICK n \in 1 .. Min({up.avail, RawCap - got}) :
        got' = got + n /\ up' = [up EXCEPT !.avail = @ - n]
  BY DEF Read
<1>2. n \in Nat /\ n <= up.avail /\ n <= RawCap - got
  BY <1>0, SizesAreNumbers, LeastOfTwo
<1>3. up.avail - n \in Nat /\ up'.avail = up.avail - n /\ up' = [up EXCEPT !.avail = up.avail - n]
  BY <1>0, <1>1, <1>2 DEF Upstream
<1>4. /\ up' \in Upstream /\ up'.resp = up.resp /\ up'.left = up.left
      /\ up'.eof = up.eof /\ up'.rst = up.rst
  BY <1>0, <1>3 DEF Upstream
<1>5. got' \in 0 .. RawCap
  BY <1>0, <1>1, <1>2, SizesAreNumbers
<1>6. got' + up'.avail = got + up.avail
  BY <1>0, <1>1, <1>2, <1>3
<1>7. TypeOK'
  BY <1>0, <1>4, <1>5 DEF DeliveryInv, TypeOK
<1>8. BytesInv'
  BY <1>4, <1>6 DEF DeliveryInv, BytesInv
<1>9. WaitInv'
  BY <1>0 DEF DeliveryInv, WaitInv, Https
<1>10. ResultInv'
  BY <1>0, ClearedIsTyped DEF DeliveryInv, ResultInv
<1> QED BY <1>7, <1>8, <1>9, <1>10 DEF DeliveryInv

\* The end of the loop, and its waits.  Without TLS the loop ends in a success only
\* when the end is seen.
LEMMA DeliveryReadEnds ==
  ASSUME DeliveryInv, ReadEnds
  PROVE  DeliveryInv'
<1>0. /\ pc = "read" /\ wait = NoWait /\ up \in Upstream /\ wait \in Waits
      /\ sent \in 0 .. ReqLen /\ held \subseteq Resources
      /\ UNCHANGED <<wait, held, req, sent, got, up>>
  BY DEF ReadEnds, DeliveryInv, TypeOK
<1>1. SameBytes
  BY <1>0 DEF SameBytes
<1>2. CASE (got = RawCap \/ "eof" \in NoData) /\ pc' = "parse" /\ out' = out
  <2>1. ASSUME "eof" \in NoData, ~Https PROVE up.eof /\ up.avail = 0 /\ ~up.rst
    BY <1>0, <2>1, UpstreamFields DEF NoData, PlainRead
  <2>2. ~Https => EndSeen
    BY <1>2, <2>1 DEF EndSeen
  <2> QED BY <1>0, <1>1, <1>2, <2>2, DeliveryQuiet DEF Places
<1>3. CASE Done("EIO")
  <2>1. pc' = "done" /\ out' \in Result /\ out'.err # "none" /\ out'.len = 0
    BY <1>0, <1>3, DoneIsTyped DEF Errors
  <2> QED BY <1>0, <1>1, <2>1, DeliveryQuiet
<1> QED BY <1>2, <1>3 DEF ReadEnds

\* Only TLS waits for more.
LEMMA DeliveryReadWants ==
  ASSUME DeliveryInv, ReadWants
  PROVE  DeliveryInv'
<1>0. /\ pc = "read" /\ up \in Upstream /\ up' = [up EXCEPT !.record = FALSE]
      /\ sent \in 0 .. ReqLen /\ held \subseteq Resources
      /\ UNCHANGED <<pc, held, req, sent, got, out>>
  BY DEF ReadWants, DeliveryInv, TypeOK
<1>1. SameBytes
  BY <1>0 DEF SameBytes, Upstream
<1>2. Https
  BY DEF ReadWants, NoData, PlainRead
<1>3. wait' \in Waits
  BY DEF ReadWants, Waits
<1> QED BY <1>0, <1>1, <1>2, <1>3, DeliveryQuiet DEF Places

\* A poll that ends well or not.
LEMMA DeliveryPoll ==
  ASSUME DeliveryInv, PollReady \/ PollGivesUp
  PROVE  DeliveryInv'
<1>0. /\ wait # NoWait /\ wait' = NoWait /\ up \in Upstream
      /\ sent \in 0 .. ReqLen /\ held \subseteq Resources
      /\ UNCHANGED <<held, req, sent, got, up>>
  BY DEF PollReady, PollGivesUp, DeliveryInv, TypeOK
<1>1. SameBytes
  BY <1>0 DEF SameBytes
<1>2. Https /\ pc \in {"handshake", "write", "read"} /\ wait' \in Waits
  BY <1>0 DEF DeliveryInv, WaitInv, Waits
<1>3. CASE pc' \in {pc, "parse"} /\ out' = out
  BY <1>0, <1>1, <1>2, <1>3, DeliveryQuiet DEF Places
<1>4. ASSUME NEW e \in Errors \ {"none"}, Done(e) PROVE DeliveryInv'
  <2>1. pc' = "done" /\ out' \in Result /\ out'.err # "none" /\ out'.len = 0
    BY <1>2, <1>4, DoneIsTyped
  <2> QED BY <1>0, <1>1, <1>2, <2>1, DeliveryQuiet
<1>5. {"ECONNREFUSED", "EIO"} \subseteq Errors \ {"none"}
  BY DEF Errors
<1> QED BY <1>3, <1>4, <1>5 DEF PollReady, PollGivesUp

\* The parser claims what lies behind the headers, as far as there is room for it.
LEMMA DeliveryParse ==
  ASSUME DeliveryInv, Parse
  PROVE  DeliveryInv'
<1>0. /\ pc = "parse" /\ up \in Upstream /\ wait \in Waits /\ wait = NoWait /\ got \in Nat
      /\ sent \in 0 .. ReqLen /\ held \subseteq Resources
      /\ out = Cleared /\ UNCHANGED <<wait, held, req, sent, got, up>>
  BY SizesAreNumbers DEF Parse, DeliveryInv, TypeOK, WaitInv, ResultInv
<1>1. SameBytes
  BY <1>0 DEF SameBytes
<1>2. CASE Done("EPROTO")
  <2>1. pc' = "done" /\ out' \in Result /\ out'.err # "none" /\ out'.len = 0
    BY <1>0, <1>2, DoneIsTyped DEF Errors
  <2> QED BY <1>0, <1>1, <2>1, DeliveryQuiet
<1>3. CASE /\ up.resp.line # "bad" /\ got >= up.resp.hdr
           /\ pc' = "done"
           /\ out' = [out EXCEPT !.own = up.resp.line = "ok",
                                 !.len = Min({got - up.resp.hdr, BodyCap})]
  <2> DEFINE own == up.resp.line = "ok"
             len == Min({got - up.resp.hdr, BodyCap})
  <2>1. got - up.resp.hdr \in Nat
    BY <1>0, <1>3, UpstreamFields
  <2>2. len \in Nat
    BY <2>1, SizesAreNumbers, LeastOfTwo
  <2>3. own \in BOOLEAN
    OBVIOUS
  <2>4. out' = [Cleared EXCEPT !.own = own, !.len = len]
    BY <1>0, <1>3
  <2> HIDE DEF own, len
  <2>5. out' \in Result /\ out'.err = "none" /\ out'.len = len
    BY <2>2, <2>3, <2>4, ClearedIsTyped DEF Result
  <2>6. TypeOK'
    BY <1>0, <1>3, <2>5 DEF DeliveryInv, TypeOK, Places
  <2>7. BytesInv' /\ (EndSeen' <=> EndSeen)
    BY <1>1, SameBytesSameAccount DEF DeliveryInv
  <2>8. WaitInv'
    BY <1>0, <1>3 DEF WaitInv
  <2>9. ~Https => EndSeen
    BY <1>0 DEF DeliveryInv, ResultInv
  <2>10. ResultInv'
    BY <1>0, <1>3, <2>5, <2>7, <2>9 DEF ResultInv, Https, len
  <2> QED BY <2>6, <2>7, <2>8, <2>10 DEF DeliveryInv
<1> QED BY <1>2, <1>3 DEF Parse

\* The return keeps what the exchange found out.
LEMMA DeliveryFinish ==
  ASSUME DeliveryInv, Finish
  PROVE  DeliveryInv'
<1>0. /\ pc = "done" /\ pc' = "idle" /\ up \in Upstream /\ wait = NoWait /\ out \in Result
      /\ held' \subseteq Resources /\ UNCHANGED <<wait, req, sent, got, up>>
  BY DEF Finish, DeliveryInv, TypeOK, WaitInv
<1>1. SameBytes
  BY <1>0 DEF SameBytes
<1>2. /\ out' \in Result /\ out'.err = out.err /\ out'.len = out.len
  BY <1>0 DEF Finish, Result
<1>3. TypeOK'
  BY <1>0, <1>2 DEF DeliveryInv, TypeOK, Places
<1>4. BytesInv' /\ (EndSeen' <=> EndSeen)
  BY <1>1, SameBytesSameAccount DEF DeliveryInv
<1>5. WaitInv'
  BY <1>0 DEF WaitInv
<1>6. ResultInv'
  BY <1>0, <1>2, <1>4 DEF DeliveryInv, ResultInv, Https
<1> QED BY <1>3, <1>4, <1>5, <1>6 DEF DeliveryInv

\* The upstream acts only while the connection is in use: what a finished read has
\* seen stays seen.
LEMMA DeliveryUpstream ==
  ASSUME DeliveryInv, NEW n \in 1 .. RawCap + 1, Arrive(n) \/ Chatter \/ Drain \/ Close \/ Reset
  PROVE  DeliveryInv'
<1>0. /\ Connected /\ UNCHANGED <<pc, wait, held, req, sent, got, out>>
      /\ up \in Upstream /\ got \in Nat
  BY SizesAreNumbers DEF Arrive, Chatter, Drain, Close, Reset, KeepClient, Live, DeliveryInv, TypeOK
<1>1. up' \in Upstream /\ up'.resp = up.resp /\ BytesInv'
  <2>1. CASE Arrive(n)
    <3>1. /\ up.left \in Nat /\ up.avail \in Nat /\ n \in Nat /\ n <= up.left
          /\ up' = [up EXCEPT !.left = @ - n, !.avail = @ + n]
      BY <1>0, <2>1, UpstreamFields, SizesAreNumbers DEF Arrive
    <3> DEFINE l == up.left - n
               a == up.avail + n
    <3>2. l \in Nat /\ a \in Nat /\ a + l = up.avail + up.left
      BY <3>1
    <3>3. up' = [up EXCEPT !.left = l, !.avail = a]
      BY <1>0, <3>1 DEF Upstream
    <3> HIDE DEF l, a
    <3>4. /\ up' \in Upstream /\ up'.resp = up.resp /\ up'.left = l /\ up'.avail = a
          /\ up'.rst = up.rst
      BY <1>0, <3>2, <3>3 DEF Upstream
    <3>5. got' + up'.avail + up'.left = got + up.avail + up.left
      BY <1>0, <3>1, <3>2, <3>4
    <3>6. BytesInv'
      BY <3>4, <3>5 DEF BytesInv, DeliveryInv
    <3> QED BY <3>4, <3>6
  <2>2. CASE Chatter
    <3>1. up' = [up EXCEPT !.record = TRUE]
      BY <2>2 DEF Chatter
    <3>2. SameBytes
      BY <1>0, <3>1 DEF SameBytes, Upstream
    <3> QED BY <3>2, SameBytesSameAccount DEF SameBytes, DeliveryInv
  <2>3. CASE Drain
    <3>1. SameBytes
      BY <1>0, <2>3 DEF SameBytes, Upstream, Drain
    <3> QED BY <3>1, SameBytesSameAccount DEF SameBytes, DeliveryInv
  <2>4. CASE Close
    <3>1. up' = [up EXCEPT !.eof = TRUE]
      BY <2>4 DEF Close
    <3>2. /\ up' \in Upstream /\ up'.resp = up.resp /\ up'.left = up.left
          /\ up'.avail = up.avail /\ up'.rst = up.rst
      BY <1>0, <3>1 DEF Upstream
    <3> QED BY <1>0, <3>2 DEF BytesInv, DeliveryInv
  <2>5. CASE Reset
    <3>1. up' = [up EXCEPT !.rst = TRUE, !.avail = 0, !.record = FALSE]
      BY <2>5 DEF Reset
    <3>2. /\ up' \in Upstream /\ up'.resp = up.resp /\ up'.left = up.left
          /\ up'.avail = 0 /\ up'.rst = TRUE
      BY <1>0, <3>1 DEF Upstream
    <3>3. BytesInv'
      BY <1>0, <3>2, UpstreamFields DEF BytesInv, DeliveryInv
    <3> QED BY <3>2, <3>3
  <2> QED BY <2>1, <2>2, <2>3, <2>4, <2>5
<1>2. TypeOK'
  BY <1>0, <1>1 DEF DeliveryInv, TypeOK
<1>3. WaitInv'
  BY <1>0 DEF DeliveryInv, WaitInv, Https
<1>4. ResultInv'
  BY <1>0, ClearedIsTyped DEF DeliveryInv, ResultInv, Connected
<1> QED BY <1>1, <1>2, <1>3, <1>4 DEF DeliveryInv

\* What the invariant says of a finished call is what it has to deliver.
LEMMA DeliveryDelivers == DeliveryInv => BodyDelivered
<1> SUFFICES ASSUME DeliveryInv PROVE BodyDelivered
  OBVIOUS
<1> DEFINE hdr == up.resp.hdr
           body == up.resp.body
<1>0. /\ up \in Upstream /\ got \in Nat /\ got <= RawCap /\ hdr \in Nat /\ body \in Nat
      /\ up.avail \in Nat /\ up.left \in Nat
  BY SizesAreNumbers, UpstreamFields DEF DeliveryInv, TypeOK
<1>1. ASSUME Succeeded
      PROVE  /\ got - hdr \in Nat /\ out.len = Min({got - hdr, BodyCap})
             /\ ~Https => EndSeen
  BY <1>0, <1>1 DEF DeliveryInv, ResultInv, Succeeded
<1>2. ASSUME Succeeded, ~Https, ~Cut
      PROVE  out.len = Min({body, BodyCap, RawCap - hdr})
  <2>1. got + up.avail + up.left <= hdr + body
    BY DEF DeliveryInv, BytesInv
  <2>2. got - hdr = body \/ (got = RawCap /\ got - hdr <= body)
    <3>1. CASE got = RawCap
      BY <1>0, <2>1, <3>1
    <3>2. CASE up.eof /\ up.avail = 0 /\ ~up.rst
      <4>1. up.left = 0
        BY <1>0, <1>2, <3>2 DEF Cut
      <4>2. got + up.avail + up.left = hdr + body
        BY <3>2 DEF DeliveryInv, BytesInv
      <4> QED BY <1>0, <3>2, <4>1, <4>2
    <3> QED BY <1>1, <1>2, <3>1, <3>2 DEF EndSeen
  <2>3. out.len = IF got - hdr <= BodyCap THEN got - hdr ELSE BodyCap
    BY <1>0, <1>1, <1>2, SizesAreNumbers, LeastOfTwo
  <2>4. /\ out.len \in {body, BodyCap, RawCap - hdr}
        /\ out.len <= body /\ out.len <= BodyCap /\ out.len <= RawCap - hdr
        /\ RawCap - hdr \in Int
    BY <1>0, <1>1, <1>2, <2>2, <2>3, SizesAreNumbers
  <2> HIDE DEF hdr, body
  <2>5. BodyCap \in Int /\ body \in Int
    BY <1>0, SizesAreNumbers
  <2> QED BY <2>4, <2>5, LeastOfThree
<1>3. Succeeded => out.len <= Min({BodyCap, got - hdr})
  BY <1>0, <1>1, SizesAreNumbers, LeastOfTwo
<1>4. pc = "idle" /\ ~Succeeded => out.len = 0
  BY DEF DeliveryInv, ResultInv, Succeeded
<1> QED BY <1>2, <1>3, <1>4 DEF BodyDelivered, DeliveryInv

LEMMA DeliveryNext == DeliveryInv /\ [Next]_vars => DeliveryInv'
<1> SUFFICES ASSUME DeliveryInv, [Next]_vars PROVE DeliveryInv'
  OBVIOUS
<1>1. ASSUME NEW q \in Request, NEW r \in Responses, Prepare(q, r) PROVE DeliveryInv'
  BY <1>1, DeliveryPrepare
<1>2. CASE Client
  BY <1>2, DeliveryEarly, DeliverySecure, DeliveryHandshake, DeliveryWrite, DeliveryRead,
     DeliveryReadEnds, DeliveryReadWants, DeliveryPoll, DeliveryParse, DeliveryFinish
  DEF Client
<1>3. ASSUME NEW n \in 1 .. RawCap + 1, Arrive(n) PROVE DeliveryInv'
  BY <1>3, DeliveryUpstream
<1>4. CASE Chatter \/ Drain \/ Close \/ Reset
  <2>1. 1 \in 1 .. RawCap + 1
    BY SizesAreNumbers
  <2> QED BY <1>4, <2>1, DeliveryUpstream
<1>5. CASE UNCHANGED vars
  <2>1. TypeOK'
    BY <1>5 DEF DeliveryInv, TypeOK, vars
  <2>2. BytesInv' /\ WaitInv'
    BY <1>5 DEF DeliveryInv, BytesInv, WaitInv, Https, vars
  <2>3. ResultInv'
    BY <1>5 DEF DeliveryInv, ResultInv, EndSeen, Https, vars
  <2> QED BY <2>1, <2>2, <2>3 DEF DeliveryInv
<1> QED BY <1>1, <1>2, <1>3, <1>4, <1>5 DEF Next

\* A plain exchange that edge_outbound_http_execute reports as a success has
\* delivered the whole body, up to the room for it, unless the upstream itself cut it
\* short; no exchange claims more than it read, and a failure claims nothing.
THEOREM BodyIsDelivered == Spec => []BodyDelivered
BY DeliveryInit, DeliveryNext, DeliveryDelivers, PTL DEF Spec

\* io_read_all_fd does read to the end: a response that came over plain TCP is only
\* parsed once the upstream has closed and everything it sent is read, or the buffer is
\* full.  What edge_tls.h says of the TLS reader, "read until EOF", is true of this one.
THEOREM PlainReadsToEof == Spec => [](~Https => ReadUntilEof)
<1>1. DeliveryInv => (~Https => ReadUntilEof)
  BY DEF DeliveryInv, ResultInv, EndSeen, ReadUntilEof
<1> QED BY <1>1, DeliveryInit, DeliveryNext, PTL DEF Spec

-------------------------------------------------------------------------------
(* No loop of the client runs in place *)

\* How far the exchange is from its end.
Rank(p) ==
  CASE p = "idle" -> 0 [] p = "done" -> 1 [] p = "parse" -> 2 [] p = "read" -> 3
    [] p = "write" -> 4 [] p = "handshake" -> 5 [] p = "session" -> 6 [] p = "secure" -> 7
    [] p = "buffer" -> 8 [] p = "connect" -> 9

\* The bytes that are still to be written and may still be read.
ToGo == (ReqLen - sent) + (RawCap - got)

\* The record without data that is there to be gone through.
Records == IF up.record THEN 1 ELSE 0

\* The event that lets the loop at pc do more than wait, and the wait that is not for it:
\* TLS may want to read in order to write, and to write in order to read.
Served == IF pc = "write" THEN up.room \/ up.rst
          ELSE up.avail > 0 \/ up.record \/ up.eof \/ up.rst
Crosswise == IF pc = "write" THEN "in" ELSE "out"

\* Within one round of a loop: it comes back from a crosswise wait, has nothing to do,
\* waits for its event, has it, and is back.
Round == IF wait = Crosswise THEN 4
         ELSE IF Served THEN (IF wait = NoWait THEN 0 ELSE 1)
         ELSE IF wait = NoWait THEN 3 ELSE 2

Progress ==
  \/ Rank(pc') < Rank(pc)
  \/ /\ pc' = pc
     /\ \/ ToGo' < ToGo
        \/ ToGo' = ToGo /\ Records' < Records
        \/ ToGo' = ToGo /\ Records' = Records /\ Round' < Round

Standstill == pc' = pc /\ ToGo' = ToGo /\ Records' = Records /\ Round' = Round

\* What each loop may be waiting for, and when data may be there.
PollInv ==
  /\ pc = "write" => wait # "brief"
  /\ pc \in {"connect", "buffer", "secure", "session", "handshake"} => up.avail = 0

\* The four parts of the measure are natural numbers, so it cannot decrease forever.
LEMMA MeasureIsNatural ==
  ASSUME TypeOK, PollInv
  PROVE  Rank(pc) \in Nat /\ ToGo \in Nat /\ Records \in Nat /\ Round \in Nat
<1>1. Rank(pc) \in Nat
  BY DEF TypeOK, Places, Rank
<1>2. ToGo \in Nat
  BY SizesAreNumbers DEF TypeOK, ToGo
<1>3. Records \in Nat
  BY DEF Records
<1>4. Round \in Nat
  BY DEF Round
<1> QED BY <1>1, <1>2, <1>3, <1>4

\* A record without data is consumed.
LEMMA RecordsFall ==
  ASSUME up.record, ~up'.record
  PROVE  Records' < Records
BY DEF Records

\* The steps to the next place on the way.
LEMMA PlacesProgress ==
  ASSUME TypeOK,
         \/ tcp_connect_host \/ AllocRaw \/ edge_tls_client_ctx_create
         \/ edge_tls_client_conn_new_fd \/ ReadEnds \/ Parse \/ Finish
  PROVE  Rank(pc') < Rank(pc)
BY DEF tcp_connect_host, AllocRaw, EarlyReturn, edge_tls_client_ctx_create,
       edge_tls_client_conn_new_fd, ReadEnds, Parse, Finish, Done, Rank

LEMMA PollGivesUpProgress ==
  ASSUME PollGivesUp
  PROVE  Rank(pc') < Rank(pc)
BY DEF PollGivesUp, Done, Rank

\* poll_fd says the descriptor is ready: a crosswise wait is over, or the event is there.
LEMMA PollReadyProgress ==
  ASSUME TypeOK, PollInv, WaitInv, PollReady
  PROVE  Progress
<1>1. wait # NoWait /\ Ready /\ wait' = NoWait /\ pc' = pc /\ up' = up /\ sent' = sent /\ got' = got
  BY DEF PollReady
<1>2. ToGo' = ToGo /\ Records' = Records /\ (Served' <=> Served) /\ Crosswise' = Crosswise
  BY <1>1 DEF ToGo, Records, Served, Crosswise
<1>3. Crosswise # NoWait
  BY DEF Crosswise, NoWait
<1>4. CASE wait = Crosswise
  <2>1. Round = 4
    BY <1>4 DEF Round
  <2>2. Round' \in {0, 3}
    BY <1>1, <1>2, <1>3 DEF Round
  <2> QED BY <1>1, <1>2, <2>1, <2>2 DEF Progress
<1>5. CASE wait # Crosswise
  <2>1. Served
    BY <1>1, <1>5 DEF Served, Crosswise, Ready, PollInv, TypeOK, Waits, NoWait
  <2>2. Round = 1
    BY <1>1, <1>5, <2>1 DEF Round
  <2>3. Round' = 0
    BY <1>1, <1>2, <1>3, <2>1 DEF Round
  <2> QED BY <1>1, <1>2, <2>2, <2>3 DEF Progress
<1> QED BY <1>4, <1>5

\* A round of the handshake: it consumes a record, or waits for one.
LEMMA HandshakeProgress ==
  ASSUME TypeOK, PollInv, Handshake
  PROVE  Progress
<1> DEFINE u == up.record
<1>1. pc = "handshake" /\ wait = NoWait /\ up' = [up EXCEPT !.record = FALSE]
      /\ sent' = sent /\ got' = got /\ up.avail = 0
  BY DEF Handshake, PollInv
<1>2. PICK hr \in edge_tls_handshake :
        \/ hr = "done" /\ pc' = "write"
        \/ hr = "error" /\ pc' = "done"
        \/ hr \in {"in", "out"} /\ wait' = hr /\ pc' = pc
  BY DEF Handshake, Done
<1>3. CASE hr \notin {"in", "out"}
  BY <1>1, <1>2, <1>3 DEF Progress, Rank
<1>4. CASE hr \in {"in", "out"}
  <2>1. pc' = pc /\ wait' = hr
    BY <1>2, <1>4
  <2>2. /\ up'.record = FALSE /\ up'.avail = up.avail
        /\ up'.eof = up.eof /\ up'.rst = up.rst
    BY <1>1 DEF TypeOK, Upstream
  <2>3. ToGo' = ToGo
    BY <1>1 DEF ToGo
  <2>4. CASE up.record
    <3>1. Records' < Records
      BY <2>2, <2>4, RecordsFall
    <3> QED BY <2>1, <2>3, <3>1 DEF Progress
  <2>5. CASE ~up.record
    <3>1. ~up.eof /\ ~up.rst /\ hr = "in"
      BY <1>4, <2>5 DEF edge_tls_handshake
    <3>2. Records' = Records
      BY <2>2, <2>5 DEF Records
    <3>3. Round = 3
      BY <1>1, <2>5, <3>1 DEF Round, Served, Crosswise, NoWait
    <3>4. Round' = 2
      BY <1>1, <2>1, <2>2, <3>1 DEF Round, Served, Crosswise, NoWait
    <3> QED BY <2>1, <2>3, <3>2, <3>3, <3>4 DEF Progress
  <2> QED BY <2>4, <2>5
<1> QED BY <1>3, <1>4

\* A round of the write loop: it writes, fails, consumes a record, or waits for room.
LEMMA WriteProgress ==
  ASSUME TypeOK, PollInv, Write
  PROVE  Progress
<1>1. pc = "write" /\ wait = NoWait
  BY DEF Write
<1>2. ASSUME NEW k \in 1 .. ReqLen - sent, Written(k) PROVE Progress
  <2>1. sent' = sent + k /\ got' = got /\ pc' \in {"read", "write"}
    BY <1>2 DEF Written
  <2>2. ToGo' < ToGo
    BY <1>2, <2>1, SizesAreNumbers DEF ToGo, TypeOK
  <2> QED BY <1>1, <2>1, <2>2 DEF Progress, Rank
<1>3. ASSUME Done("EIO") PROVE Progress
  BY <1>1, <1>3 DEF Done, Progress, Rank
<1>4. ASSUME NEW n \in IF Https THEN edge_tls_write ELSE PlainWrite, n \in {"in", "out"},
             wait' = n, up' = [up EXCEPT !.record = @ /\ n = "out"],
             UNCHANGED <<pc, held, req, sent, got, out>>
      PROVE  Progress
  <2>1. Https /\ ~up.rst /\ n \in edge_tls_write
    BY <1>4 DEF edge_tls_write, PlainWrite
  <2>2. /\ up'.record = (up.record /\ n = "out")
        /\ up'.room = up.room /\ up'.rst = up.rst
    BY <1>4 DEF TypeOK, Upstream
  <2>3. ToGo' = ToGo /\ pc' = pc
    BY <1>4 DEF ToGo
  <2>4. CASE n = "in"
    <3>1. up.record
      BY <2>1, <2>4 DEF edge_tls_write
    <3>2. ~up'.record
      BY <2>2, <2>4
    <3>3. Records' < Records
      BY <2>2, <3>1, <3>2, RecordsFall
    <3> QED BY <2>3, <3>3 DEF Progress
  <2>5. CASE n = "out"
    <3>1. ~up.room
      BY <2>1, <2>5 DEF edge_tls_write
    <3>2. up'.record <=> up.record
      BY <2>2, <2>5
    <3>3. Records' = Records
      BY <2>2, <3>2 DEF Records
    <3>4. Round = 3
      BY <1>1, <2>1, <3>1 DEF Round, Served, Crosswise, NoWait
    <3>5. Round' = 2
      BY <1>1, <1>4, <2>1, <2>2, <2>3, <2>5, <3>1 DEF Round, Served, Crosswise, NoWait
    <3> QED BY <2>3, <3>3, <3>4, <3>5 DEF Progress
  <2> QED BY <1>4, <2>4, <2>5
<1> QED BY <1>2, <1>3, <1>4 DEF Write

\* A read takes bytes.
LEMMA ReadProgress ==
  ASSUME TypeOK, Read
  PROVE  Progress
<1>1. PICK n \in 1 .. Min({up.avail, RawCap - got}) : got' = got + n
  BY DEF Read
<1>2. n \in Int /\ n >= 1
  <2>1. up.avail \in Nat /\ RawCap - got \in Int
    BY SizesAreNumbers, UpstreamFields DEF TypeOK
  <2>2. Min({up.avail, RawCap - got}) \in Int
    BY <2>1, LeastOfTwo
  <2> QED BY <2>2
<1>3. sent' = sent /\ pc' = pc
  BY DEF Read
<1>4. ToGo' < ToGo
  BY <1>1, <1>2, <1>3, SizesAreNumbers DEF ToGo, TypeOK
<1> QED BY <1>3, <1>4 DEF Progress

\* A TLS read without data consumes a record, or waits for data.
LEMMA ReadWantsProgress ==
  ASSUME TypeOK, ReadWants
  PROVE  Progress
<1>1. PICK n \in NoData \cap {"in", "out"} : wait' = IF got > 0 /\ n = "in" THEN "brief" ELSE n
  BY DEF ReadWants
<1>2. pc = "read" /\ wait = NoWait /\ up' = [up EXCEPT !.record = FALSE]
      /\ pc' = pc /\ sent' = sent /\ got' = got
  BY DEF ReadWants
<1>3. /\ up'.record = FALSE /\ up'.avail = up.avail
      /\ up'.eof = up.eof /\ up'.rst = up.rst
  BY <1>2 DEF TypeOK, Upstream
<1>4. ToGo' = ToGo
  BY <1>2 DEF ToGo
<1>5. ~(up.avail > 0) /\ n \in edge_tls_read /\ ~up.rst /\ ~up.eof
  BY <1>1 DEF NoData, edge_tls_read, PlainRead
<1>6. CASE up.record
  <2>1. Records' < Records
    BY <1>3, <1>6, RecordsFall
  <2> QED BY <1>2, <1>4, <2>1 DEF Progress
<1>7. CASE ~up.record
  <2>1. n = "in"
    BY <1>5, <1>7 DEF edge_tls_read
  <2>2. Records' = Records
    BY <1>3, <1>7 DEF Records
  <2>3. Round = 3
    BY <1>2, <1>5, <1>7 DEF Round, Served, Crosswise, NoWait
  <2>4. Round' = 2
    BY <1>1, <1>2, <1>3, <1>5, <2>1 DEF Round, Served, Crosswise, NoWait
  <2> QED BY <1>2, <1>4, <2>2, <2>3, <2>4 DEF Progress
<1> QED BY <1>6, <1>7

LEMMA ClientProgress ==
  ASSUME DeliveryInv, PollInv, Client
  PROVE  Progress
<1>1. TypeOK /\ WaitInv
  BY DEF DeliveryInv
<1>2. Rank(pc') < Rank(pc) => Progress
  BY DEF Progress
<1> QED BY <1>1, <1>2, PlacesProgress, PollGivesUpProgress, PollReadyProgress,
           HandshakeProgress, WriteProgress, ReadProgress, ReadWantsProgress DEF Client

\* Nothing the upstream or the network does sets the client back, except for a record
\* without data.
LEMMA UpstreamProgress ==
  ASSUME DeliveryInv, PollInv, NEW n \in 1 .. RawCap + 1,
         Arrive(n) \/ Drain \/ Close \/ Reset
  PROVE  Progress \/ Standstill
<1>0. TypeOK
  BY DEF DeliveryInv
<1>1. pc' = pc /\ wait' = wait /\ sent' = sent /\ got' = got
  BY DEF Arrive, Drain, Close, Reset, KeepClient
<1>2. ToGo' = ToGo /\ Crosswise' = Crosswise
  BY <1>1 DEF ToGo, Crosswise
<1>3. Records' \in Int /\ Records \in Int /\ (Records' <= Records)
  <2>1. up'.record => up.record
    BY <1>0 DEF Arrive, Drain, Close, Reset, TypeOK, Upstream
  <2> QED BY <2>1 DEF Records
<1>4. Served => Served'
  <2>1. CASE Arrive(n)
    <3>1. up.avail \in Nat /\ n \in Nat
      BY <1>0, UpstreamFields, SizesAreNumbers DEF TypeOK
    <3>2. /\ up'.avail = up.avail + n /\ up'.record = up.record /\ up'.eof = up.eof
          /\ up'.rst = up.rst /\ up'.room = up.room
      BY <1>0, <2>1 DEF Arrive, TypeOK, Upstream
    <3> QED BY <1>1, <3>1, <3>2 DEF Served
  <2>2. CASE Drain
    <3>1. /\ up'.avail = up.avail /\ up'.record = up.record /\ up'.eof = up.eof
          /\ up'.rst = up.rst /\ up'.room = TRUE
      BY <1>0, <2>2 DEF Drain, TypeOK, Upstream
    <3> QED BY <1>1, <3>1 DEF Served
  <2>3. CASE Close
    <3>1. /\ up'.avail = up.avail /\ up'.record = up.record /\ up'.eof = TRUE
          /\ up'.rst = up.rst /\ up'.room = up.room
      BY <1>0, <2>3 DEF Close, TypeOK, Upstream
    <3> QED BY <1>1, <3>1 DEF Served
  <2>4. CASE Reset
    <3>1. up'.rst = TRUE
      BY <1>0, <2>4 DEF Reset, TypeOK, Upstream
    <3> QED BY <3>1 DEF Served
  <2> QED BY <2>1, <2>2, <2>3, <2>4
<1>5. Round' <= Round
  BY <1>1, <1>2, <1>4 DEF Round
<1>6. Round \in Int /\ Round' \in Int
  BY DEF Round
<1> QED BY <1>1, <1>2, <1>3, <1>5, <1>6 DEF Progress, Standstill

LEMMA PollInit == Init => PollInv
<1> SUFFICES ASSUME Init PROVE PollInv
  OBVIOUS
<1>1. PICK r \in Responses : up = Silent(r)
  BY DEF Init
<1> QED BY <1>1, SizesAreNumbers DEF Init, PollInv, Silent

LEMMA PollNext == DeliveryInv /\ PollInv /\ [Next]_vars => PollInv'
<1> SUFFICES ASSUME DeliveryInv, PollInv, [Next]_vars PROVE PollInv'
  OBVIOUS
<1>0. TypeOK /\ up \in Upstream /\ wait \in Waits /\ WaitInv
  BY DEF DeliveryInv, TypeOK
<1>1. ASSUME NEW q \in Request, NEW r \in Responses, Prepare(q, r) PROVE PollInv'
  <2>1. up' = Silent(r) /\ pc' \in {"idle", "connect"}
    BY <1>1 DEF Prepare, EarlyReturn
  <2> QED BY <2>1, SizesAreNumbers DEF PollInv, Silent
<1>2. CASE tcp_connect_host \/ AllocRaw \/ edge_tls_client_ctx_create
           \/ edge_tls_client_conn_new_fd \/ ReadEnds \/ Parse \/ Finish
  <2>1. up' = up /\ wait' = wait
    BY <1>2 DEF tcp_connect_host, AllocRaw, edge_tls_client_ctx_create,
                edge_tls_client_conn_new_fd, ReadEnds, Parse, Finish
  <2>2. pc' = "write" => wait = NoWait
    BY <1>0, <1>2 DEF tcp_connect_host, AllocRaw, EarlyReturn, edge_tls_client_ctx_create,
                edge_tls_client_conn_new_fd, ReadEnds, Parse, Finish, Done, WaitInv
  <2>3. pc' \in {"connect", "buffer", "secure", "session", "handshake"}
          => pc \in {"connect", "buffer", "secure", "session", "handshake"}
    BY <1>2 DEF tcp_connect_host, AllocRaw, EarlyReturn, edge_tls_client_ctx_create,
                edge_tls_client_conn_new_fd, ReadEnds, Parse, Finish, Done
  <2> QED BY <2>1, <2>2, <2>3 DEF PollInv, NoWait
<1>3. CASE Handshake
  <2>1. up'.avail = up.avail
    BY <1>0, <1>3 DEF Handshake, Upstream
  <2>2. pc' = "write" => wait' = NoWait
    BY <1>3 DEF Handshake, Done
  <2>3. pc = "handshake"
    BY <1>3 DEF Handshake
  <2> QED BY <2>1, <2>2, <2>3 DEF PollInv, NoWait
<1>4. CASE Write
  <2>1. pc' \in {"write", "read", "done"} /\ wait' # "brief"
    BY <1>4 DEF Write, Written, Done, NoWait
  <2> QED BY <2>1 DEF PollInv
<1>5. CASE Read \/ ReadWants
  <2>1. pc' = "read"
    BY <1>5 DEF Read, ReadWants
  <2> QED BY <2>1 DEF PollInv
<1>6. CASE PollReady \/ PollGivesUp
  <2>1. up' = up /\ wait' = NoWait /\ (pc' = pc \/ pc' \in {"done", "parse"})
    BY <1>6 DEF PollReady, PollGivesUp, Done
  <2> QED BY <2>1 DEF PollInv, NoWait
<1>7. ASSUME NEW n \in 1 .. RawCap + 1, Arrive(n) PROVE PollInv'
  <2>1. pc \in {"write", "read"} /\ pc' = pc /\ wait' = wait
    BY <1>7 DEF Arrive, KeepClient
  <2> QED BY <2>1 DEF PollInv
<1>8. CASE Chatter \/ Drain \/ Close \/ Reset
  <2>1. pc' = pc /\ wait' = wait /\ up'.avail \in {0, up.avail}
    BY <1>0, <1>8 DEF Chatter, Drain, Close, Reset, KeepClient, Upstream
  <2> QED BY <2>1 DEF PollInv
<1>9. CASE UNCHANGED vars
  BY <1>9 DEF PollInv, vars
<1> QED BY <1>1, <1>2, <1>3, <1>4, <1>5, <1>6, <1>7, <1>8, <1>9 DEF Next, Client

\* What a record without data undoes: one round of the loop, no byte and no place.
AnotherRound == Chatter /\ pc' = pc /\ ToGo' = ToGo

\* Every step of the client brings the exchange nearer to its end: the places, the bytes
\* to go, the record without data and the round of the loop decrease lexicographically,
\* and they are natural numbers.  So the poll loops of the handshake, the write and the
\* read cannot spin in place, whatever WANT_READ and WANT_WRITE they are given.  Of what
\* the upstream and the network do, only a record without data gives the loop another
\* round, and so another timeout_ms; the code does not count them.
THEOREM ExchangeProgresses ==
  Spec => [][/\ Client => Progress
             /\ pc # "idle" => Progress \/ Standstill \/ AnotherRound]_vars
<1> DEFINE Inv == DeliveryInv /\ PollInv
           Step == /\ Client => Progress
                   /\ pc # "idle" => Progress \/ Standstill \/ AnotherRound
<1>1. Init => Inv
  BY DeliveryInit, PollInit
<1>2. Inv /\ [Next]_vars => Inv'
  BY DeliveryNext, PollNext
<1>3. Inv /\ [Next]_vars => [Step]_vars
  <2> SUFFICES ASSUME Inv, Next PROVE Step
    OBVIOUS
  <2>1. Client => Progress
    BY ClientProgress
  <2>2. ASSUME NEW q \in Request, NEW r \in Responses, Prepare(q, r) PROVE pc = "idle"
    BY <2>2 DEF Prepare
  <2>3. 1 \in 1 .. RawCap + 1
    BY SizesAreNumbers
  <2>4. ASSUME NEW n \in 1 .. RawCap + 1, Arrive(n) \/ Drain \/ Close \/ Reset
        PROVE  Progress \/ Standstill
    BY <2>4, UpstreamProgress
  <2>5. Chatter => AnotherRound
    BY DEF Chatter, KeepClient, AnotherRound, ToGo
  <2> QED BY <2>1, <2>2, <2>3, <2>4, <2>5 DEF Next
<1> HIDE DEF Step
<1>4. Spec => [][Step]_vars
  BY <1>1, <1>2, <1>3, PTL DEF Spec
<1> QED BY <1>4 DEF Step
===============================================================================
