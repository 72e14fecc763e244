--------------------------- MODULE HttpServeProofs ----------------------------
(***************************************************************************)
(* For every set of connections and requests, every clock and every mode:  *)
(* protected resources are only used with a justified credential and only  *)
(* refused for want of one, a stored value is the whole body that was      *)
(* announced, and a request that has arrived is answered.                  *)
(***************************************************************************)
EXTENDS HttpServe, TLAPS

\* What the proofs need to know of an answer: its type, that a protected resource
\* was used only past require_rbac, and that a PUT stores a non-empty body.
AnswerOK(a, q, p, acc) ==
  /\ a.status \in Nat
  /\ a.access \in Resources \cup {"NONE"}
  /\ a.access # "NONE" => require_rbac(p, a.access) = 0
  /\ a.effect = "put" => a.len = BodyLen(q, acc) /\ a.len # 0 /\ q.method = "PUT"

\* A refusal, and any other answer that only has a status, is in order.
LEMMA PlainOK ==
  ASSUME NEW q, NEW p, NEW acc, NEW n \in Nat
  PROVE  AnswerOK(Answer(n), q, p, acc) /\ Answer(n).access = "NONE"
BY DEF AnswerOK, Answer, Reply

\* A handler behind require_rbac gives answers that are in order when those it
\* would have given are.
LEMMA GatedOK ==
  ASSUME NEW q, NEW p, NEW acc, NEW res \in Resources \cup {"NONE"}, NEW S,
         \A a \in S : AnswerOK(a, q, p, acc),
         NEW a \in Gated(p, res, S)
  PROVE  AnswerOK(a, q, p, acc)
<1>1. CASE require_rbac(p, res) # 0
  <2>1. a = Answer(require_rbac(p, res))
    BY <1>1 DEF Gated
  <2>2. require_rbac(p, res) \in Nat
    BY DEF require_rbac
  <2> QED
    BY <2>1, <2>2, PlainOK
<1>2. CASE require_rbac(p, res) = 0
  <2>1. PICK b \in S : a = [status |-> b.status, access |-> res,
                            effect |-> b.effect, len |-> b.len]
    BY <1>2 DEF Gated
  <2>2. AnswerOK(b, q, p, acc)
    OBVIOUS
  <2> QED
    BY <1>2, <2>1, <2>2 DEF AnswerOK
<1> QED
  BY <1>1, <1>2

\* Every answer of dispatch is in order.
LEMMA DispatchOK ==
  ASSUME NEW q \in Request, NEW p \in Principal, NEW acc \in Nat,
         NEW a \in dispatch(q, p, acc)
  PROVE  AnswerOK(a, q, p, acc)
<1> DEFINE OK(S) == \A x \in S : AnswerOK(x, q, p, acc)
<1> DEFINE Fine(n) == AnswerOK(Answer(n), q, p, acc)
<1>1. /\ Fine(101) /\ Fine(200) /\ Fine(400) /\ Fine(401) /\ Fine(403) /\ Fine(404)
      /\ Fine(405) /\ Fine(429) /\ Fine(502) /\ Fine(503) /\ Fine(507)
  BY PlainOK
<1>2. \A S : \A res \in Resources \cup {"NONE"} :
        OK(S) => OK(Gated(p, res, S))
  BY GatedOK
<1>3. /\ AnswerOK(Reply(200, "login", 0), q, p, acc)
      /\ AnswerOK(Reply(204, "delete", 0), q, p, acc)
  BY DEF AnswerOK, Reply
<1>4. OK(dispatch_lab_login(q, acc))
  <2>1. \/ dispatch_lab_login(q, acc) = {Answer(405)}
        \/ dispatch_lab_login(q, acc) = {Answer(503)}
        \/ dispatch_lab_login(q, acc) = {Answer(400)}
        \/ dispatch_lab_login(q, acc) = {Answer(401)}
        \/ dispatch_lab_login(q, acc) = {Reply(200, "login", 0)}
    BY DEF dispatch_lab_login
  <2>2. OK({Answer(405)}) /\ OK({Answer(503)}) /\ OK({Answer(400)}) /\ OK({Answer(401)})
    BY <1>1
  <2>3. OK({Reply(200, "login", 0)})
    BY <1>3
  <2> HIDE DEF OK
  <2> QED
    BY <2>1, <2>2, <2>3
<1>5. OK(dispatch_auth_me(q, p))
  <2>1. \/ dispatch_auth_me(q, p) = {Answer(405)}
        \/ dispatch_auth_me(q, p) = {Answer(401)}
        \/ dispatch_auth_me(q, p) = {Answer(200)}
    BY DEF dispatch_auth_me
  <2>2. OK({Answer(405)}) /\ OK({Answer(401)}) /\ OK({Answer(200)})
    BY <1>1
  <2> HIDE DEF OK
  <2> QED
    BY <2>1, <2>2
<1>6. OK(dispatch_v1(p))
  <2>1. OK({Answer(200), Answer(429), Answer(502)})
    BY <1>1
  <2> HIDE DEF OK
  <2> QED
    BY <2>1, <1>2 DEF dispatch_v1, Resources
<1>7. OK(dispatch_stream(q, p))
  <2> DEFINE S == IF q.method # "GET" THEN {Answer(405)}
                  ELSE IF ~q.upgrade THEN {Answer(400)}
                  ELSE {Answer(101)}
  <2>1. S = {Answer(405)} \/ S = {Answer(400)} \/ S = {Answer(101)}
    OBVIOUS
  <2>2. OK({Answer(405)}) /\ OK({Answer(400)}) /\ OK({Answer(101)})
    BY <1>1
  <2>3. dispatch_stream(q, p) = Gated(p, "WS_STREAM", S)
    BY DEF dispatch_stream
  <2> HIDE DEF OK, S
  <2> QED
    BY <2>1, <2>2, <2>3, <1>2 DEF Resources
<1>8. q.method = "PUT" => OK(Put(q, acc))
  <2>1. ASSUME BodyLen(q, acc) # 0, q.method = "PUT"
        PROVE  OK({Reply(204, "put", BodyLen(q, acc)), Answer(507), Answer(403)})
    <3>1. AnswerOK(Reply(204, "put", BodyLen(q, acc)), q, p, acc)
      BY <2>1 DEF AnswerOK, Reply
    <3> QED
      BY <3>1, <1>1
  <2>2. OK({Answer(405)}) /\ OK({Answer(400), Answer(403)})
    BY <1>1
  <2>3. \/ Put(q, acc) = {Answer(405)}
        \/ Put(q, acc) = {Answer(400), Answer(403)}
        \/ /\ BodyLen(q, acc) # 0
           /\ Put(q, acc) = {Reply(204, "put", BodyLen(q, acc)), Answer(507), Answer(403)}
    BY DEF Put
  <2> HIDE DEF OK
  <2> QED
    BY <2>1, <2>2, <2>3
<1>9. OK(dispatch_state(q, p, acc))
  <2>1. edge_auth_classify(q.method, q.route) \in Resources \cup {"NONE"}
    BY DEF edge_auth_classify, Resources, Request, Methods
  <2>2. /\ OK({Answer(200), Answer(403)}) /\ OK({Answer(404), Answer(403)})
        /\ OK({Answer(400)}) /\ OK({Answer(405)})
    BY <1>1
  <2>3. OK({Reply(204, "delete", 0), Answer(403)})
    BY <1>1, <1>3
  <2> DEFINE S == CASE q.method = "GET" ->
               IF q.route = "list" THEN {Answer(200), Answer(403)}
               ELSE IF store = Nothing THEN {Answer(404), Answer(403)}
               ELSE {Answer(200), Answer(403)}
          [] q.method = "PUT" -> IF q.route = "list" THEN {Answer(400)} ELSE Put(q, acc)
          [] q.method = "DELETE" ->
               IF q.route = "list" THEN {Answer(400)}
               ELSE IF store = Nothing THEN {Answer(404), Answer(403)}
               ELSE {Reply(204, "delete", 0), Answer(403)}
          [] OTHER -> {Answer(405)}
  <2>4. \/ S \in {{Answer(200), Answer(403)}, {Answer(404), Answer(403)}, {Answer(400)},
                 {Answer(405)}, {Reply(204, "delete", 0), Answer(403)}}
        \/ S = Put(q, acc) /\ q.method = "PUT"
    BY DEF Request, Methods
  <2>5. dispatch_state(q, p, acc) = Gated(p, edge_auth_classify(q.method, q.route), S)
    BY DEF dispatch_state
  <2> HIDE DEF OK, S
  <2>6. OK(S)
    BY <2>2, <2>3, <2>4, <1>8
  <2> QED
    BY <2>1, <2>5, <2>6, <1>2
<1>10. OK(Gated(p, "PACKAGES", {Answer(200), Answer(404)}))
  <2>1. OK({Answer(200), Answer(404)})
    BY <1>1
  <2> HIDE DEF OK
  <2> QED
    BY <2>1, <1>2 DEF Resources
<1>11. OK({Answer(405)}) /\ OK({Answer(200), Answer(404)})
  BY <1>1
<1> HIDE DEF OK
<1>12. q.route \in Routes /\ q.method \in Methods
  BY DEF Request
<1>13. OK(dispatch(q, p, acc))
  <2>1. CASE q.route = "login"
    BY <2>1, <1>4 DEF dispatch
  <2>2. CASE q.route = "me"
    BY <2>2, <1>5 DEF dispatch
  <2>3. CASE q.route = "v1"
    BY <2>3, <1>6 DEF dispatch
  <2>4. CASE q.route = "stream"
    BY <2>4, <1>7 DEF dispatch
  <2>5. CASE q.route \in {"state", "list"}
    BY <2>5, <1>9 DEF dispatch
  <2>6. CASE q.route \in {"packages", "health", "spa"} /\ q.method # "GET"
    BY <2>6, <1>11 DEF dispatch
  <2>7. CASE q.route = "packages" /\ q.method = "GET"
    BY <2>7, <1>10 DEF dispatch
  <2>8. CASE q.route \in {"health", "spa"} /\ q.method = "GET"
    BY <2>8, <1>11 DEF dispatch
  <2> QED
    BY <1>12, <2>1, <2>2, <2>3, <2>4, <2>5, <2>6, <2>7, <2>8 DEF Routes
<1> QED
  BY <1>13 DEF OK

\* The principal derived from a credential, and the proof that what require_rbac
\* lets it use is justified by the credential.
LEMMA PrincipalType ==
  ASSUME NEW cred \in Credential, NEW q \in Request, NEW t \in Nat
  PROVE  PrincipalOf(cred, q, t) \in Principal
BY DEF PrincipalOf, edge_auth_session_verify, edge_auth_proxy_verify,
       edge_auth_roles_from_csv, Known, Anonymous, Principal, Credential, RoleNames

\* A handler that guards a resource uses it or refuses it.
LEMMA DispatchGated ==
  ASSUME NEW q \in Request, NEW p \in Principal, NEW acc \in Nat, Wanted(q) # "NONE",
         NEW a \in dispatch(q, p, acc), a.access = "NONE"
  PROVE  require_rbac(p, Wanted(q)) # 0
<1>1. \E S : dispatch(q, p, acc) = Gated(p, Wanted(q), S)
  <2>0. q.route \in Routes /\ q.method \in Methods
    BY DEF Request
  <2>1. CASE q.route = "v1"
    BY <2>1, Zenon DEF dispatch, dispatch_v1, Wanted
  <2>2. CASE q.route = "stream"
    <3>1. Wanted(q) = "WS_STREAM"
      BY <2>2 DEF Wanted
    <3>2. dispatch(q, p, acc) = dispatch_stream(q, p)
      BY <2>2 DEF dispatch
    <3> QED
      BY <3>1, <3>2, Zenon DEF dispatch_stream
  <2>3. CASE q.route \in {"state", "list"}
    <3>1. Wanted(q) = edge_auth_classify(q.method, q.route)
      BY <2>3 DEF Wanted
    <3>2. dispatch(q, p, acc) = dispatch_state(q, p, acc)
      BY <2>3 DEF dispatch
    <3> DEFINE S == CASE q.method = "GET" ->
               IF q.route = "list" THEN {Answer(200), Answer(403)}
               ELSE IF store = Nothing THEN {Answer(404), Answer(403)}
               ELSE {Answer(200), Answer(403)}
          [] q.method = "PUT" -> IF q.route = "list" THEN {Answer(400)} ELSE Put(q, acc)
          [] q.method = "DELETE" ->
               IF q.route = "list" THEN {Answer(400)}
               ELSE IF store = Nothing THEN {Answer(404), Answer(403)}
               ELSE {Reply(204, "delete", 0), Answer(403)}
          [] OTHER -> {Answer(405)}
    <3>3. dispatch_state(q, p, acc) = Gated(p, edge_auth_classify(q.method, q.route), S)
      BY DEF dispatch_state
    <3> HIDE DEF S
    <3> QED
      BY <3>1, <3>2, <3>3, Zenon
  <2>4. CASE q.route = "packages" /\ q.method = "GET"
    <3>1. Wanted(q) = "PACKAGES"
      BY <2>4 DEF Wanted
    <3>2. dispatch(q, p, acc) = Gated(p, "PACKAGES", {Answer(200), Answer(404)})
      BY <2>4 DEF dispatch
    <3> QED
      BY <3>1, <3>2, Zenon
  <2> QED
    BY <2>0, <2>1, <2>2, <2>3, <2>4 DEF Wanted, Routes
<1>2. PICK S : dispatch(q, p, acc) = Gated(p, Wanted(q), S)
  BY <1>1
<1> SUFFICES ASSUME require_rbac(p, Wanted(q)) = 0 PROVE FALSE
  OBVIOUS
<1>3. PICK b \in S : a = [status |-> b.status, access |-> Wanted(q), effect |-> b.effect,
                          len |-> b.len]
  BY <1>2 DEF Gated
<1>4. a.access = Wanted(q)
  BY <1>3
<1> QED
  BY <1>4

\* What the server only issues or accepts: a genuine cookie is a lab session with an
\* expiry, and signed proxy headers have a timestamp.
CredOK(cred) ==
  /\ cred.kind = "cookie" /\ cred.genuine => cred.t > 0 /\ cred.roles = {"employee"}
  /\ cred.kind = "proxy" => cred.t > 0

\* A connection is kept reading only for its headers or for the body of a PUT or POST.
ReadsOn(d) ==
  d.headers_done => d.req.method \in {"PUT", "POST"} /\ ~wait_full_body(d.req, d.acc)

\* What the server knows of a connection between two segments: the headers are done
\* exactly when they have arrived, the principal is the one its credential gave then,
\* a protected resource was used only past require_rbac and refused only by it, and
\* it goes on reading only for a reason.
ConnInv(d) ==
  /\ d.headers_done =>
       /\ d.acc >= d.req.hdr
       /\ d.principal = PrincipalOf(d.cred, d.req, d.at)
  /\ ~d.headers_done => d.acc < d.req.hdr
  /\ d.access # "NONE" => d.headers_done /\ require_rbac(d.principal, d.access) = 0
  /\ Refused(d) /\ Wanted(d.req) # "NONE" =>
       d.headers_done /\ require_rbac(d.principal, Wanted(d.req)) # 0
  /\ CredOK(d.cred)

\* The inductive invariant.
IInv ==
  /\ TypeOK
  /\ StoredWhole
  /\ \A s \in sessions : CredOK(s)
  /\ \A c \in Conns : ConnInv(conn[c]) /\ (conn[c].st = "reading" => ReadsOn(conn[c]))

\* A connection that is closed is in order.
LEMMA IdleOK ==
  /\ Idle \in Serve /\ ConnInv(Idle) /\ Idle.acc = 0 /\ Idle.at = 0
  /\ ~Idle.headers_done /\ Idle.access = "NONE" /\ Idle.st = "idle" /\ Idle.status = 0
<1>1. Idle \in Serve
  BY DEF Idle, NoRequest, NoCredential, Anonymous, Serve, Request, Methods, Routes,
         Credential, Principal, Resources, RoleNames
<1>2. Idle.req.hdr = 4 /\ Idle.acc = 0 /\ Idle.cred.kind = "none" /\ Idle.st = "idle"
      /\ ~Idle.headers_done /\ Idle.access = "NONE" /\ Idle.at = 0 /\ Idle.status = 0
  BY DEF Idle, NoRequest, NoCredential
<1>3. ConnInv(Idle)
  BY <1>2 DEF ConnInv, CredOK, Refused
<1> QED
  BY <1>1, <1>2, <1>3

LEMMA InitIInv == Init => IInv
<1> SUFFICES ASSUME Init PROVE IInv
  OBVIOUS
<1>1. /\ conn = [c \in Conns |-> Idle] /\ store = Nothing /\ sessions = {} /\ now = 1
      /\ mode \in Modes
  BY DEF Init
<1>2. AccMax \in Nat \ {0} /\ MaxNow[mode] \in Nat \ {0}
  BY <1>1, ServeAssumption
<1>3. now \in 1 .. MaxNow[mode]
  BY <1>1, <1>2
<1>4. \A c \in Conns : conn[c] = Idle
  BY <1>1
<1>5. TypeOK
  BY <1>1, <1>2, <1>3, <1>4, IdleOK DEF TypeOK, Nothing
<1> QED
  BY <1>1, <1>4, <1>5, IdleOK DEF IInv, StoredWhole

\* The connection after a segment keeps its invariant and its type.
LEMMA ReceivedOK ==
  ASSUME IInv, NEW c \in Conns, NEW n \in Nat, conn[c].st = "reading"
  PROVE  /\ Received(c, n) \in Serve
         /\ Received(c, n).st = "reading"
         /\ Received(c, n).acc = conn[c].acc + n
         /\ Received(c, n).req = conn[c].req
         /\ Received(c, n).access = conn[c].access
         /\ Received(c, n).at <= now
         /\ ConnInv(Received(c, n))
<1>1. conn[c] \in Serve /\ conn[c].at <= now /\ ConnInv(conn[c]) /\ now \in Nat
  BY DEF IInv, TypeOK
<1>2. PrincipalOf(conn[c].cred, conn[c].req, now) \in Principal
  BY <1>1, PrincipalType DEF Serve
<1>3. CASE conn[c].headers_done \/ conn[c].acc + n < conn[c].req.hdr
  <2>1. Received(c, n) = [conn[c] EXCEPT !.acc = conn[c].acc + n]
    BY <1>3 DEF Received
  <2> DEFINE d == Received(c, n)
  <2>2. d \in Serve
    BY <1>1, <2>1 DEF Serve
  <2>3. /\ d.acc = conn[c].acc + n /\ d.req = conn[c].req /\ d.cred = conn[c].cred
        /\ d.access = conn[c].access /\ d.at = conn[c].at /\ d.st = "reading"
        /\ d.principal = conn[c].principal /\ d.headers_done = conn[c].headers_done
    BY <1>1, <2>1 DEF Serve
  <2>4. conn[c].acc \in Nat /\ conn[c].req.hdr \in Nat
    BY <1>1 DEF Serve, Request
  <2> HIDE DEF d
  <2>5. ConnInv(d)
    BY <1>1, <1>3, <2>3, <2>4 DEF ConnInv, Refused
  <2> QED
    BY <1>1, <2>2, <2>3, <2>5 DEF d
<1>4. CASE ~(conn[c].headers_done \/ conn[c].acc + n < conn[c].req.hdr)
  <2>1. Received(c, n) =
          [conn[c] EXCEPT !.acc = conn[c].acc + n, !.headers_done = TRUE, !.at = now,
                          !.principal = PrincipalOf(conn[c].cred, conn[c].req, now)]
    BY <1>4 DEF Received
  <2>2. conn[c].access = "NONE"
    BY <1>1, <1>4 DEF ConnInv
  <2> DEFINE d == Received(c, n)
  <2>3. d \in Serve
    <3>1. d = [st |-> conn[c].st, req |-> conn[c].req, cred |-> conn[c].cred,
               acc |-> conn[c].acc + n, headers_done |-> TRUE, at |-> now,
               principal |-> PrincipalOf(conn[c].cred, conn[c].req, now),
               status |-> conn[c].status, access |-> conn[c].access]
      BY <1>1, <2>1 DEF Serve
    <3>2. /\ conn[c].st \in {"idle", "reading", "answered"} /\ conn[c].req \in Request
          /\ conn[c].cred \in Credential /\ conn[c].acc + n \in Nat /\ now \in Nat
          /\ conn[c].status \in Nat /\ conn[c].access \in Resources \cup {"NONE"}
      BY <1>1 DEF Serve
    <3> HIDE DEF d
    <3> QED
      BY <3>1, <3>2, <1>2 DEF Serve
  <2>4. /\ d.acc = conn[c].acc + n /\ d.req = conn[c].req /\ d.cred = conn[c].cred
        /\ d.access = conn[c].access /\ d.at = now /\ d.st = "reading"
        /\ d.principal = PrincipalOf(conn[c].cred, conn[c].req, now) /\ d.headers_done
    BY <1>1, <2>1 DEF Serve
  <2>5. conn[c].acc + n \in Nat /\ conn[c].req.hdr \in Nat
    BY <1>1 DEF Serve, Request
  <2> HIDE DEF d
  <2>6. d.acc >= d.req.hdr
    BY <1>4, <2>4, <2>5
  <2>7. ConnInv(d)
    BY <1>1, <2>2, <2>4, <2>6 DEF ConnInv, Refused
  <2> QED
    BY <1>1, <2>3, <2>4, <2>7 DEF d
<1> QED
  BY <1>3, <1>4

\* A dispatched PUT stores exactly what was announced.
LEMMA PutWhole ==
  ASSUME NEW q \in Request, NEW acc \in Nat, acc >= q.hdr, wait_full_body(q, acc),
         BodyLen(q, acc) # 0
  PROVE  BodyLen(q, acc) = q.cl
BY DEF BodyLen, wait_full_body, Request

\* A step that changes only one connection, and not the store, keeps the invariant
\* when the new connection is in order.
LEMMA OneConn ==
  ASSUME IInv, NEW c \in Conns, NEW d \in Serve, d.acc <= AccMax, d.at <= now, ConnInv(d),
         d.st = "reading" => ReadsOn(d),
         conn' = [conn EXCEPT ![c] = d],
         store' \in [len : Nat, announced : Nat],
         store' = Nothing \/ store'.len = store'.announced,
         sessions' \subseteq Credential, \A s \in sessions' : CredOK(s), now' = now, mode' = mode
  PROVE  IInv'
<1>1. conn' \in [Conns -> Serve]
  BY DEF IInv, TypeOK
<1>2. \A x \in Conns : /\ conn'[x].acc <= AccMax /\ conn'[x].at <= now' /\ ConnInv(conn'[x])
                       /\ conn'[x].st = "reading" => ReadsOn(conn'[x])
  BY DEF IInv, TypeOK
<1>3. (Nothing)' = Nothing
  BY DEF Nothing
<1>4. (\A x \in Conns : ConnInv(conn[x]) /\ (conn[x].st = "reading" => ReadsOn(conn[x])))'
  BY <1>2 DEF ConnInv, PrincipalOf, require_rbac, ReadsOn, wait_full_body, body_off_found
<1> QED
  BY <1>1, <1>2, <1>3, <1>4 DEF IInv, TypeOK, StoredWhole

\* Connect: what a client can present is a credential, and a genuine cookie was issued.
LEMMA ConnectIInv ==
  ASSUME IInv, NEW c \in Conns, NEW q \in Requests[mode], NEW cred \in Presentable,
         Connect(c, q, cred)
  PROVE  IInv'
<1>1. /\ now \in Nat /\ sessions \subseteq Credential /\ store \in [len : Nat, announced : Nat]
      /\ q \in Request /\ mode \in Modes /\ MaxNow[mode] \in Nat
      /\ RoleLists[mode] \subseteq SUBSET (RoleNames \cup {"unknown"})
  BY ServeAssumption DEF IInv, TypeOK
<1>2. cred \in Credential /\ CredOK(cred)
  <2>1. CASE cred = NoCredential
    BY <2>1 DEF NoCredential, Credential, RoleNames, CredOK
  <2>2. CASE cred \in sessions
    BY <2>2, <1>1 DEF IInv
  <2>3. CASE cred = [kind |-> "cookie", genuine |-> FALSE, roles |-> {"employee"}, t |-> now + 1]
    BY <2>3, <1>1 DEF Credential, RoleNames, CredOK
  <2>4. CASE cred \in [kind : {"proxy"}, genuine : BOOLEAN, roles : RoleLists[mode], t : 1 .. MaxNow[mode]]
    BY <2>4, <1>1 DEF Credential, CredOK
  <2> QED
    BY <2>1, <2>2, <2>3, <2>4 DEF Presentable
<1> DEFINE d == [Idle EXCEPT !.st = "reading", !.req = q, !.cred = cred]
<1>3. conn' = [conn EXCEPT ![c] = d] /\ UNCHANGED <<store, sessions, now, mode>>
  BY DEF Connect
<1>4. d \in Serve
  BY <1>1, <1>2, IdleOK DEF Serve
<1>5. /\ d.acc = Idle.acc /\ d.headers_done = Idle.headers_done /\ d.at = Idle.at
      /\ d.access = Idle.access /\ d.cred = cred /\ d.req = q /\ d.st = "reading"
  BY IdleOK DEF Serve
<1> HIDE DEF d
<1>6. ConnInv(d) /\ d.acc = 0 /\ d.at = 0 /\ ReadsOn(d)
  <2>1. q.hdr >= 4 /\ q.hdr \in Nat
    BY <1>1, ServeAssumption DEF Request
  <2> QED
    BY <1>2, <1>5, <2>1, IdleOK DEF ConnInv, Refused, ReadsOn
<1>7. /\ store = Nothing \/ store.len = store.announced
      /\ \A s \in sessions : CredOK(s)
  BY DEF IInv, StoredWhole
<1>8. d.acc <= AccMax /\ d.at <= now
  BY <1>1, <1>6, ServeAssumption
<1> QED
  BY <1>1, <1>3, <1>4, <1>6, <1>7, <1>8, OneConn

\* FeedTooLarge and BadRequest: only the state and the status change.
LEMMA RefusedIInv ==
  ASSUME IInv, NEW c \in Conns, NEW n \in Nat, n # 401, n # 403,
         conn' = [conn EXCEPT ![c].st = "answered", ![c].status = n],
         UNCHANGED <<store, sessions, now, mode>>
  PROVE  IInv'
<1> DEFINE d == [conn[c] EXCEPT !.st = "answered", !.status = n]
<1>1. conn[c] \in Serve /\ conn[c].at <= now /\ conn[c].acc <= AccMax /\ ConnInv(conn[c])
  BY DEF IInv, TypeOK
<1>2. d \in Serve
  BY <1>1 DEF Serve
<1>3. /\ d.st = "answered" /\ d.status = n
      /\ d.acc = conn[c].acc /\ d.req = conn[c].req /\ d.cred = conn[c].cred
      /\ d.access = conn[c].access /\ d.at = conn[c].at
      /\ d.principal = conn[c].principal /\ d.headers_done = conn[c].headers_done
  BY <1>1 DEF Serve
<1>4. conn' = [conn EXCEPT ![c] = d]
  BY <1>1 DEF IInv, TypeOK
<1> HIDE DEF d
<1>5. ConnInv(d)
  BY <1>1, <1>3 DEF ConnInv, Refused
<1>6. /\ store \in [len : Nat, announced : Nat] /\ sessions \subseteq Credential
      /\ \A s \in sessions : CredOK(s)
      /\ store = Nothing \/ store.len = store.announced
  BY DEF IInv, TypeOK, StoredWhole
<1>7. d.acc <= AccMax /\ d.at <= now /\ d.st # "reading"
  BY <1>1, <1>3
<1> QED
  BY <1>2, <1>4, <1>5, <1>6, <1>7, OneConn

\* FeedMore: the segment is added and the server waits.
LEMMA FeedMoreIInv ==
  ASSUME IInv, NEW c \in Conns, NEW n \in 1 .. AccMax, FeedMore(c, n)
  PROVE  IInv'
<1>1. n \in Nat
  BY ServeAssumption
<1>2. /\ conn' = [conn EXCEPT ![c] = Received(c, n)] /\ UNCHANGED <<store, sessions, now, mode>>
      /\ conn[c].acc + n <= AccMax /\ conn[c].st = "reading" /\ Waits(Received(c, n))
  BY DEF FeedMore
<1>3. /\ store \in [len : Nat, announced : Nat] /\ sessions \subseteq Credential
      /\ store = Nothing \/ store.len = store.announced
      /\ \A s \in sessions : CredOK(s)
  BY DEF IInv, TypeOK, StoredWhole
<1>4. /\ Received(c, n) \in Serve /\ Received(c, n).acc = conn[c].acc + n
      /\ Received(c, n).at <= now /\ ConnInv(Received(c, n))
  BY <1>1, <1>2, ReceivedOK
<1>5. ReadsOn(Received(c, n))
  BY <1>2 DEF Waits, ReadsOn
<1> QED
  BY <1>2, <1>3, <1>4, <1>5, OneConn

\* FeedAnswers: the answer of dispatch is in order, and what a PUT stores is whole.
LEMMA FeedAnswersIInv ==
  ASSUME IInv, NEW c \in Conns, NEW n \in 1 .. AccMax, FeedAnswers(c, n)
  PROVE  IInv'
<1>1. n \in Nat /\ now \in Nat /\ now > 0
  BY ServeAssumption DEF IInv, TypeOK
<1> DEFINE d == Received(c, n)
<1>2. /\ d \in Serve /\ d.acc = conn[c].acc + n /\ d.at <= now /\ ConnInv(d)
  <2>1. conn[c].st = "reading"
    BY DEF FeedAnswers
  <2> QED
    BY <1>1, <2>1, ReceivedOK
<1> DEFINE e(a) == [d EXCEPT !.st = "answered", !.status = a.status, !.access = a.access]
<1>3. PICK a \in dispatch(d.req, d.principal, d.acc) :
        /\ conn' = [conn EXCEPT ![c] = e(a)]
        /\ store' = IF a.effect = "put" THEN [len |-> a.len, announced |-> d.req.cl]
                    ELSE IF a.effect = "delete" THEN Nothing ELSE store
        /\ sessions' = IF a.effect = "login" THEN sessions \cup {edge_auth_session_issue(now)}
                       ELSE sessions
  BY DEF FeedAnswers
<1>4. now' = now /\ mode' = mode /\ d.acc <= AccMax /\ ~Waits(d)
  BY <1>2 DEF FeedAnswers
<1> HIDE DEF d
<1>5. /\ d.req \in Request /\ d.principal \in Principal /\ d.acc \in Nat
      /\ d.st \in {"idle", "reading", "answered"} /\ d.cred \in Credential
      /\ d.at \in Nat /\ d.headers_done \in BOOLEAN
  BY <1>2 DEF Serve
<1>6. AnswerOK(a, d.req, d.principal, d.acc)
  BY <1>3, <1>5, DispatchOK
<1>7. d.headers_done /\ d.acc >= d.req.hdr
  BY <1>2, <1>4 DEF Waits, ConnInv
<1> DEFINE f == e(a)
<1>8. conn' = [conn EXCEPT ![c] = f]
  BY <1>3
<1>9. /\ a.status \in Nat /\ a.access \in Resources \cup {"NONE"}
  BY <1>6 DEF AnswerOK
<1>10. f \in Serve
  BY <1>2, <1>9 DEF Serve
<1>11. /\ f.headers_done = d.headers_done /\ f.acc = d.acc /\ f.req = d.req
       /\ f.cred = d.cred /\ f.at = d.at /\ f.principal = d.principal
       /\ f.access = a.access /\ f.st = "answered"
  BY <1>2 DEF Serve
<1> HIDE DEF f, e
<1>12. ConnInv(f)
  <2>1. f.access = "NONE" /\ Wanted(f.req) # "NONE" => require_rbac(f.principal, Wanted(f.req)) # 0
    BY <1>3, <1>5, <1>11, DispatchGated
  <2> QED
    BY <1>2, <1>6, <1>7, <1>11, <2>1 DEF ConnInv, AnswerOK, Refused
<1>13. a.effect = "put" => a.len = d.req.cl /\ a.len \in Nat
  <2>1. ASSUME a.effect = "put"
        PROVE  a.len = d.req.cl /\ a.len \in Nat
    <3>1. a.len = BodyLen(d.req, d.acc) /\ a.len # 0 /\ d.req.method = "PUT"
      BY <1>6, <2>1 DEF AnswerOK
    <3>2. wait_full_body(d.req, d.acc)
      BY <1>4, <3>1 DEF Waits
    <3>3. a.len = d.req.cl
      BY <1>5, <1>7, <3>1, <3>2, PutWhole
    <3> QED
      BY <3>3, <1>5 DEF Request
  <2> QED
    BY <2>1
<1>14. /\ store \in [len : Nat, announced : Nat]
       /\ store = Nothing \/ store.len = store.announced
  BY DEF IInv, TypeOK, StoredWhole
<1>15. /\ store' \in [len : Nat, announced : Nat]
       /\ store' = Nothing \/ store'.len = store'.announced
  BY <1>3, <1>5, <1>13, <1>14 DEF Nothing, Request
<1>16. sessions' \subseteq Credential /\ \A s \in sessions' : CredOK(s)
  <2>1. edge_auth_session_issue(now) \in Credential /\ CredOK(edge_auth_session_issue(now))
    BY <1>1, AuthAssumption DEF edge_auth_session_issue, Credential, RoleNames, CredOK
  <2>2. sessions \subseteq Credential /\ \A s \in sessions : CredOK(s)
    BY DEF IInv, TypeOK
  <2> QED
    BY <1>3, <2>1, <2>2
<1>17. f.acc <= AccMax /\ f.at <= now
  BY <1>2, <1>4, <1>11
<1> QED
  BY <1>4, <1>8, <1>10, <1>11, <1>12, <1>15, <1>16, <1>17, OneConn

\* Disconnect: the connection is as at the start.
LEMMA DisconnectIInv ==
  ASSUME IInv, NEW c \in Conns, Disconnect(c)
  PROVE  IInv'
<1>1. /\ conn' = [conn EXCEPT ![c] = Idle] /\ UNCHANGED <<store, sessions, now, mode>>
  BY DEF Disconnect
<1>2. /\ store \in [len : Nat, announced : Nat] /\ sessions \subseteq Credential
      /\ store = Nothing \/ store.len = store.announced
      /\ now \in Nat /\ \A s \in sessions : CredOK(s)
  BY DEF IInv, TypeOK, StoredWhole
<1>3. Idle.acc <= AccMax /\ Idle.at <= now
  BY <1>2, IdleOK, ServeAssumption
<1> QED
  BY <1>1, <1>2, <1>3, IdleOK, OneConn

\* Tick: a connection's credential was judged at a time that stays as it was.
LEMMA TickIInv == IInv /\ Tick => IInv'
<1> SUFFICES ASSUME IInv, Tick PROVE IInv'
  OBVIOUS
<1>1. now' = now + 1 /\ now < MaxNow[mode] /\ UNCHANGED <<conn, store, sessions, mode>>
  BY DEF Tick
<1>2. now' \in 1 .. MaxNow[mode]
  BY <1>1, ServeAssumption DEF IInv, TypeOK
<1>3. \A c \in Conns : conn[c].at <= now'
  BY <1>1 DEF IInv, TypeOK, Serve
<1>4. TypeOK'
  BY <1>1, <1>2, <1>3 DEF IInv, TypeOK
<1>5. StoredWhole'
  BY <1>1 DEF IInv, StoredWhole, Nothing
<1>6. \A c \in Conns : ConnInv(conn[c]) /\ (conn[c].st = "reading" => ReadsOn(conn[c]))
  BY DEF IInv
<1>7. (\A c \in Conns : ConnInv(conn[c]) /\ (conn[c].st = "reading" => ReadsOn(conn[c])))'
  BY <1>1, <1>6 DEF ConnInv, PrincipalOf, require_rbac, ReadsOn, wait_full_body, body_off_found
<1> QED
  BY <1>1, <1>4, <1>5, <1>7 DEF IInv

\* The invariant is inductive.
LEMMA NextIInv == IInv /\ [Next]_vars => IInv'
<1> SUFFICES ASSUME IInv, [Next]_vars PROVE IInv'
  OBVIOUS
<1>1. CASE \E c \in Conns, q \in Requests[mode] : \E cred \in Presentable : Connect(c, q, cred)
  BY <1>1, ConnectIInv
<1>2. CASE \E c \in Conns, n \in 1 .. AccMax + 1 : FeedTooLarge(c, n)
  <2>1. PICK c \in Conns, n \in 1 .. AccMax + 1 : FeedTooLarge(c, n)
    BY <1>2
  <2>2. /\ conn' = [conn EXCEPT ![c].st = "answered", ![c].status = 413]
        /\ UNCHANGED <<store, sessions, now, mode>>
    BY <2>1 DEF FeedTooLarge
  <2> DEFINE status == 413
  <2>3. status \in Nat /\ status # 401 /\ status # 403
    OBVIOUS
  <2>4. conn' = [conn EXCEPT ![c].st = "answered", ![c].status = status]
    BY <2>2
  <2> HIDE DEF status
  <2> QED
    BY <2>2, <2>3, <2>4, RefusedIInv
<1>3. CASE \E c \in Conns, n \in 1 .. AccMax : FeedMore(c, n)
  BY <1>3, FeedMoreIInv
<1>4. CASE \E c \in Conns, n \in 1 .. AccMax : FeedAnswers(c, n)
  BY <1>4, FeedAnswersIInv
<1>5. CASE \E c \in Conns : BadRequest(c)
  <2>1. PICK c \in Conns : BadRequest(c)
    BY <1>5
  <2>2. /\ conn' = [conn EXCEPT ![c].st = "answered", ![c].status = 400]
        /\ UNCHANGED <<store, sessions, now, mode>>
    BY <2>1 DEF BadRequest
  <2> DEFINE status == 400
  <2>3. status \in Nat /\ status # 401 /\ status # 403
    OBVIOUS
  <2>4. conn' = [conn EXCEPT ![c].st = "answered", ![c].status = status]
    BY <2>2
  <2> HIDE DEF status
  <2> QED
    BY <2>2, <2>3, <2>4, RefusedIInv
<1>6. CASE \E c \in Conns : Disconnect(c)
  BY <1>6, DisconnectIInv
<1>7. CASE Tick
  BY <1>7, TickIInv
<1>8. CASE UNCHANGED vars
  BY <1>8 DEF vars, IInv, TypeOK, StoredWhole, Nothing, ConnInv, PrincipalOf, require_rbac,
     ReadsOn, wait_full_body, body_off_found
<1> QED
  BY <1>1, <1>2, <1>3, <1>4, <1>5, <1>6, <1>7, <1>8 DEF Next

\* A principal's roles are roles its credential, or the bearer token, can claim.
LEMMA RolesClaimed ==
  ASSUME NEW d \in Serve, ConnInv(d), NEW r \in PrincipalOf(d.cred, d.req, d.at).roles
  PROVE  r \in ClaimedRoles(d, d.at)
<1> DEFINE cred == d.cred  t == d.at  q == d.req
<1>1. /\ cred \in Credential /\ t \in Nat /\ q \in Request
      /\ cred.kind = "cookie" /\ cred.genuine => cred.t > 0
  BY DEF Serve, ConnInv, CredOK
<1>2. cred.t \in Nat /\ cred.roles \in SUBSET (RoleNames \cup {"unknown"})
  BY <1>1 DEF Credential
<1> HIDE DEF cred, t, q
<1>3. CASE mode = "lab_password" /\ cred.kind = "cookie" /\ r \in edge_auth_session_verify(cred, t).roles
  <2>1. cred.genuine /\ t < cred.t /\ r \in cred.roles \cap RoleNames
    BY <1>1, <1>2, <1>3 DEF edge_auth_session_verify, Anonymous, Known
  <2>2. r \in edge_auth_roles_from_csv(cred.roles)
    BY <2>1 DEF edge_auth_roles_from_csv
  <2> QED
    BY <1>3, <2>1, <2>2 DEF ClaimedRoles, InDate, cred, t
<1>4. CASE mode = "proxy_headers" /\ cred.kind = "proxy" /\ r \in edge_auth_proxy_verify(cred, t).roles
  <2>1. /\ cred.genuine /\ Skew(t, cred.t) <= MaxSkew
        /\ r \in edge_auth_roles_from_csv(cred.roles)
    BY <1>4 DEF edge_auth_proxy_verify, Anonymous, Known
  <2>2. cred.t - MaxSkew <= t /\ t <= cred.t + MaxSkew
    BY <1>1, <1>2, <2>1, AuthAssumption DEF Skew
  <2> QED
    BY <1>4, <2>1, <2>2 DEF ClaimedRoles, InDate, cred, t
<1>5. CASE ServiceKey /\ q.bearer /\ r = "service_openai"
  BY <1>5 DEF ClaimedRoles, q
<1>6. \/ mode = "lab_password" /\ cred.kind = "cookie" /\ r \in edge_auth_session_verify(cred, t).roles
      \/ mode = "proxy_headers" /\ cred.kind = "proxy" /\ r \in edge_auth_proxy_verify(cred, t).roles
      \/ ServiceKey /\ q.bearer /\ r = "service_openai"
  BY DEF PrincipalOf, Anonymous, Known, cred, t, q
<1> QED
  BY <1>3, <1>4, <1>5, <1>6

\* edge_auth_rbac_check implements ADR-013's table, but for one case: the first role it
\* finds decides, so one who has both service_openai and ingest, and is no employee, is
\* refused the PUT that ingest allows.  It never allows what the table does not.
THEOREM RbacIsPolicy ==
  \A p \in Principal, res \in Resources :
    edge_auth_rbac_check(p, res) <=>
      /\ p.authenticated
      /\ \E r \in p.roles : <<r, res>> \in Policy
      /\ ~ /\ res = "STATE_PUT" /\ {"ingest", "service_openai"} \subseteq p.roles
           /\ p.roles \cap {"employee", "employee_admin"} = {}
<1> SUFFICES ASSUME NEW p \in Principal, NEW res \in Resources
             PROVE  edge_auth_rbac_check(p, res) <=>
                      /\ p.authenticated
                      /\ \E r \in p.roles : <<r, res>> \in Policy
                      /\ ~ /\ res = "STATE_PUT"
                           /\ {"ingest", "service_openai"} \subseteq p.roles
                           /\ p.roles \cap {"employee", "employee_admin"} = {}
  OBVIOUS
<1> DEFINE Allowed == \E r \in p.roles : <<r, res>> \in Policy
<1>1. CASE p.roles \cap {"employee", "employee_admin"} # {}
  <2>1. edge_auth_rbac_check(p, res) <=> p.authenticated
    BY <1>1 DEF edge_auth_rbac_check
  <2>2. Allowed
    BY <1>1 DEF Policy
  <2> QED
    BY <1>1, <2>1, <2>2
<1>2. CASE p.roles \cap {"employee", "employee_admin"} = {}
  <2>1. Allowed <=> \/ "service_openai" \in p.roles /\ res = "OPENAI"
                    \/ "ingest" \in p.roles /\ res = "STATE_PUT"
    BY <1>2 DEF Policy
  <2>2. edge_auth_rbac_check(p, res)
          <=> /\ p.authenticated
              /\ \/ "service_openai" \in p.roles /\ res = "OPENAI"
                 \/ /\ "service_openai" \notin p.roles
                    /\ "ingest" \in p.roles /\ res = "STATE_PUT"
    BY <1>2 DEF edge_auth_rbac_check
  <2> HIDE DEF Allowed
  <2>3. {"ingest", "service_openai"} \subseteq p.roles
          <=> "ingest" \in p.roles /\ "service_openai" \in p.roles
    OBVIOUS
  <2>4. edge_auth_rbac_check(p, res)
          <=> /\ p.authenticated
              /\ Allowed
              /\ ~ /\ res = "STATE_PUT" /\ {"ingest", "service_openai"} \subseteq p.roles
                   /\ p.roles \cap {"employee", "employee_admin"} = {}
    BY <1>2, <2>1, <2>2, <2>3
  <2> QED
    BY <2>4 DEF Allowed
<1> QED
  BY <1>1, <1>2

\* The invariant implies that every access is justified.
LEMMA IInvJustifies == IInv => AccessJustified
<1> SUFFICES ASSUME IInv, edge_auth_mode_enforced(mode), NEW c \in Conns,
                    conn[c].access # "NONE"
             PROVE  \E r \in ClaimedRoles(conn[c], conn[c].at) :
                      <<r, conn[c].access>> \in Policy
  BY DEF AccessJustified
<1> DEFINE d == conn[c]
<1>1. d \in Serve /\ ConnInv(d) /\ d.access \in Resources
  BY DEF IInv, TypeOK, Serve
<1>2. /\ d.principal = PrincipalOf(d.cred, d.req, d.at)
      /\ require_rbac(d.principal, d.access) = 0
  BY <1>1 DEF ConnInv
<1>3. edge_auth_rbac_check(d.principal, d.access) /\ d.principal \in Principal
  BY <1>1, <1>2 DEF require_rbac, Serve
<1> HIDE DEF d
<1>4. PICK r \in d.principal.roles : <<r, d.access>> \in Policy
  BY <1>1, <1>3, RbacIsPolicy
<1>5. r \in ClaimedRoles(d, d.at)
  BY <1>1, <1>2, <1>4, RolesClaimed
<1> QED
  BY <1>4, <1>5 DEF d

-------------------------------------------------------------------------------

\* However requests are cut into segments and connections interleaved, and whenever
\* the clock moves: a protected resource is used only for a credential that allows it.
THEOREM AccessIsJustified == Spec => []AccessJustified
BY InitIInv, NextIInv, IInvJustifies, PTL DEF Spec

\* Every stored value is the whole body its client announced.
THEOREM BodiesAreWhole == Spec => []StoredWhole
<1>1. IInv => StoredWhole
  BY DEF IInv
<1> QED
  BY InitIInv, NextIInv, <1>1, PTL DEF Spec

-------------------------------------------------------------------------------
(* Nobody is refused, or kept waiting, without reason *)

\* The type of the server's state; acc is never overrun.
THEOREM ServerIsTyped == Spec => []TypeOK
<1>1. IInv => TypeOK
  BY DEF IInv
<1> QED
  BY InitIInv, NextIInv, <1>1, PTL DEF Spec

\* A request that has arrived completely has been answered, however it was cut.
THEOREM CompleteIsAnswered == Spec => []CompleteAnswered
<1>1. IInv => CompleteAnswered
  <2> SUFFICES ASSUME IInv, NEW c \in Conns, conn[c].st = "reading",
                      conn[c].acc >= conn[c].req.hdr
                        + (IF conn[c].req.cl > 0 THEN conn[c].req.cl ELSE 0)
               PROVE  conn[c].req.eol = 2 /\ conn[c].acc < conn[c].req.hdr + 2
    BY DEF CompleteAnswered
  <2> DEFINE d == conn[c]
             q == d.req
  <2>1. d \in Serve /\ ConnInv(d) /\ ReadsOn(d)
    BY DEF IInv, TypeOK
  <2>2. q \in Request /\ d.acc \in Nat
    BY <2>1 DEF Serve
  <2>3. q.hdr \in Nat /\ q.cl \in Nat /\ q.eol \in {2, 4}
    BY <2>2 DEF Request
  <2>4. d.acc >= q.hdr + (IF q.cl > 0 THEN q.cl ELSE 0)
    OBVIOUS
  <2> HIDE DEF d, q
  <2>5. d.acc >= q.hdr
    BY <2>2, <2>3, <2>4
  <2>6. d.headers_done
    BY <2>1, <2>2, <2>3, <2>5 DEF ConnInv, q
  <2>7. ~wait_full_body(q, d.acc)
    BY <2>1, <2>6 DEF ReadsOn, q
  <2>8. q.cl > 0 /\ ~(body_off_found(q, d.acc) /\ d.acc - q.hdr >= q.cl)
    BY <2>3, <2>7 DEF wait_full_body
  <2>9. d.acc - q.hdr >= q.cl
    BY <2>2, <2>3, <2>4, <2>8
  <2>10. ~(q.hdr - q.eol + 3 < d.acc)
    BY <2>8, <2>9 DEF body_off_found
  <2>11. q.eol = 2 /\ d.acc < q.hdr + 2
    BY <2>2, <2>3, <2>8, <2>9, <2>10
  <2> QED
    BY <2>11 DEF d, q
<1> QED
  BY InitIInv, NextIInv, <1>1, PTL DEF Spec

\* The roles a valid credential gives its principal are the ones it can claim; the
\* bearer token counts when the credential gives none.
LEMMA ClaimsGranted ==
  ASSUME NEW d \in Serve, ConnInv(d), NEW p, p = PrincipalOf(d.cred, d.req, d.at),
         NEW R, R = ClaimedRoles(d, d.at)
  PROVE  \/ /\ p.authenticated /\ p.roles # {}
            /\ R = p.roles \cup (IF ServiceKey /\ d.req.bearer THEN {"service_openai"} ELSE {})
         \/ p.authenticated /\ p.roles = {"service_openai"} /\ R = {"service_openai"}
         \/ R = {}
<1> DEFINE cred == d.cred  t == d.at  q == d.req
           token == ServiceKey /\ q.bearer
           valid == /\ cred.genuine /\ InDate(cred, t)
                    /\ <<mode, cred.kind>> \in {<<"lab_password", "cookie">>,
                                                <<"proxy_headers", "proxy">>}
           by == CASE mode = "lab_password" /\ cred.kind = "cookie" ->
                        edge_auth_session_verify(cred, t)
                   [] mode = "proxy_headers" /\ cred.kind = "proxy" ->
                        edge_auth_proxy_verify(cred, t)
                   [] OTHER -> Anonymous
<1>1. cred \in Credential /\ t \in Nat /\ CredOK(cred)
  BY DEF Serve, ConnInv
<1>2. cred.t \in Nat
  BY <1>1 DEF Credential
<1>3. p = IF ~by.authenticated /\ token THEN Known({"service_openai"}) ELSE by
  BY DEF PrincipalOf
<1>4. R = (IF valid THEN edge_auth_roles_from_csv(cred.roles) ELSE {})
          \cup (IF token THEN {"service_openai"} ELSE {})
  BY DEF ClaimedRoles
<1>5. edge_auth_roles_from_csv(cred.roles) # {}
  BY DEF edge_auth_roles_from_csv
<1> HIDE DEF cred, t, q
<1>6. valid => by = Known(edge_auth_roles_from_csv(cred.roles))
  <2>1. CASE mode = "lab_password" /\ cred.kind = "cookie"
    <3> SUFFICES ASSUME valid PROVE by = Known(edge_auth_roles_from_csv(cred.roles))
      OBVIOUS
    <3>1. cred.genuine /\ t < cred.t /\ cred.roles = {"employee"}
      BY <1>1, <2>1 DEF InDate, CredOK
    <3>2. edge_auth_session_verify(cred, t) = Known(cred.roles \cap RoleNames)
      BY <1>1, <1>2, <3>1 DEF edge_auth_session_verify
    <3>3. cred.roles \cap RoleNames = edge_auth_roles_from_csv(cred.roles)
      BY <3>1 DEF edge_auth_roles_from_csv, RoleNames
    <3> QED
      BY <2>1, <3>2, <3>3
  <2>2. CASE mode = "proxy_headers" /\ cred.kind = "proxy"
    <3> SUFFICES ASSUME valid PROVE by = Known(edge_auth_roles_from_csv(cred.roles))
      OBVIOUS
    <3>1. cred.genuine /\ cred.t > 0 /\ cred.t - MaxSkew <= t /\ t <= cred.t + MaxSkew
      BY <1>1, <2>2 DEF InDate, CredOK
    <3>2. Skew(t, cred.t) <= MaxSkew
      BY <1>1, <1>2, <3>1, AuthAssumption DEF Skew
    <3> QED
      BY <2>2, <3>1, <3>2 DEF edge_auth_proxy_verify
  <2> QED
    BY <2>1, <2>2
<1>7. ~valid => by = Anonymous
  <2> SUFFICES ASSUME ~valid PROVE by = Anonymous
    OBVIOUS
  <2>1. CASE mode = "lab_password" /\ cred.kind = "cookie"
    <3>1. ~cred.genuine \/ (cred.t > 0 /\ t >= cred.t)
      BY <1>1, <1>2, <2>1 DEF InDate, CredOK
    <3> QED
      BY <2>1, <3>1 DEF edge_auth_session_verify
  <2>2. CASE mode = "proxy_headers" /\ cred.kind = "proxy"
    <3>1. ~cred.genuine \/ ~(cred.t - MaxSkew <= t /\ t <= cred.t + MaxSkew)
      BY <2>2 DEF InDate
    <3>2. ~cred.genuine \/ ~(Skew(t, cred.t) <= MaxSkew)
      BY <1>1, <1>2, <3>1, AuthAssumption DEF Skew
    <3> QED
      BY <2>2, <3>2 DEF edge_auth_proxy_verify
  <2> QED
    BY <2>1, <2>2
<1> HIDE DEF by, valid, token
<1>8. CASE valid
  BY <1>3, <1>4, <1>5, <1>6, <1>8 DEF Known, token, q
<1>9. CASE ~valid
  BY <1>3, <1>4, <1>7, <1>9 DEF Known, Anonymous
<1> QED
  BY <1>8, <1>9

\* Whoever can claim a role that is allowed the resource is only refused for a
\* second role that edge_auth_rbac_check looks at first.
LEMMA RefusedForReason ==
  ASSUME NEW d \in Serve, ConnInv(d), NEW res \in Resources,
         require_rbac(PrincipalOf(d.cred, d.req, d.at), res) # 0,
         NEW R, R = ClaimedRoles(d, d.at), NEW r \in R, <<r, res>> \in Policy
  PROVE  R \ {r} # {} /\ r \notin {"employee", "employee_admin"}
<1> DEFINE p == PrincipalOf(d.cred, d.req, d.at)
<1>1. ~p.authenticated \/ ~edge_auth_rbac_check(p, res)
  BY DEF require_rbac
<1>2. \/ /\ p.authenticated /\ p.roles # {}
         /\ R = p.roles \cup (IF ServiceKey /\ d.req.bearer THEN {"service_openai"} ELSE {})
      \/ p.authenticated /\ p.roles = {"service_openai"} /\ R = {"service_openai"}
  BY ClaimsGranted
<1> HIDE DEF p
<1>3. p.authenticated /\ p.roles # {} /\ p.roles \subseteq R
      /\ R \subseteq p.roles \cup {"service_openai"}
  BY <1>2
<1>4. "employee" \notin p.roles /\ "employee_admin" \notin p.roles
  BY <1>1, <1>3 DEF edge_auth_rbac_check
<1>5. r \notin {"employee", "employee_admin"}
  BY <1>3, <1>4
<1>6. \/ r = "ingest" /\ res = "STATE_PUT"
      \/ r = "service_openai" /\ res = "OPENAI"
  BY <1>5 DEF Policy
<1>7. CASE r = "ingest" /\ res = "STATE_PUT"
  <2>1. r \in p.roles
    BY <1>3, <1>7
  <2>2. "service_openai" \in p.roles
    BY <1>1, <1>3, <1>4, <1>7, <2>1 DEF edge_auth_rbac_check
  <2> QED
    BY <1>3, <1>5, <1>7, <2>2
<1>8. CASE r = "service_openai" /\ res = "OPENAI"
  <2>1. r \notin p.roles
    BY <1>1, <1>3, <1>4, <1>8 DEF edge_auth_rbac_check
  <2> QED
    BY <1>3, <1>5, <2>1
<1> QED
  BY <1>6, <1>7, <1>8

\* Nobody is refused what the policy allows: neither a session between its login and
\* its expiry, nor signed proxy headers within the skew, nor a bearer token.
THEOREM AccessIsHonoured == Spec => []AccessHonoured
<1>1. IInv => AccessHonoured
  <2> SUFFICES ASSUME IInv, NEW c \in Conns, Refused(conn[c]), Wanted(conn[c].req) # "NONE",
                      NEW R \in {ClaimedRoles(conn[c], conn[c].at)}, NEW r \in R,
                      <<r, Wanted(conn[c].req)>> \in Policy
               PROVE  R \ {r} # {} /\ r \notin {"employee", "employee_admin"}
    BY DEF AccessHonoured
  <2> DEFINE d == conn[c]
  <2>1. d \in Serve /\ ConnInv(d)
    BY DEF IInv, TypeOK
  <2>2. d.principal = PrincipalOf(d.cred, d.req, d.at)
        /\ require_rbac(d.principal, Wanted(d.req)) # 0
    BY <2>1 DEF ConnInv
  <2>3. d.req \in Request
    BY <2>1 DEF Serve
  <2>4. Wanted(d.req) \in Resources
    BY <2>3 DEF Wanted, Resources, edge_auth_classify, Request, Methods, Routes
  <2> HIDE DEF d
  <2>5. R = ClaimedRoles(d, d.at) /\ <<r, Wanted(d.req)>> \in Policy
    BY DEF d
  <2> QED
    BY <2>1, <2>2, <2>4, <2>5, RefusedForReason
<1> QED
  BY InitIInv, NextIInv, <1>1, PTL DEF Spec
=============================================================================
