------------------------------- MODULE HttpServe ------------------------------
(***************************************************************************)
(* The HTTP server object of a connection (src/src/host/edge_http1_serve.c): *)
(* edge_http1_serve_feed is given a request in segments as they come from  *)
(* the network, decides who is asking when the headers are complete, waits *)
(* for the body and dispatches.  Connections take turns and the clock goes *)
(* on in between.  A connection serves one request (Connection: close).    *)
(*                                                                         *)
(* Bytes are counted, not spelled: a request has hdr bytes up to and with  *)
(* the blank line, whose line ends take eol bytes (4 for CRLF CRLF, 2 for  *)
(* LF LF), announces cl bytes of body and sends body bytes.  The state     *)
(* store is the matter of StateFanout; here it is one key, with the length *)
(* of its value.                                                           *)
(***************************************************************************)
EXTENDS AuthRbac, FiniteSets

CONSTANTS
  Conns,        \* connections
  Requests,     \* under each mode, the requests that clients send
  RoleLists,    \* under each mode, the X-Roles that proxies send
  AccMax,       \* EDGE_HTTP_ACC_MAX
  MaxOpen,      \* bound, by mode: connections open at a time
  MaxNow        \* bound, by mode: seconds on the clock

Routes == {"login", "me", "v1", "stream", "state", "list", "packages", "health", "spa"}

\* content says whether the body is what the route expects ("wrong": a login with
\* the wrong password), upgrade whether it is a WebSocket handshake, bearer
\* whether it carries the service's token.
Request == [method : Methods, route : Routes, bearer : BOOLEAN, upgrade : BOOLEAN,
            content : {"good", "wrong", "junk"}, hdr : Nat, eol : {2, 4}, cl : Nat,
            body : Nat]

ASSUME ServeAssumption ==
  /\ \A m \in Modes : \A q \in Requests[m] : q \in Request /\ q.hdr >= 4
  /\ \A m \in Modes : RoleLists[m] \subseteq SUBSET (RoleNames \cup {"unknown"})
  /\ AccMax \in Nat \ {0}
  /\ \A m \in Modes : MaxNow[m] \in Nat \ {0} /\ MaxOpen[m] \in Nat \ {0}

VARIABLES
  conn,         \* edge_http1_serve_t of each connection, with its peer
  store,        \* the stored value: its length and the length its client announced
  sessions,     \* cookies handed out by lab login
  now,
  mode          \* auth.mode, set at start-up

vars == <<conn, store, sessions, now, mode>>

\* st is "idle" (no connection), "reading" or "answered" (done).  acc is acc_len;
\* status and access are the answer: its status and the protected resource it
\* was allowed to use.
Serve == [st : {"idle", "reading", "answered"}, req : Request, cred : Credential,
          acc : Nat, headers_done : BOOLEAN, at : Nat, principal : Principal,
          status : Nat, access : Resources \cup {"NONE"}]

NoRequest == [method |-> "GET", route |-> "spa", bearer |-> FALSE, upgrade |-> FALSE,
              content |-> "good", hdr |-> 4, eol |-> 4, cl |-> 0, body |-> 0]
Idle == [st |-> "idle", req |-> NoRequest, cred |-> NoCredential, acc |-> 0,
         headers_done |-> FALSE, at |-> 0, principal |-> Anonymous, status |-> 0,
         access |-> "NONE"]
Nothing == [len |-> 0, announced |-> 0]

Init ==
  /\ conn = [c \in Conns |-> Idle]
  /\ store = Nothing
  /\ sessions = {}
  /\ now = 1
  /\ mode \in Modes

-------------------------------------------------------------------------------
(* Who is asking *)

\* The principal that feed derives when the headers are complete: a session
\* cookie or signed proxy headers, depending on the mode, and failing that the
\* service's bearer token.
PrincipalOf(cred, q, t) ==
  LET p == CASE mode = "lab_password" /\ cred.kind = "cookie" ->
                  edge_auth_session_verify(cred, t)
             [] mode = "proxy_headers" /\ cred.kind = "proxy" ->
                  edge_auth_proxy_verify(cred, t)
             [] OTHER -> Anonymous
  IN  IF ~p.authenticated /\ ServiceKey /\ q.bearer
      THEN Known({"service_openai"}) ELSE p

\* require_rbac: 0 or the status of the refusal.
require_rbac(p, res) ==
  IF ~edge_auth_mode_enforced(mode) \/ res = "NONE" THEN 0
  ELSE IF ~p.authenticated THEN 401
  ELSE IF ~edge_auth_rbac_check(p, res) THEN 403
  ELSE 0

-------------------------------------------------------------------------------
(* The body *)

\* mark_body_off has found the blank line; its loop stops three bytes short of
\* the end of what was received.
body_off_found(q, acc) == q.hdr - q.eol + 3 < acc

\* Mutant: the body counts from the start of the headers.
wait_full_body_early(q, acc) == q.cl <= 0 \/ acc >= q.cl

\* Mutant: one byte more than announced is waited for.
wait_full_body_late(q, acc) ==
  q.cl <= 0 \/ (body_off_found(q, acc) /\ acc - q.hdr > q.cl)

\* wait_full_body.
wait_full_body(q, acc) ==
  q.cl <= 0 \/ (body_off_found(q, acc) /\ acc - q.hdr >= q.cl)

\* get_body: at most the announced length.
BodyLen(q, acc) ==
  IF ~body_off_found(q, acc) THEN 0
  ELSE IF q.cl >= 0 /\ acc - q.hdr > q.cl THEN q.cl ELSE acc - q.hdr

-------------------------------------------------------------------------------
(* Handlers: the set of answers they may give *)

\* An answer and what it does besides: "login" issues a session, "put" stores len
\* bytes, "delete" removes the key.
Reply(status, effect, len) ==
  [status |-> status, access |-> "NONE", effect |-> effect, len |-> len]
Answer(status) == Reply(status, "none", 0)

\* A handler behind require_rbac.
Gated(p, res, answers) ==
  IF require_rbac(p, res) # 0 THEN {Answer(require_rbac(p, res))}
  ELSE {[status |-> a.status, access |-> res, effect |-> a.effect, len |-> a.len] : a \in answers}

\* dispatch_lab_login.
dispatch_lab_login(q, acc) ==
  IF q.method # "POST" THEN {Answer(405)}
  ELSE IF mode # "lab_password" THEN {Answer(503)}
  ELSE IF BodyLen(q, acc) = 0 \/ q.content = "junk" THEN {Answer(400)}
  ELSE IF q.content = "wrong" THEN {Answer(401)}
  ELSE {Reply(200, "login", 0)}

\* dispatch_auth_me.  (The roles it lists are "employee" and, when held,
\* "employee_admin", whatever the principal's roles are.)
dispatch_auth_me(q, p) ==
  IF q.method # "GET" THEN {Answer(405)}
  ELSE IF ~p.authenticated THEN {Answer(401)}
  ELSE {Answer(200)}

\* The /v1 branch of dispatch, with the plugin's own answer (PluginHost).
dispatch_v1(p) == Gated(p, "OPENAI", {Answer(200), Answer(429), Answer(502)})

\* dispatch_stream: the upgrade to WebSocket.
dispatch_stream(q, p) ==
  Gated(p, "WS_STREAM",
        IF q.method # "GET" THEN {Answer(405)}
        ELSE IF ~q.upgrade THEN {Answer(400)}
        ELSE {Answer(101)})

\* PUT in dispatch_state.  Without the start of the body it returns 0, and
\* dispatch goes on to refuse the method.  edge_state_put wants JSON and may find the
\* namespace full or disabled.
Put(q, acc) ==
  IF ~body_off_found(q, acc) THEN {Answer(405)}
  ELSE IF BodyLen(q, acc) = 0 \/ q.content = "junk" THEN {Answer(400), Answer(403)}
  ELSE {Reply(204, "put", BodyLen(q, acc)), Answer(507), Answer(403)}

\* dispatch_state on a key, or on a namespace to list; no other method than GET
\* works on a namespace.
dispatch_state(q, p, acc) ==
  Gated(p, edge_auth_classify(q.method, q.route),
        CASE q.method = "GET" ->
               IF q.route = "list" THEN {Answer(200), Answer(403)}
               ELSE IF store = Nothing THEN {Answer(404), Answer(403)}
               ELSE {Answer(200), Answer(403)}
          [] q.method = "PUT" -> IF q.route = "list" THEN {Answer(400)} ELSE Put(q, acc)
          [] q.method = "DELETE" ->
               IF q.route = "list" THEN {Answer(400)}
               ELSE IF store = Nothing THEN {Answer(404), Answer(403)}
               ELSE {Reply(204, "delete", 0), Answer(403)}
          [] OTHER -> {Answer(405)})

\* dispatch: the routes in order; packages and the SPA only answer GET.
dispatch(q, p, acc) ==
  CASE q.route = "login" -> dispatch_lab_login(q, acc)
    [] q.route = "me" -> dispatch_auth_me(q, p)
    [] q.route = "v1" -> dispatch_v1(p)
    [] q.route = "stream" -> dispatch_stream(q, p)
    [] q.route \in {"state", "list"} -> dispatch_state(q, p, acc)
    [] q.route \in {"packages", "health", "spa"} /\ q.method # "GET" -> {Answer(405)}
    [] q.route = "packages" /\ q.method = "GET" ->
         Gated(p, "PACKAGES", {Answer(200), Answer(404)})
    [] q.route \in {"health", "spa"} /\ q.method = "GET" -> {Answer(200), Answer(404)}

-------------------------------------------------------------------------------
(* Actions *)

\* What a client may present: nothing, a session it was given, proxy headers
\* signed within or outside the skew on either side, or a credential not signed by the server's key.
Presentable ==
  {NoCredential, [kind |-> "cookie", genuine |-> FALSE, roles |-> {"employee"}, t |-> now + 1]}
  \cup sessions
  \cup [kind : {"proxy"}, genuine : BOOLEAN, roles : RoleLists[mode], t : 1 .. MaxNow[mode]]

\* A client connects with a request to send.
Connect(c, q, cred) ==
  /\ conn[c].st = "idle" /\ Cardinality({x \in Conns : conn[x].st # "idle"}) < MaxOpen[mode]
  /\ conn' = [conn EXCEPT ![c] = [Idle EXCEPT !.st = "reading", !.req = q, !.cred = cred]]
  /\ UNCHANGED <<store, sessions, now, mode>>

\* edge_http1_serve_feed overruns acc: 413.
FeedTooLarge(c, n) ==
  /\ conn[c].st = "reading"
  /\ conn[c].acc + n <= conn[c].req.hdr + conn[c].req.body
  /\ conn[c].acc + n > AccMax
  /\ conn' = [conn EXCEPT ![c].st = "answered", ![c].status = 413]
  /\ UNCHANGED <<store, sessions, now, mode>>

\* The connection after n more bytes: the principal is settled by the segment that
\* completes the headers.
Received(c, n) ==
  LET acc == conn[c].acc + n IN
  IF conn[c].headers_done \/ acc < conn[c].req.hdr
  THEN [conn[c] EXCEPT !.acc = acc]
  ELSE [conn[c] EXCEPT !.acc = acc, !.headers_done = TRUE, !.at = now,
                       !.principal = PrincipalOf(conn[c].cred, conn[c].req, now)]

\* feed has to wait: for the headers, or for the body of a PUT or POST.
Waits(d) ==
  \/ ~d.headers_done
  \/ d.req.method \in {"PUT", "POST"} /\ ~wait_full_body(d.req, d.acc)

\* Mutant: acc has no limit.
FeedMore_unbounded(c, n) ==
  /\ conn[c].st = "reading"
  /\ conn[c].acc + n <= conn[c].req.hdr + conn[c].req.body
  /\ Waits(Received(c, n))
  /\ conn' = [conn EXCEPT ![c] = Received(c, n)]
  /\ UNCHANGED <<store, sessions, now, mode>>

\* edge_http1_serve_feed returns 0.
FeedMore(c, n) ==
  /\ conn[c].st = "reading"
  /\ conn[c].acc + n <= conn[c].req.hdr + conn[c].req.body
  /\ conn[c].acc + n <= AccMax
  /\ Waits(Received(c, n))
  /\ conn' = [conn EXCEPT ![c] = Received(c, n)]
  /\ UNCHANGED <<store, sessions, now, mode>>

\* edge_http1_serve_feed dispatches and returns 1.
FeedAnswers(c, n) ==
  /\ conn[c].st = "reading"
  /\ conn[c].acc + n <= conn[c].req.hdr + conn[c].req.body
  /\ conn[c].acc + n <= AccMax
  /\ ~Waits(Received(c, n))
  /\ LET d == Received(c, n) IN
     \E a \in dispatch(d.req, d.principal, d.acc) :
       /\ conn' = [conn EXCEPT ![c] = [d EXCEPT !.st = "answered", !.status = a.status,
                                                !.access = a.access]]
       /\ store' = IF a.effect = "put" THEN [len |-> a.len, announced |-> d.req.cl]
                   ELSE IF a.effect = "delete" THEN Nothing ELSE store
       /\ sessions' = IF a.effect = "login" THEN sessions \cup {edge_auth_session_issue(now)}
                      ELSE sessions
  /\ UNCHANGED <<now, mode>>

\* The parser reports an error, or the peer closes its side, before the request
\* was dispatched: 400.
BadRequest(c) ==
  /\ conn[c].st = "reading"
  /\ conn' = [conn EXCEPT ![c].st = "answered", ![c].status = 400]
  /\ UNCHANGED <<store, sessions, now, mode>>

\* The connection is closed; its server object is destroyed.
Disconnect(c) ==
  /\ conn[c].st # "idle"
  /\ conn' = [conn EXCEPT ![c] = Idle]
  /\ UNCHANGED <<store, sessions, now, mode>>

Tick ==
  /\ now < MaxNow[mode]
  /\ now' = now + 1
  /\ UNCHANGED <<conn, store, sessions, mode>>

Next ==
  \/ \E c \in Conns, q \in Requests[mode] : \E cred \in Presentable : Connect(c, q, cred)
  \/ \E c \in Conns, n \in 1 .. AccMax + 1 : FeedTooLarge(c, n)
  \/ \E c \in Conns, n \in 1 .. AccMax : FeedMore(c, n)
  \/ \E c \in Conns, n \in 1 .. AccMax : FeedAnswers(c, n)
  \/ \E c \in Conns : BadRequest(c)
  \/ \E c \in Conns : Disconnect(c)
  \/ Tick

Spec == Init /\ [][Next]_vars

-------------------------------------------------------------------------------
(* Properties *)

\* Type correctness; acc never holds more than EDGE_HTTP_ACC_MAX bytes.
TypeOK ==
  /\ conn \in [Conns -> Serve]
  /\ \A c \in Conns : conn[c].acc <= AccMax /\ conn[c].at <= now
  /\ store \in [len : Nat, announced : Nat]
  /\ sessions \subseteq Credential
  /\ mode \in Modes /\ now \in 1 .. MaxNow[mode]

\* ADR-013's table of who may use what.
Policy ==
  ({"employee", "employee_admin"} \X Resources)
  \cup {<<"ingest", "STATE_PUT">>, <<"service_openai", "OPENAI">>}

\* A credential is in date at time t: a session before its expiry, proxy headers
\* within the skew.
InDate(cred, t) ==
  IF cred.kind = "cookie" THEN t < cred.t
  ELSE cred.t - MaxSkew <= t /\ t <= cred.t + MaxSkew

\* The roles that connection d can claim at time t, under the mode in force.
ClaimedRoles(d, t) ==
  (IF /\ d.cred.genuine /\ InDate(d.cred, t)
      /\ <<mode, d.cred.kind>> \in {<<"lab_password", "cookie">>, <<"proxy_headers", "proxy">>}
   THEN edge_auth_roles_from_csv(d.cred.roles) ELSE {})
  \cup IF ServiceKey /\ d.req.bearer THEN {"service_openai"} ELSE {}

\* Whatever a request's segments, its method and the other connections do in
\* between: under an enforced mode a protected resource is only used on behalf of a
\* credential of the right kind, signed with the server's key, in date when the
\* headers were complete, one of whose roles ADR-013 allows that resource.
AccessJustified ==
  edge_auth_mode_enforced(mode) =>
    \A c \in Conns : conn[c].access # "NONE" =>
      \E r \in ClaimedRoles(conn[c], conn[c].at) : <<r, conn[c].access>> \in Policy

\* The resource a request asks for.
Wanted(q) ==
  CASE q.route = "v1" -> "OPENAI"
    [] q.route = "stream" -> "WS_STREAM"
    [] q.route \in {"state", "list"} -> edge_auth_classify(q.method, q.route)
    [] q.route = "packages" /\ q.method = "GET" -> "PACKAGES"
    [] OTHER -> "NONE"

Refused(d) == d.st = "answered" /\ d.access = "NONE" /\ d.status \in {401, 403}

\* The other direction: whoever presents a credential that gives a single role
\* (or that of an employee) is not refused what ADR-013 allows that role; in
\* particular a session works from login to expiry, and a bearer token helps
\* when the session has expired.
AccessHonoured ==
  \A c \in Conns :
    /\ Refused(conn[c]) /\ Wanted(conn[c].req) # "NONE"
    => \A R \in {ClaimedRoles(conn[c], conn[c].at)} :
         \A r \in R : <<r, Wanted(conn[c].req)>> \in Policy
                        => R \ {r} # {} /\ r \notin {"employee", "employee_admin"}

\* However a PUT is cut into segments, and whatever follows its body, the value
\* stored is the whole body its client announced and nothing else.
StoredWhole == store = Nothing \/ store.len = store.announced

\* "PUT/POST with body: wait until full body present in acc": nobody is kept
\* waiting for ever.  A request that has arrived completely has been answered.
\* (A bare-LF request with a body of a single byte is the exception: mark_body_off
\* does not find its blank line.)
CompleteAnswered ==
  \A c \in Conns :
    LET q == conn[c].req IN
    conn[c].st = "reading" /\ conn[c].acc >= q.hdr + (IF q.cl > 0 THEN q.cl ELSE 0)
      => q.eol = 2 /\ conn[c].acc < q.hdr + 2
===============================================================================
