------------------------------- MODULE AuthRbac -------------------------------
(***************************************************************************)
(* Principals, roles and credentials (src/src/core/auth_rbac.c).  Signing  *)
(* is abstract: a credential carries whether its HMAC was made with the    *)
(* server's key (genuine).  Its time t is the expiry of a session cookie   *)
(* and the X-Auth-Timestamp of signed proxy headers.                       *)
(***************************************************************************)
EXTENDS Integers

CONSTANTS
  Modes,        \* values of auth.mode
  Ttl,          \* auth.session_ttl_s
  MaxSkew,      \* auth.proxy_max_skew_s
  ServiceKey    \* TRUE: a service API key is configured

ASSUME AuthAssumption ==
  /\ Modes \subseteq {"open", "lab_password", "proxy_headers"}
  /\ Ttl \in Nat \ {0} /\ MaxSkew \in Nat \ {0}
  /\ ServiceKey \in BOOLEAN

RoleNames == {"employee", "employee_admin", "cpe", "customer", "service_openai",
              "ingest"}
Resources == {"STATE_GET", "STATE_PUT", "STATE_DELETE", "STATE_LIST", "WS_STREAM",
              "PACKAGES", "OPENAI"}
Methods == {"GET", "PUT", "POST", "DELETE"}

Principal == [authenticated : BOOLEAN, roles : SUBSET RoleNames]
Anonymous == [authenticated |-> FALSE, roles |-> {}]
Known(roles) == [authenticated |-> TRUE, roles |-> roles]

Credential == [kind : {"none", "cookie", "proxy"}, genuine : BOOLEAN,
               roles : SUBSET (RoleNames \cup {"unknown"}), t : Nat]
NoCredential == [kind |-> "none", genuine |-> FALSE, roles |-> {}, t |-> 0]

\* edge_auth_mode_enforced.
edge_auth_mode_enforced(mode) == mode \in {"lab_password", "proxy_headers"}

\* edge_auth_rbac_check: the roles are tried in this order and the first one
\* held decides.
edge_auth_rbac_check(p, res) ==
  /\ p.authenticated
  /\ \/ p.roles \cap {"employee", "employee_admin"} # {}
     \/ /\ p.roles \cap {"employee", "employee_admin"} = {}
        /\ \/ "service_openai" \in p.roles /\ res = "OPENAI"
           \/ /\ "service_openai" \notin p.roles
              /\ "ingest" \in p.roles /\ res = "STATE_PUT"

\* edge_auth_classify as the state API uses it, on a key ("state") or on a whole
\* namespace ("list"); "NONE" is not protected.
edge_auth_classify(method, route) ==
  CASE method = "GET" /\ route = "list" -> "STATE_LIST"
    [] method = "GET" /\ route = "state" -> "STATE_GET"
    [] method = "PUT" -> "STATE_PUT"
    [] method = "DELETE" -> "STATE_DELETE"
    [] OTHER -> "NONE"

\* edge_auth_session_issue of a lab session.
edge_auth_session_issue(now) ==
  [kind |-> "cookie", genuine |-> TRUE, roles |-> {"employee"}, t |-> now + Ttl]

\* Mutant: the expiry is not looked at.
edge_auth_session_verify_no_exp(c, now) == IF c.genuine THEN Known(c.roles) ELSE Anonymous

\* Mutant: a session ends a second early.
edge_auth_session_verify_early(c, now) ==
  IF c.genuine /\ ~(c.t > 0 /\ now + 1 >= c.t) THEN Known(c.roles \cap RoleNames)
  ELSE Anonymous

\* edge_auth_session_verify.
edge_auth_session_verify(c, now) ==
  IF c.genuine /\ ~(c.t > 0 /\ now >= c.t) THEN Known(c.roles \cap RoleNames)
  ELSE Anonymous

\* edge_auth_roles_from_csv: unknown names are dropped, nothing left means employee.
edge_auth_roles_from_csv(roles) ==
  IF roles \cap RoleNames = {} THEN {"employee"} ELSE roles \cap RoleNames

Skew(a, b) == IF a > b THEN a - b ELSE b - a

\* edge_auth_proxy_verify: the timestamp must be within the skew on either side.
edge_auth_proxy_verify(c, now) ==
  IF c.t > 0 /\ Skew(now, c.t) <= MaxSkew /\ c.genuine
  THEN Known(edge_auth_roles_from_csv(c.roles)) ELSE Anonymous
===============================================================================
