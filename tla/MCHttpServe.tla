----------------------------- MODULE MCHttpServe ------------------------------
(* Requests for every route; headers of four bytes, bodies of up to five.     *)
EXTENDS HttpServe, TLC

Req(method, route, cl, body) ==
  [method |-> method, route |-> route, bearer |-> FALSE, upgrade |-> FALSE,
   content |-> "good", hdr |-> 4, eol |-> 4, cl |-> cl, body |-> body]

AllRequests ==
  {Req("POST", "login", 1, 1),
   [Req("POST", "login", 1, 1) EXCEPT !.content = "wrong"],
   [Req("POST", "login", 1, 1) EXCEPT !.content = "junk"],
   Req("GET", "me", 0, 0),
   [Req("POST", "v1", 1, 1) EXCEPT !.bearer = TRUE],
   [Req("GET", "stream", 0, 0) EXCEPT !.upgrade = TRUE],
   Req("PUT", "state", 2, 3),                            \* trailing bytes
   [Req("PUT", "state", 1, 1) EXCEPT !.eol = 2],         \* LF only
   [Req("PUT", "state", 2, 2) EXCEPT !.bearer = TRUE],
   Req("PUT", "state", 5, 5),                            \* overruns acc
   Req("GET", "state", 0, 0),
   Req("DELETE", "state", 0, 0),
   Req("GET", "list", 0, 0),
   Req("POST", "state", 0, 0),
   Req("GET", "packages", 0, 0),
   Req("PUT", "health", 0, 0),
   Req("GET", "health", 0, 0)}

\* A smaller choice for two connections at a time.
LabRequests ==
  {Req("POST", "login", 1, 1),
   [Req("POST", "v1", 1, 1) EXCEPT !.bearer = TRUE],
   Req("PUT", "state", 2, 3),
   [Req("PUT", "state", 1, 1) EXCEPT !.eol = 2],
   Req("PUT", "state", 5, 5),
   Req("DELETE", "state", 0, 0)}

MCRequests == [m \in Modes |-> IF m = "lab_password" THEN LabRequests ELSE AllRequests]
MCMaxOpen == [m \in Modes |-> IF m = "lab_password" THEN 2 ELSE 1]
MCMaxNow == [m \in Modes |-> IF m = "proxy_headers" THEN 4 ELSE 2]

MCSymmetry == Permutations(Conns)

MCRoleLists ==
  [open          |-> {{"employee"}},
   lab_password  |-> {},
   proxy_headers |-> {{"employee"}, {"employee_admin"}, {"ingest"}, {"cpe", "unknown"}, {}}]
===============================================================================
