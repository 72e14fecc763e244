------------------------------ MODULE EdgeConfig ------------------------------
(***************************************************************************)
(* The part of edge_config_t that the validator looks at                   *)
(* (src/src/core/edge_config.c).  A configuration is a record with one     *)
(* field per validated setting; the settings the validator never reads are *)
(* left out.                                                               *)
(***************************************************************************)
EXTENDS Naturals

AuthModes == {"", "open", "lab_password", "proxy_headers"}

\* edge_config_defaults: every setting that the validator reads, as shipped.
edge_config_defaults ==
  [listen_host |-> "0.0.0.0", listen_port |-> 8080, http_max_body_bytes |-> 1048576,
   http_max_pending_outbound |-> 256, http_max_upstream_body_bytes |-> 4194304, auth_mode |-> "open",
   auth_session_ttl_s |-> 28800, auth_proxy_max_skew_s |-> 300]

\* edge_config_validate: the conjunction of its eight early returns.
edge_config_validate(c) ==
  /\ c.listen_host # ""
  /\ c.listen_port # 0
  /\ c.http_max_body_bytes # 0
  /\ c.http_max_pending_outbound # 0
  /\ c.http_max_upstream_body_bytes # 0
  /\ c.auth_mode \in AuthModes
  /\ c.auth_session_ttl_s # 0
  /\ c.auth_proxy_max_skew_s # 0
===============================================================================
