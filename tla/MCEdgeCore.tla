------------------------------ MODULE MCEdgeCore ------------------------------
(* A small instance of EdgeCore: one configuration that validates and two    *)
(* that do not.                                                              *)
EXTENDS EdgeCore, TLC

MCConfigs ==
  {[edge_config_defaults EXCEPT !.listen_port = 9090],
   [edge_config_defaults EXCEPT !.listen_port = 0],
   [edge_config_defaults EXCEPT !.auth_mode = "basic"]}
===============================================================================
