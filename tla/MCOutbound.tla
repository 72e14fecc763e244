------------------------------ MODULE MCOutbound ------------------------------
(* Headers of one or two bytes, bodies of none to four.                       *)
EXTENDS Outbound

MCResponses ==
  [hdr : {1, 2}, body : {0, 1, 3}, line : {"ok"}]
  \cup [hdr : {1}, body : {1}, line : {"bad", "odd"}]
===============================================================================
