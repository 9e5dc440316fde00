---------------------------- MODULE MCSocketWire ----------------------------
(* Three packages over two or three connections: enough for a package to   *)
(* be read on one connection, sent again on the next and overtaken there.  *)
EXTENDS SocketWire
=============================================================================
