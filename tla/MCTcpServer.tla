---------------------------- MODULE MCTcpServer ----------------------------
(* One listening socket, one client at a time and a fiber that connects    *)
(* again and again, with one descriptor fewer than they need together.     *)
EXTENDS TcpServer
=============================================================================
