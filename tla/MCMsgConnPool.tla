---------------------------- MODULE MCMsgConnPool ----------------------------
(***************************************************************************)
(* Model-checking instance of MsgConnPool.  The constants are given in     *)
(* the .cfg files: AutoReconnect, ConnTryTimes (the limit passed to        *)
(* NewConn) and MaxConns, the number of connections TLC lets the pool      *)
(* create (dials beyond it are not explored).                               *)
(***************************************************************************)
EXTENDS MsgConnPool

=============================================================================
