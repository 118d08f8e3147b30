---------------------------- MODULE MCDashboard ----------------------------
(* One connection, served again and again: lines and bodies of up to three *)
(* units, a response of one more than a client's buffers hold.             *)
EXTENDS Dashboard, TLC

CONSTANT c1

MCConn == {c1}
=============================================================================
