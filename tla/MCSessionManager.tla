-------------------------- MODULE MCSessionManager --------------------------
(* Instances of SessionManager for model checking. *)
EXTENDS SessionManager

MCRegister == {datfile_open, g3stream_open, "other"}
MCValue == {0, 1}
=============================================================================
