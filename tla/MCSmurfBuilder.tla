--------------------------- MODULE MCSmurfBuilder ---------------------------
(* Instances of SmurfBuilder for model checking. *)
EXTENDS SmurfBuilder

MCNumberChannels == {1, 2}
MCUninit == {0, 1, MaxQueueSize}
=============================================================================
