---------------------------- MODULE MCStreamBase -----------------------------
(* Instances of StreamBase for model checking. *)
EXTENDS StreamBase

MCOption == {"DataEncodeAlgo"}
MCTag == {"stream_tag"}
MCStream == {"stream_tag", "open_g3stream"}
MCPolled == {"open_g3stream"}
=============================================================================
