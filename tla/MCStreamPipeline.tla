-------------------------- MODULE MCStreamPipeline ---------------------------
(* Instances of StreamPipeline for model checking. *)
EXTENDS StreamPipeline

MCStatuses == [{"g3"} -> {0, 1}]
MCRegister == {"g3", "datfile"}
=============================================================================
