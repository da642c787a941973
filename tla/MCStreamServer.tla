--------------------------- MODULE MCStreamServer ----------------------------
(* Instances of StreamServer for model checking. *)
EXTENDS StreamServer

MCCommType == {"eth", "pcie", "other"}
none == [emulate |-> FALSE, comm_type |-> None, stream_port |-> None, lane |-> None]
MCArgv ==
  {none, [none EXCEPT !.emulate = TRUE], [none EXCEPT !.stream_port = 4533],
   [none EXCEPT !.lane = 0]}
MCTransportArgv == {none, [none EXCEPT !.comm_type = "eth"]}
MCSlotCfg == {[s \in Slot |-> None], [s \in Slot |-> IF s = 2 THEN 9009 ELSE None]}
=============================================================================
