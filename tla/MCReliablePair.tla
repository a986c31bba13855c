--------------------------- MODULE MCReliablePair ---------------------------
(* Small instances of ReliablePair. *)
EXTENDS ReliablePair

\* Three bytes down, one up: replay, overflow (with MaxReplay = 2), two frames
\* in flight, and acknowledgements in both directions.
OneWay == [e \in {"client", "server"} |-> IF e = "server" THEN 3 ELSE 1]
=============================================================================
