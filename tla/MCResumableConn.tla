--------------------------- MODULE MCResumableConn ---------------------------
(* ResumableConn has no constants: its state is finite as it stands. *)
EXTENDS ResumableConn
=============================================================================
