---------------------------- MODULE MCClientLoop ----------------------------
(* A backoff that doubles once and is then cut off.                            *)
EXTENDS ClientLoop
=============================================================================
