--------------------------- MODULE MCBufferedPipe ---------------------------
(* A small instance of BufferedPipe: no, one or two readers. *)
EXTENDS BufferedPipe, TLC

CONSTANTS r1, r2

=============================================================================
