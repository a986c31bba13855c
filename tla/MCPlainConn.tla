----------------------------- MODULE MCPlainConn -----------------------------
(* Each kind of download and of upload once: the two loops of a connection     *)
(* share only its flags and the session.                                       *)
EXTENDS PlainConn

MCModes ==
    {[down |-> "batch", up |-> "stream"], [down |-> "stream", up |-> "batch"],
     [down |-> "ws", up |-> "ws"]}
=============================================================================
