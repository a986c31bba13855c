-------------------------------- MODULE Conn --------------------------------
(***************************************************************************)
(* What every connection of a Connector promises its owner (the interface  *)
(* Conn of client.go): the two channels TransportFailed and                *)
(* SessionSuperseded, Read and Close.  PlainConn and ResumableConn         *)
(* implement it; ClientLoop is written against it.                         *)
(***************************************************************************)

VARIABLES
    conn,    \* the connection
    active   \* the Connector's active session: "me", or one adopted earlier or later

iface == <<conn, active>>

newConn ==
    [failed |-> FALSE,     \* TransportFailed is closed
     superseded |-> FALSE, \* SessionSuperseded is closed
     judged |-> "me",      \* the active session when it was
     ended |-> FALSE,      \* Read is released
     closed |-> FALSE,     \* Close was called
     done |-> FALSE]       \* and has stopped everything

ConnInit == conn = newConn /\ active \in {"me", "older"}

\* A verdict, which releases the reader after it.
Fails ==
    /\ ~conn.done
    /\ conn' = [conn EXCEPT !.failed = TRUE]
    /\ UNCHANGED active

Supersedes ==
    /\ ~conn.done /\ active # "me"
    /\ conn' = [conn EXCEPT !.superseded = TRUE, !.judged = active]
    /\ UNCHANGED active

\* Variant: the reader may be released before the verdict.
EndsEarly ==
    /\ ~conn.ended
    /\ conn' = [conn EXCEPT !.ended = TRUE]
    /\ UNCHANGED active

Ends ==
    /\ ~conn.ended /\ (conn.failed \/ conn.superseded)
    /\ conn' = [conn EXCEPT !.ended = TRUE]
    /\ UNCHANGED active

Closes ==
    /\ ~conn.closed
    /\ conn' = [conn EXCEPT !.closed = TRUE]
    /\ UNCHANGED active

Stops ==
    /\ conn.closed /\ ~conn.done
    /\ conn' = [conn EXCEPT !.ended = TRUE, !.done = TRUE]
    /\ UNCHANGED active

Adopts(who) == active' = who /\ UNCHANGED conn

Steps == Fails \/ Supersedes \/ Ends \/ Closes \/ Stops \/ Adopts("me") \/ Adopts("newer")

Behaviour == ConnInit /\ [][Steps]_iface

\* A verdict releases the reader, and Close returns.
Released ==
    /\ (conn.failed \/ conn.superseded) ~> conn.ended
    /\ conn.closed ~> conn.done

Contract == Behaviour /\ Released
=============================================================================
