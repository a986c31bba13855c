----------------------------- MODULE ByteStream -----------------------------
(***************************************************************************)
(* What a connection promises its two applications (README: "A client      *)
(* connection implements an ordered byte stream"): each end is handed the  *)
(* bytes the other end wrote, in order, without a hole or a repetition, no *)
(* matter what happens to the transport below.  The promise says nothing   *)
(* of how many: a session that cannot be kept ends early.                  *)
(*                                                                         *)
(* A byte is its position in the stream, as in Reliable.                   *)
(***************************************************************************)
EXTENDS Naturals, Sequences

CONSTANTS
    Ends,    \* the two ends of a connection
    peer     \* peer[e] is the other end

VARIABLES
    written,   \* written[e]: how many bytes e's application has written
    delivered  \* delivered[e]: the bytes handed to e's application, in order

streamVars == <<written, delivered>>

\* The first n bytes of a stream.
FirstBytes(n) == [i \in 1..n |-> i]

StreamInit ==
    /\ written = [e \in Ends |-> 0]
    /\ delivered = [e \in Ends |-> <<>>]

AppWrite(e) ==
    /\ written' \in [Ends -> Nat]
    /\ written'[e] > written[e]
    /\ \A f \in Ends \ {e} : written'[f] = written[f]
    /\ UNCHANGED delivered

Deliver(e) ==
    /\ \E n \in 1..written[peer[e]] :
          /\ n > Len(delivered[e])
          /\ delivered' = [delivered EXCEPT ![e] = FirstBytes(n)]
    /\ UNCHANGED written

StreamNext == \E e \in Ends : AppWrite(e) \/ Deliver(e)

StreamSpec == StreamInit /\ [][StreamNext]_streamVars
=============================================================================
