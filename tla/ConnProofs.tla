----------------------------- MODULE ConnProofs -----------------------------
(***************************************************************************)
(* The record of the interface Conn, field by field: what PlainConnProofs  *)
(* and ResumableConnProofs need to know of it to show that their           *)
(* connections implement Conn.                                             *)
(***************************************************************************)
EXTENDS TLAPS

\* TransportFailed, SessionSuperseded, the active session then, Read released, Close
\* called, Close done.
face(f, p, j, e, l, n) ==
    [failed |-> f, superseded |-> p, judged |-> j, ended |-> e, closed |-> l, done |-> n]

\* What a verdict, and the end of Close, make of it.
afterVerdict(r, f) == [r EXCEPT !.failed = f]
afterSupersede(r, p, j) == [r EXCEPT !.superseded = p, !.judged = j]
afterEnd(r, e) == [r EXCEPT !.ended = e]
afterClose(r, l) == [r EXCEPT !.closed = l]
afterStop(r, e, n) == [r EXCEPT !.ended = e, !.done = n]

-----------------------------------------------------------------------------
\* What a verdict makes of it.
LEMMA FaceOfVerdict ==
    ASSUME NEW f, NEW p, NEW j, NEW e, NEW l, NEW n, NEW x
    PROVE  afterVerdict(face(f, p, j, e, l, n), x) = face(x, p, j, e, l, n)
BY DEF afterVerdict, face

\* The same for a connection that is superseded; an EXCEPT of several fields is one
\* field after the other.
LEMMA FaceOfSupersede ==
    ASSUME NEW f, NEW p, NEW j, NEW e, NEW l, NEW n, NEW x, NEW y
    PROVE  afterSupersede(face(f, p, j, e, l, n), x, y) = face(f, x, y, e, l, n)
<1>1. [face(f, p, j, e, l, n) EXCEPT !.superseded = x, !.judged = y]
      = [[face(f, p, j, e, l, n) EXCEPT !.superseded = x] EXCEPT !.judged = y]
  BY DEF face
<1>2. [face(f, p, j, e, l, n) EXCEPT !.superseded = x] = face(f, x, j, e, l, n)
  BY DEF face
<1>3. [face(f, x, j, e, l, n) EXCEPT !.judged = y] = face(f, x, y, e, l, n)
  BY DEF face
<1> QED
  BY Zenon, <1>1, <1>2, <1>3 DEF afterSupersede

\* The same when Close has waited for the loops.
LEMMA FaceOfStop ==
    ASSUME NEW f, NEW p, NEW j, NEW e, NEW l, NEW n, NEW x, NEW y
    PROVE  afterStop(face(f, p, j, e, l, n), x, y) = face(f, p, j, x, l, y)
<1>1. [face(f, p, j, e, l, n) EXCEPT !.ended = x, !.done = y]
      = [[face(f, p, j, e, l, n) EXCEPT !.ended = x] EXCEPT !.done = y]
  BY DEF face
<1>2. [face(f, p, j, e, l, n) EXCEPT !.ended = x] = face(f, p, j, x, l, n)
  BY DEF face
<1>3. [face(f, p, j, x, l, n) EXCEPT !.done = y] = face(f, p, j, x, l, y)
  BY DEF face
<1> QED
  BY Zenon, <1>1, <1>2, <1>3 DEF afterStop

\* The same when a reader is released.
LEMMA FaceOfEnd ==
    ASSUME NEW f, NEW p, NEW j, NEW e, NEW l, NEW n, NEW x
    PROVE  afterEnd(face(f, p, j, e, l, n), x) = face(f, p, j, x, l, n)
BY DEF afterEnd, face

\* The same when Close is called.
LEMMA FaceOfClose ==
    ASSUME NEW f, NEW p, NEW j, NEW e, NEW l, NEW n, NEW x
    PROVE  afterClose(face(f, p, j, e, l, n), x) = face(f, p, j, e, x, n)
BY DEF afterClose, face
=============================================================================
