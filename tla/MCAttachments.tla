--------------------------- MODULE MCAttachments ---------------------------
(* Small instances of Attachments. *)
EXTENDS Attachments, TLC

CONSTANTS h1, h2, h3

Three == {h1, h2, h3}

Mix(a, b, c) == h1 :> a @@ h2 :> b @@ h3 :> c

\* The kinds that meet in one session, which is a WebSocket's or has one way
\* to receive and one way to send: rivals for a direction, the two directions
\* of one client, and a resume that overlaps them or another resume.
Mixes ==
    {Mix("ws", "ws", "resume"), Mix("ws", "resume", "resume"),
     Mix("poll", "poll", "resume"), Mix("poll", "sendStream", "resume"),
     Mix("sendStream", "sendStream", "resume"), Mix("poll", "batchUp", "resume"),
     Mix("batchDown", "batchDown", "resume"), Mix("batchDown", "batchUp", "resume"),
     Mix("batchDown", "sendStream", "resume"), Mix("batchUp", "batchUp", "resume")}
=============================================================================
