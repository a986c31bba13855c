------------------------- MODULE AttachmentsProofs -------------------------
(***************************************************************************)
(* Proofs about Attachments, for any number of handlers and any mix of     *)
(* kinds a session may see.                                                *)
(*                                                                         *)
(* The ring invariants (OneUser, NoOrphan, NoHoldAndWait, ResumeFlag,      *)
(* QuietResume) depend only on who claims, kicks, detaches and resumes, so *)
(* the steps of the handlers' own loops are first reduced to two kinds: a  *)
(* handler moves on among the places where it serves or begins to detach,  *)
(* or neither a place nor the ring changes.                                *)
(***************************************************************************)
EXTENDS Attachments, FiniteSetTheorems, TLAPS

Claiming == {"attach", "kick", "nudge", "wait"}
Waiting == {"kick", "nudge", "wait"}
ServePlaces == {"serve", "parked", "reading", "got", "writing", "pumps", "join"}
ResumePlaces == {"snapshot", "kickNext", "kick", "nudge", "wait", "rewind", "endResume"}
Places == Claiming \cup ServePlaces \cup ResumePlaces \cup {"detach", "close", "gone", "resume"}

\* The directions a kind of handler uses, as a set.
covered(k) ==
    CASE k \in {"poll", "batchDown"} -> {"down"}
      [] k \in {"sendStream", "batchUp"} -> {"up"}
      [] k = "ws" -> {"down", "up"}
      [] k = "resume" -> {}

\* A WebSocket that has claimed one of its directions.
Halfway(h) == kind[h] = "ws" /\ todo[h] = <<"up">>

\* Where a handler of a kind may be, and what it has left to do there.
Role(h) ==
    /\ kind[h] = "resume" => pc[h] \in ResumePlaces \cup {"resume", "gone"}
    /\ kind[h] # "resume" => pc[h] \in Claiming \cup ServePlaces \cup {"detach", "close", "gone"}
    /\ pc[h] \in Waiting => old[h] \in Handlers
    /\ kind[h] # "resume" /\ pc[h] \in Claiming => todo[h] = directions[kind[h]] \/ Halfway(h)
    /\ kind[h] = "resume" /\ pc[h] \in Waiting \cup {"kickNext"} => todo[h] \in Seq(Handlers)

Shape ==
    /\ kind \in Sessions
    /\ slot \in [Directions -> Handlers \cup {None}]
    /\ pc \in [Handlers -> Places]
    /\ todo \in [Handlers -> Seq(Directions \cup Handlers)]
    /\ old \in [Handlers -> Handlers \cup {None}]
    /\ \A h \in Handlers : Role(h)

\* A handler of the session goes on serving, or begins to detach.
Works(h) ==
    /\ pc[h] \in ServePlaces
    /\ \E l \in ServePlaces \cup {"detach"} : goto(h, l)
    /\ UNCHANGED <<kind, ring>>

Stays == UNCHANGED <<kind, ring, pc>>

-----------------------------------------------------------------------------
(* What the handlers' loops do to the ring: nothing.                       *)

\* A step is one of attach, detach or ResumeHandler, or leaves the ring alone.
LEMMA RingSteps ==
    ASSUME [Next]_vars
    PROVE  \/ \E h \in Handlers : AttachStep(h) \/ ResumeStep(h) \/ Works(h)
           \/ Stays
<1>1. ASSUME NEW h \in Handlers, PollStep(h) PROVE Works(h)
  <2>1. CASE PollStart(h) BY <2>1 DEF PollStart, Works, ServePlaces, goto
  <2>2. CASE PollInterrupted(h)
    BY Zenon, <2>2 DEF PollInterrupted, afterInterrupt, Works, ServePlaces, goto
  <2>3. CASE PollDue(h) BY <2>3 DEF PollDue, Works, ServePlaces, goto
  <2>4. CASE PollEOF(h) BY <2>4 DEF PollEOF, Works, ServePlaces, goto
  <2>5. CASE PollWritten(h) BY Zenon, <2>5 DEF PollWritten, Works, ServePlaces, goto
  <2>6. CASE WriteFails(h) BY <2>6 DEF WriteFails, Works, ServePlaces, goto
  <2>q. QED BY <1>1, <2>1, <2>2, <2>3, <2>4, <2>5, <2>6 DEF PollStep
<1>2. ASSUME NEW h \in Handlers, UploadStep(h) PROVE Works(h)
  <2>1. CASE SendStreamStart(h) BY <2>1 DEF SendStreamStart, Works, ServePlaces, goto
  <2>2. CASE FrameRead(h) BY <2>2 DEF FrameRead, Works, ServePlaces, goto
  <2>3. CASE ReadEnds(h) BY <2>3 DEF ReadEnds, Works, ServePlaces, goto
  <2>4. CASE SendStreamFrame(h) BY <2>4 DEF SendStreamFrame, Works, ServePlaces, goto
  <2>q. QED BY <1>2, <2>1, <2>2, <2>3, <2>4 DEF UploadStep
<1>3. ASSUME NEW h \in Handlers, BatchStep(h) PROVE Works(h) \/ Stays
  <2>1. CASE BatchUpStart(h) BY <2>1 DEF BatchUpStart, Works, ServePlaces, goto
  <2>2. CASE BatchUpApply(h) BY <2>2 DEF BatchUpApply, Works, ServePlaces, goto
  <2>3. CASE BatchDownStart(h) BY Zenon, <2>3 DEF BatchDownStart, Works, ServePlaces, goto
  <2>4. CASE BatchDownWoken(h) BY Zenon, <2>4 DEF BatchDownWoken, Works, ServePlaces, goto
  <2>5. CASE BatchDownReply(h) BY Zenon, <2>5 DEF BatchDownReply, Works, ServePlaces, goto
  <2>6. CASE BatchClientGone(h) BY <2>6 DEF BatchClientGone, Stays
  <2>7. CASE AfterFunc(h) BY <2>7 DEF AfterFunc, Stays
  <2>q. QED BY <1>3, <2>1, <2>2, <2>3, <2>4, <2>5, <2>6, <2>7 DEF BatchStep
<1>4. ASSUME NEW h \in Handlers, WsStep(h) PROVE Works(h) \/ Stays
  <2>1. CASE WsStart(h) BY <2>1 DEF WsStart, Works, ServePlaces, goto
  <2>2. CASE WsFrame(h) BY <2>2 DEF WsFrame, Stays
  <2>3. CASE WsReadEnds(h) BY <2>3 DEF WsReadEnds, Stays
  <2>4. CASE WsInterrupted(h) BY <2>4 DEF WsInterrupted, Stays
  <2>5. CASE WsDue(h) BY <2>5 DEF WsDue, Stays
  <2>6. CASE WsWritten(h) BY <2>6 DEF WsWritten, Stays
  <2>7. CASE WsWriteEnds(h) BY <2>7 DEF WsWriteEnds, Stays
  <2>8. CASE WsCancel(h) BY <2>8 DEF WsCancel, Works, ServePlaces, goto
  <2>9. CASE WsJoin(h) BY <2>9 DEF WsJoin, Works, ServePlaces, goto
  <2>q. QED BY <1>4, <2>1, <2>2, <2>3, <2>4, <2>5, <2>6, <2>7, <2>8, <2>9 DEF WsStep
<1>5. CASE UNCHANGED vars BY <1>5 DEF vars, ring, Stays
<1>q. QED BY <1>1, <1>2, <1>3, <1>4, <1>5 DEF Next

-----------------------------------------------------------------------------
(* Shape.                                                                  *)

\* What attach claims for each kind.
LEMMA DirectionsOf ==
    /\ \A k \in Kinds : directions[k] \in Seq(Directions)
    /\ \A k \in {"poll", "batchDown"} : directions[k] = <<"down">>
    /\ \A k \in {"sendStream", "batchUp"} : directions[k] = <<"up">>
    /\ directions["ws"] = <<"down", "up">>
    /\ directions["resume"] = <<>>
<1>1. \A k \in {"poll", "batchDown"} : directions[k] = <<"down">> BY DEF directions, Kinds
<1>2. \A k \in {"sendStream", "batchUp"} : directions[k] = <<"up">> BY DEF directions, Kinds
<1>3. directions["ws"] = <<"down", "up">> BY DEF directions, Kinds
<1>4. directions["resume"] = <<>> BY DEF directions, Kinds
<1>5. ASSUME NEW k \in Kinds PROVE directions[k] \in Seq(Directions)
  <2>1. <<"down">> \in Seq(Directions) /\ <<"up">> \in Seq(Directions)
        /\ <<"down", "up">> \in Seq(Directions) /\ <<>> \in Seq(Directions)
    BY DEF Directions
  <2>q. QED BY Zenon, <1>1, <1>2, <1>3, <1>4, <2>1 DEF Kinds
<1>q. QED BY <1>1, <1>2, <1>3, <1>4, <1>5

\* Init gives every handler its role.
LEMMA InitShape == Init => Shape
<1> SUFFICES ASSUME Init PROVE Shape OBVIOUS
<1>0. kind \in Sessions /\ kind \in [Handlers -> Kinds] BY SessionsAssumption DEF Init
<1>1. slot \in [Directions -> Handlers \cup {None}] BY DEF Init
<1>2. pc \in [Handlers -> Places] BY DEF Init, Places, Claiming
<1>3. todo \in [Handlers -> Seq(Directions \cup Handlers)]
  <2> SUFFICES ASSUME NEW h \in Handlers PROVE directions[kind[h]] \in Seq(Directions \cup Handlers)
    BY DEF Init
  <2>1. directions[kind[h]] \in Seq(Directions) BY <1>0, DirectionsOf
  <2>q. QED BY <2>1
<1>4. old \in [Handlers -> Handlers \cup {None}] BY DEF Init
<1>5. \A h \in Handlers : Role(h)
  BY <1>0 DEF Init, Role, ResumePlaces, Claiming, Waiting
<1>q. QED BY <1>0, <1>1, <1>2, <1>3, <1>4, <1>5 DEF Shape

\* The kinds and the directions of a session's handlers.
LEMMA KindOf ==
    ASSUME Shape, NEW h \in Handlers
    PROVE  /\ kind[h] \in Kinds
           /\ directions[kind[h]] \in Seq(Directions)
           /\ pc[h] \in Claiming /\ kind[h] # "resume" =>
                /\ Head(todo[h]) \in Directions
                /\ Tail(todo[h]) \in Seq(Directions)
                /\ Len(todo[h]) # 1 => /\ kind[h] = "ws" /\ todo[h] = <<"down", "up">>
                                       /\ Tail(todo[h]) = <<"up">>
<1>1. kind[h] \in Kinds BY SessionsAssumption DEF Shape
<1>2. directions[kind[h]] \in Seq(Directions) BY <1>1, DirectionsOf
<1>3. ASSUME pc[h] \in Claiming, kind[h] # "resume"
      PROVE  todo[h] = <<"down">> \/ todo[h] = <<"up">>
             \/ (kind[h] = "ws" /\ todo[h] = <<"down", "up">>)
  BY <1>1, <1>3, DirectionsOf DEF Shape, Role, Halfway, Kinds
<1>4. /\ Head(<<"down">>) = "down" /\ Tail(<<"down">>) = <<>> /\ Len(<<"down">>) = 1
      /\ Head(<<"up">>) = "up" /\ Tail(<<"up">>) = <<>> /\ Len(<<"up">>) = 1
      /\ Head(<<"down", "up">>) = "down" /\ Tail(<<"down", "up">>) = <<"up">>
  OBVIOUS
<1>5. <<>> \in Seq(Directions) /\ <<"up">> \in Seq(Directions) BY DEF Directions
<1>6. "down" \in Directions /\ "up" \in Directions BY DEF Directions
<1>q. QED BY Zenon, <1>1, <1>2, <1>3, <1>4, <1>5, <1>6

\* Every step keeps the roles.
LEMMA NextShape == Shape /\ [Next]_vars => Shape'
<1> SUFFICES ASSUME Shape, [Next]_vars PROVE Shape' OBVIOUS
<1>t. \A h \in Handlers : todo[h] \in Seq(Directions \cup Handlers) BY DEF Shape
<1>k. kind \in [Handlers -> Kinds] BY SessionsAssumption DEF Shape
<1>1. ASSUME NEW h \in Handlers, AttachStep(h) PROVE Shape'
  <2>1. CASE AttachRefused(h)
    BY Zenon, <2>1, <1>k DEF AttachRefused, goto, ring, Shape, Role, Halfway, Places, Claiming,
      Waiting, ServePlaces, ResumePlaces
  <2>2. CASE AttachClaim(h)
    <3>0. kind[h] # "resume" BY Zenon, <2>2 DEF AttachClaim, Shape, Role, ResumePlaces, Waiting
    <3>1. /\ Head(todo[h]) \in Directions
          /\ Tail(todo[h]) \in Seq(Directions)
          /\ Len(todo[h]) # 1 => kind[h] = "ws" /\ todo[h] = <<"down", "up">>
      BY <2>2, <3>0, KindOf DEF AttachClaim, Claiming
    <3>2. Tail(todo[h]) \in Seq(Directions \cup Handlers) BY <3>1
    <3>3. Len(todo[h]) # 1 => Tail(todo[h]) = <<"up">>
      BY <2>2, <3>0, KindOf DEF AttachClaim, Claiming
    <3>4. slot' \in [Directions -> Handlers \cup {None}] BY Zenon, <2>2 DEF AttachClaim, Shape
    <3>5. todo' \in [Handlers -> Seq(Directions \cup Handlers)]
      BY <2>2, <3>2 DEF AttachClaim, Shape
    <3>6. pc' \in [Handlers -> Places]
      BY <2>2 DEF AttachClaim, goto, Shape, Places, Claiming, ServePlaces
    <3>7. ASSUME NEW g \in Handlers PROVE Role(g)'
      <4>1. CASE g # h
        <5>1. pc'[g] = pc[g] /\ todo'[g] = todo[g] /\ UNCHANGED <<kind, old>>
          BY <2>2, <4>1 DEF AttachClaim, goto, Shape
        <5>q. QED BY <5>1 DEF Shape, Role, Halfway
      <4>2. CASE g = h
        <5>1. /\ pc'[h] = IF Len(todo[h]) = 1 THEN "serve" ELSE "attach"
              /\ todo'[h] = Tail(todo[h])
              /\ UNCHANGED <<kind, old>>
          BY <2>2 DEF AttachClaim, goto, Shape
        <5>q. QED BY <4>2, <5>1, <3>0, <3>1, <3>3 DEF Role, Halfway, Claiming, Waiting, ServePlaces
      <4>q. QED BY <4>1, <4>2
    <3>q. QED BY <2>2, <3>4, <3>5, <3>6, <3>7 DEF AttachClaim, Shape
  <2>3. CASE AttachTaken(h)
    <3>0. kind[h] # "resume" BY Zenon, <2>3 DEF AttachTaken, Shape, Role, ResumePlaces, Waiting
    <3>1. Head(todo[h]) \in Directions BY <2>3, <3>0, KindOf DEF AttachTaken, Claiming
    <3>2. slot[Head(todo[h])] \in Handlers BY <2>3, <3>1 DEF AttachTaken, Shape
    <3>3. old' \in [Handlers -> Handlers \cup {None}] BY <2>3, <3>2 DEF AttachTaken, Shape
    <3>4. pc' \in [Handlers -> Places] BY <2>3 DEF AttachTaken, goto, Shape, Places, Claiming
    <3>5. ASSUME NEW g \in Handlers PROVE Role(g)'
      BY <2>3, <3>0, <3>2 DEF AttachTaken, goto, Shape, Role, Halfway, Claiming, Waiting
    <3>q. QED BY <2>3, <3>3, <3>4, <3>5 DEF AttachTaken, Shape
  <2>4. CASE Kick(h)
    BY <2>4 DEF Kick, goto, ring, Shape, Role, Halfway, Places, Claiming, Waiting,
      ServePlaces, ResumePlaces
  <2>5. CASE Nudge(h)
    BY <2>5 DEF Nudge, goto, ring, Shape, Role, Halfway, Places, Claiming, Waiting,
      ServePlaces, ResumePlaces
  <2>6. CASE KickDone(h)
    BY <2>6 DEF KickDone, goto, ring, Shape, Role, Halfway, Places, Claiming, Waiting,
      ServePlaces, ResumePlaces
  <2>7. CASE KickTimeout(h)
    BY <2>7 DEF KickTimeout, goto, ring, Shape, Role, Halfway, Places, Claiming, Waiting,
      ServePlaces, ResumePlaces
  <2>8. CASE Detach(h)
    <3>1. slot' \in [Directions -> Handlers \cup {None}] BY <2>8 DEF Detach, Shape
    <3>q. QED
      BY <2>8, <3>1 DEF Detach, goto, Shape, Role, Halfway, Places, Claiming, Waiting,
        ServePlaces, ResumePlaces
  <2>9. CASE CloseDone(h)
    BY <2>9 DEF CloseDone, goto, Shape, Role, Halfway, Places, Claiming, Waiting,
      ServePlaces, ResumePlaces
  <2>q. QED BY <1>1, <2>1, <2>2, <2>3, <2>4, <2>5, <2>6, <2>7, <2>8, <2>9 DEF AttachStep
<1>2. ASSUME NEW h \in Handlers, ResumeStep(h) PROVE Shape'
  <2>1. CASE BeginResume(h)
    BY <2>1 DEF BeginResume, goto, Shape, Role, Halfway, Places, Claiming, Waiting,
      ServePlaces, ResumePlaces
  <2>2. CASE KickAllSnapshot(h)
    <3>0. kind[h] = "resume"
      BY Zenon, <2>2 DEF KickAllSnapshot, Shape, Role, Claiming, ServePlaces
    <3>1. ASSUME NEW d \in Directions PROVE owner(d) \in Seq(Handlers) BY DEF owner, Shape
    <3>2. owner("down") \o owner("up") \in Seq(Handlers) BY <3>1 DEF Directions
    <3>3. owner("down") \o owner("up") \in Seq(Directions \cup Handlers) BY <3>2
    <3> HIDE DEF owner
    <3>4. todo' \in [Handlers -> Seq(Directions \cup Handlers)]
      BY <2>2, <3>3 DEF KickAllSnapshot, Shape
    <3>5. pc' \in [Handlers -> Places] BY <2>2 DEF KickAllSnapshot, goto, Shape, Places, ResumePlaces
    <3>6. ASSUME NEW g \in Handlers PROVE Role(g)'
      BY <2>2, <3>0, <3>2 DEF KickAllSnapshot, goto, Shape, Role, Halfway, ResumePlaces, Waiting
    <3>q. QED BY <2>2, <3>4, <3>5, <3>6 DEF KickAllSnapshot, Shape
  <2>3. CASE KickAllNext(h)
    <3>0. kind[h] = "resume" /\ todo[h] \in Seq(Handlers)
      BY Zenon, <2>3 DEF KickAllNext, Shape, Role, Claiming, ServePlaces
    <3>1. CASE todo[h] = <<>>
      BY Zenon, <2>3, <3>1, <3>0 DEF KickAllNext, goto, Shape, Role, Halfway, Places, ResumePlaces,
        Waiting
    <3>2. CASE todo[h] # <<>>
      <4>1. Head(todo[h]) \in Handlers /\ Tail(todo[h]) \in Seq(Handlers) BY <3>0, <3>2
      <4>2. Tail(todo[h]) \in Seq(Directions \cup Handlers) BY <4>1
      <4>3. todo' \in [Handlers -> Seq(Directions \cup Handlers)]
        BY Zenon, <2>3, <3>2, <4>2 DEF KickAllNext, Shape
      <4>4. old' \in [Handlers -> Handlers \cup {None}]
        BY Zenon, <2>3, <3>2, <4>1 DEF KickAllNext, Shape
      <4>5. pc' \in [Handlers -> Places]
        <5>1. pc' = [pc EXCEPT ![h] = "kick"] BY Zenon, <2>3, <3>2 DEF KickAllNext, goto
        <5>2. "kick" \in Places BY Zenon DEF Places, ResumePlaces
        <5>q. QED BY Zenon, <5>1, <5>2 DEF Shape
      <4>6. ASSUME NEW g \in Handlers PROVE Role(g)'
        <5>1. CASE g # h
          <6>1. pc'[g] = pc[g] /\ todo'[g] = todo[g] /\ old'[g] = old[g] /\ UNCHANGED kind
            BY <2>3, <3>2, <5>1 DEF KickAllNext, goto, Shape
          <6>q. QED BY Zenon, <6>1 DEF Shape, Role, Halfway
        <5>2. CASE g = h
          <6>1. /\ pc'[h] = "kick" /\ todo'[h] = Tail(todo[h]) /\ old'[h] = Head(todo[h])
                /\ UNCHANGED kind
            BY <2>3, <3>2 DEF KickAllNext, goto, Shape
          <6>q. QED BY <5>2, <6>1, <3>0, <4>1 DEF Role, ResumePlaces, Waiting
        <5>q. QED BY <5>1, <5>2
      <4>q. QED BY <2>3, <4>3, <4>4, <4>5, <4>6 DEF KickAllNext, Shape
    <3>q. QED BY <3>1, <3>2
  <2>4. CASE Rewind(h)
    BY <2>4 DEF Rewind, goto, ring, Shape, Role, Halfway, Places, Claiming, Waiting,
      ServePlaces, ResumePlaces
  <2>5. CASE EndResume(h)
    BY <2>5 DEF EndResume, goto, Shape, Role, Halfway, Places, Claiming, Waiting,
      ServePlaces, ResumePlaces
  <2>q. QED BY <1>2, <2>1, <2>2, <2>3, <2>4, <2>5 DEF ResumeStep
<1>3. ASSUME NEW h \in Handlers, Works(h) PROVE Shape'
  BY <1>3 DEF Works, goto, ring, Shape, Role, Halfway, Places, Claiming, Waiting,
    ServePlaces, ResumePlaces
<1>4. CASE Stays BY <1>4 DEF Stays, ring, Shape, Role, Halfway
<1>q. QED BY Zenon, RingSteps, <1>1, <1>2, <1>3, <1>4

-----------------------------------------------------------------------------
(* Ownership: who is in a slot, and what a handler that serves is in.      *)

\* A handler that serves has all its directions; a WebSocket half way through
\* attach has the first.
Holds(h) ==
    /\ pc[h] \in ServePlaces => \A d \in covered(kind[h]) : slot[d] = h
    /\ pc[h] \in Claiming /\ Halfway(h) => slot["down"] = h

\* Whoever is in a slot uses that direction, and has yet to run detach; a
\* WebSocket claims down before up and gives up both at once.
InSlot(d, h) ==
    slot[d] = h =>
        /\ d \in covered(kind[h])
        /\ \/ pc[h] \in ServePlaces \cup {"detach"}
           \/ pc[h] \in Claiming /\ Halfway(h) /\ d = "down"
        /\ kind[h] = "ws" => slot["down"] = h

Owned ==
    /\ \A h \in Handlers : Holds(h)
    /\ \A h \in Handlers, d \in Directions : InSlot(d, h)

\* What each kind covers.
LEMMA CoveredIs ==
    /\ \A k \in {"poll", "batchDown"} : covered(k) = {"down"}
    /\ \A k \in {"sendStream", "batchUp"} : covered(k) = {"up"}
    /\ covered("ws") = {"down", "up"}
    /\ covered("resume") = {}
BY DEF covered

\* At first nobody owns anything.
LEMMA InitOwned == Init => Owned
<1> SUFFICES ASSUME Init PROVE Owned OBVIOUS
<1>1. kind \in [Handlers -> Kinds] BY SessionsAssumption DEF Init
<1>2. ASSUME NEW h \in Handlers PROVE Holds(h)
  <2>1. pc[h] \notin ServePlaces BY <1>1 DEF Init, ServePlaces
  <2>2. ~ Halfway(h)
    <3>1. todo[h] = directions[kind[h]] BY DEF Init
    <3>2. <<"down", "up">> # <<"up">> OBVIOUS
    <3>q. QED BY <3>1, <3>2, DirectionsOf DEF Halfway
  <2>q. QED BY <2>1, <2>2 DEF Holds
<1>3. ASSUME NEW h \in Handlers, NEW d \in Directions PROVE InSlot(d, h)
  BY NoneAssumption DEF Init, InSlot
<1>q. QED BY <1>2, <1>3 DEF Owned

\* No handler that owns something waits for an owner.
NotWaiting == \A h \in Handlers : pc[h] \in Waiting => ~ Halfway(h)

\* A WebSocket that has claimed down finds up free: in its session only
\* WebSockets own directions, and nobody else can have claimed down.
LEMMA UpIsFree ==
    ASSUME Shape, Owned, NEW h \in Handlers, pc[h] \in Claiming, Halfway(h)
    PROVE  slot["up"] = None
<1> SUFFICES ASSUME slot["up"] # None PROVE FALSE OBVIOUS
<1>0. "up" \in Directions /\ "down" \in Directions BY DEF Directions
<1>1. PICK g \in Handlers : slot["up"] = g BY <1>0 DEF Shape
<1>2. InSlot("up", g) /\ Holds(h) BY <1>0 DEF Owned
<1>3. slot["down"] = h BY <1>2 DEF Holds
<1>4. kind[g] \in {"ws", "resume"} BY TransportAssumption DEF Shape, Halfway
<1>5. kind[g] # "resume" BY <1>1, <1>2, CoveredIs DEF InSlot
<1>6. slot["down"] = g BY <1>1, <1>2, <1>4, <1>5 DEF InSlot
<1>7. g = h BY <1>3, <1>6
<1>8. pc[h] \notin ServePlaces \cup {"detach"} BY DEF Claiming, ServePlaces
<1>q. QED BY <1>1, <1>2, <1>7, <1>8 DEF InSlot

\* What attach is about to claim.
LEMMA NextClaim ==
    ASSUME Shape, NEW h \in Handlers, pc[h] = "attach"
    PROVE  /\ kind[h] # "resume"
           /\ Head(todo[h]) \in Directions
           /\ Head(todo[h]) \in covered(kind[h])
           /\ \/ Len(todo[h]) = 1 /\ covered(kind[h]) = {Head(todo[h])} /\ kind[h] # "ws"
              \/ Len(todo[h]) = 1 /\ Halfway(h) /\ Head(todo[h]) = "up"
              \/ /\ Len(todo[h]) = 2 /\ kind[h] = "ws" /\ ~ Halfway(h)
                 /\ Head(todo[h]) = "down" /\ Tail(todo[h]) = <<"up">>
<1>1. kind[h] \in Kinds BY SessionsAssumption DEF Shape
<1>2. kind[h] # "resume" BY DEF Shape, Role, ResumePlaces, Waiting
<1>3. todo[h] = directions[kind[h]] \/ Halfway(h) BY <1>2 DEF Shape, Role, Claiming
<1>4. /\ Head(<<"down">>) = "down" /\ Len(<<"down">>) = 1
      /\ Head(<<"up">>) = "up" /\ Len(<<"up">>) = 1
      /\ Head(<<"down", "up">>) = "down" /\ Tail(<<"down", "up">>) = <<"up">>
      /\ Len(<<"down", "up">>) = 2 /\ <<"down", "up">> # <<"up">>
  OBVIOUS
<1>5. "down" \in Directions /\ "up" \in Directions BY DEF Directions
<1>6. CASE Halfway(h)
  <2>1. kind[h] = "ws" /\ todo[h] = <<"up">> BY <1>6 DEF Halfway
  <2>q. QED BY Zenon, <1>2, <1>4, <1>5, <1>6, <2>1, CoveredIs
<1>7. CASE kind[h] \in {"poll", "batchDown"} /\ todo[h] = directions[kind[h]]
  <2>1. todo[h] = <<"down">> /\ covered(kind[h]) = {"down"} BY <1>7, DirectionsOf, CoveredIs
  <2>2. kind[h] # "ws" BY <1>7
  <2>q. QED BY Zenon, <1>2, <1>4, <1>5, <2>1, <2>2
<1>8. CASE kind[h] \in {"sendStream", "batchUp"} /\ todo[h] = directions[kind[h]]
  <2>1. todo[h] = <<"up">> /\ covered(kind[h]) = {"up"} BY <1>8, DirectionsOf, CoveredIs
  <2>2. kind[h] # "ws" BY <1>8
  <2>q. QED BY Zenon, <1>2, <1>4, <1>5, <2>1, <2>2
<1>9. CASE kind[h] = "ws" /\ todo[h] = directions[kind[h]]
  <2>1. todo[h] = <<"down", "up">> BY <1>9, DirectionsOf
  <2>2. covered(kind[h]) = {"down", "up"} BY <1>9, CoveredIs
  <2>3. ~ Halfway(h) BY <1>4, <2>1 DEF Halfway
  <2>q. QED BY Zenon, <1>2, <1>4, <1>5, <1>9, <2>1, <2>2, <2>3
<1>q. QED BY <1>1, <1>2, <1>3, <1>6, <1>7, <1>8, <1>9 DEF Kinds

\* attach claims the next direction.
LEMMA ClaimOwned ==
    ASSUME Shape, Owned, NEW h \in Handlers, AttachClaim(h)
    PROVE  Owned'
<1> DEFINE D == Head(todo[h])
<1>0. pc[h] = "attach" BY DEF AttachClaim
<1>1. D \in Directions /\ D \in covered(kind[h]) BY <1>0, NextClaim
<1>2. slot[D] = None /\ slot'[D] = h /\ (\A d \in Directions \ {D} : slot'[d] = slot[d])
  BY <1>1 DEF AttachClaim, Shape
<1>3. kind' = kind BY DEF AttachClaim
<1>4. /\ \A g \in Handlers \ {h} : pc'[g] = pc[g] /\ todo'[g] = todo[g]
      /\ pc'[h] = IF Len(todo[h]) = 1 THEN "serve" ELSE "attach"
      /\ todo'[h] = Tail(todo[h])
  BY DEF AttachClaim, goto, Shape
<1>5. ASSUME NEW d \in Directions, NEW g \in Handlers, slot[d] = g PROVE slot'[d] = g
  BY <1>2, <1>5, NoneAssumption
<1>6. "down" \in Directions /\ "up" \in Directions BY DEF Directions
<1>7. \A k \in Kinds : covered(k) \subseteq Directions BY CoveredIs DEF Kinds, Directions
<1>8. \A g \in Handlers : kind[g] \in Kinds BY SessionsAssumption DEF Shape
<1>9. Holds(h)'
  <2>1. CASE Len(todo[h]) = 1 /\ covered(kind[h]) = {D}
    <3>1. pc'[h] = "serve" BY <2>1, <1>4
    <3>q. QED BY <2>1, <3>1, <1>2, <1>3 DEF Holds, Claiming
  <2>2. CASE Len(todo[h]) = 1 /\ Halfway(h) /\ D = "up"
    <3>1. pc'[h] = "serve" BY <2>2, <1>4
    <3>2. slot["down"] = h BY <2>2, <1>0 DEF Owned, Holds, Claiming
    <3>3. slot'["down"] = h BY <3>2, <1>5, <1>6
    <3>4. covered(kind[h]) = {"down", "up"} BY <2>2, CoveredIs DEF Halfway
    <3>q. QED BY <2>2, <3>1, <3>3, <3>4, <1>2, <1>3 DEF Holds, Claiming
  <2>3. CASE Len(todo[h]) = 2 /\ D = "down"
    <3>1. pc'[h] = "attach" BY <2>3, <1>4
    <3>q. QED BY <2>3, <3>1, <1>2 DEF Holds, ServePlaces
  <2>q. QED BY <2>1, <2>2, <2>3, <1>0, NextClaim
<1>10. ASSUME NEW g \in Handlers, g # h PROVE Holds(g)'
  <2>1. pc'[g] = pc[g] /\ (Halfway(g)' <=> Halfway(g)) BY <1>3, <1>4, <1>10 DEF Halfway
  <2>2. Holds(g) BY DEF Owned
  <2>q. QED BY <2>1, <2>2, <1>3, <1>5, <1>6, <1>7, <1>8 DEF Holds
<1>11. ASSUME NEW g \in Handlers, NEW d \in Directions PROVE InSlot(d, g)'
  <2>1. CASE g # h
    <3>1. pc'[g] = pc[g] /\ (Halfway(g)' <=> Halfway(g)) BY <1>3, <1>4, <2>1 DEF Halfway
    <3>2. InSlot(d, g) BY DEF Owned
    <3>3. slot'[d] = g => slot[d] = g BY <1>2, <2>1
    <3>q. QED BY <3>1, <3>2, <3>3, <1>3, <1>5, <1>6 DEF InSlot
  <2>2. CASE g = h
    <3>1. ASSUME slot'[d] = h PROVE d = D \/ slot[d] = h BY <3>1, <1>2
    <3>2. InSlot(d, h) BY DEF Owned
    <3>3. slot'[d] = h => d \in covered(kind[h]) BY <1>1, <3>1, <3>2 DEF InSlot
    <3>4. kind[h] = "ws" => slot'["down"] = h
      <4>1. kind[h] = "ws" => D = "down" \/ Halfway(h) BY <1>0, NextClaim
      <4>2. Halfway(h) => slot["down"] = h BY <1>0 DEF Owned, Holds, Claiming
      <4>q. QED BY <4>1, <4>2, <1>2, <1>5, <1>6
    <3>5. slot'[d] = h => \/ pc'[h] \in ServePlaces \cup {"detach"}
                          \/ pc'[h] \in Claiming /\ Halfway(h)' /\ d = "down"
      <4>1. CASE Len(todo[h]) = 1 BY <4>1, <1>4 DEF ServePlaces
      <4>2. CASE Len(todo[h]) # 1
        <5>1. kind[h] = "ws" /\ ~ Halfway(h) /\ D = "down" /\ Tail(todo[h]) = <<"up">>
          BY <4>2, <1>0, NextClaim
        <5>2. slot[d] # h BY <3>2, <5>1, <1>0 DEF InSlot, ServePlaces
        <5>3. slot'[d] = h => d = "down" BY <3>1, <5>1, <5>2
        <5>4. Halfway(h)' BY <1>3, <1>4, <5>1 DEF Halfway
        <5>q. QED BY <4>2, <5>3, <5>4, <1>4 DEF Claiming
      <4>q. QED BY <4>1, <4>2
    <3>q. QED BY <2>2, <3>3, <3>4, <3>5, <1>3 DEF InSlot
  <2>q. QED BY <2>1, <2>2
<1>q. QED BY <1>9, <1>10, <1>11 DEF Owned

\* detach gives up what the handler has, and nothing else.
LEMMA DetachOwned ==
    ASSUME Shape, Owned, NEW h \in Handlers, Detach(h)
    PROVE  Owned'
<1>1. \A d \in Directions : slot'[d] = IF slot[d] = h THEN None ELSE slot[d] BY DEF Detach
<1>2. kind' = kind /\ todo' = todo BY DEF Detach
<1>3. pc'[h] = "close" /\ \A g \in Handlers \ {h} : pc'[g] = pc[g]
  BY DEF Detach, goto, Shape
<1>4. \A k \in Kinds : covered(k) \subseteq Directions BY CoveredIs DEF Kinds, Directions
<1>5. \A g \in Handlers : kind[g] \in Kinds BY SessionsAssumption DEF Shape
<1>6. "down" \in Directions /\ "up" \in Directions BY DEF Directions
<1>7. ASSUME NEW g \in Handlers PROVE Holds(g)'
  <2>1. CASE g = h BY <2>1, <1>3 DEF Holds, ServePlaces, Claiming
  <2>2. CASE g # h
    <3>1. Holds(g) BY DEF Owned
    <3>2. pc'[g] = pc[g] /\ (Halfway(g)' <=> Halfway(g)) BY <1>2, <1>3, <2>2 DEF Halfway
    <3>q. QED BY <2>2, <3>1, <3>2, <1>1, <1>2, <1>4, <1>5, <1>6 DEF Holds
  <2>q. QED BY <2>1, <2>2
<1>8. ASSUME NEW g \in Handlers, NEW d \in Directions PROVE InSlot(d, g)'
  <2>1. CASE g = h BY <2>1, <1>1, NoneAssumption DEF InSlot
  <2>2. CASE g # h
    <3>1. InSlot(d, g) BY DEF Owned
    <3>2. pc'[g] = pc[g] /\ (Halfway(g)' <=> Halfway(g)) BY <1>2, <1>3, <2>2 DEF Halfway
    <3>q. QED BY <2>2, <3>1, <3>2, <1>1, <1>2, <1>6, NoneAssumption DEF InSlot
  <2>q. QED BY <2>1, <2>2
<1>q. QED BY <1>7, <1>8 DEF Owned

\* The other steps move one handler: a resume handshake anywhere, another
\* handler among the places where it claims, or serves, or on to detach.
Moves(h) ==
    /\ UNCHANGED <<kind, slot>>
    /\ \A g \in Handlers \ {h} : pc'[g] = pc[g] /\ todo'[g] = todo[g]
    /\ \/ kind[h] = "resume"
       \/ /\ todo'[h] = todo[h]
          /\ \/ pc[h] \in Claiming /\ pc'[h] \in Claiming
             \/ pc[h] \in Claiming \cup ServePlaces /\ pc'[h] = "detach"
             \/ pc[h] \in ServePlaces /\ pc'[h] \in ServePlaces
             \/ pc[h] = "close" /\ pc'[h] = "gone"

\* Such a move leaves the ownership as it is.
LEMMA MovesOwned ==
    ASSUME Owned, NEW h \in Handlers, Moves(h)
    PROVE  Owned'
<1>1. kind' = kind /\ slot' = slot BY DEF Moves
<1>2. ASSUME NEW g \in Handlers PROVE Holds(g)'
  <2>1. Holds(g) BY DEF Owned
  <2>2. CASE kind[g] = "resume" BY <2>2, <1>1, CoveredIs DEF Holds, Halfway
  <2>3. CASE kind[g] # "resume"
    <3>1. Halfway(g)' <=> Halfway(g) BY <2>3 DEF Moves, Halfway
    <3>q. QED BY <2>1, <2>3, <3>1, <1>1 DEF Holds, Moves, Claiming, ServePlaces
  <2>q. QED BY <2>2, <2>3
<1>3. ASSUME NEW g \in Handlers, NEW d \in Directions PROVE InSlot(d, g)'
  <2>1. InSlot(d, g) BY DEF Owned
  <2>2. CASE kind[g] = "resume" BY <2>1, <2>2, <1>1, CoveredIs DEF InSlot
  <2>3. CASE kind[g] # "resume"
    <3>1. Halfway(g)' <=> Halfway(g) BY <2>3 DEF Moves, Halfway
    <3>q. QED BY <2>1, <2>3, <3>1, <1>1 DEF InSlot, Moves, Claiming, ServePlaces
  <2>q. QED BY <2>2, <2>3
<1>q. QED BY <1>2, <1>3 DEF Owned

\* Every step but a claim and a detach is such a move.
LEMMA OtherMoves ==
    ASSUME Shape, NEW h \in Handlers,
           \/ AttachStep(h) /\ ~ AttachClaim(h) /\ ~ Detach(h)
           \/ ResumeStep(h)
           \/ Works(h)
    PROVE  Moves(h)
<1>1. CASE AttachRefused(h)
  BY Zenon, <1>1 DEF AttachRefused, goto, ring, Shape, Moves, Claiming
<1>2. CASE AttachTaken(h)
  BY <1>2 DEF AttachTaken, goto, ring, Shape, Moves, Claiming
<1>3. CASE Kick(h) BY <1>3 DEF Kick, goto, ring, Shape, Moves, Claiming
<1>4. CASE Nudge(h) BY <1>4 DEF Nudge, goto, ring, Shape, Moves, Claiming
<1>5. CASE KickDone(h) BY <1>5 DEF KickDone, goto, ring, Shape, Moves, Claiming
<1>6. CASE KickTimeout(h) BY <1>6 DEF KickTimeout, goto, ring, Shape, Moves, Claiming
<1>7. CASE CloseDone(h) BY <1>7 DEF CloseDone, goto, ring, Shape, Moves
<1>8. CASE ResumeStep(h)
  <2>1. kind[h] = "resume"
    BY Zenon, <1>8 DEF ResumeStep, BeginResume, KickAllSnapshot, KickAllNext, Rewind, EndResume,
      Shape, Role, Claiming, ServePlaces
  <2>2. CASE BeginResume(h) BY Zenon, <2>1, <2>2 DEF BeginResume, goto, Shape, Moves
  <2>3. CASE KickAllSnapshot(h) BY <2>1, <2>3 DEF KickAllSnapshot, goto, Shape, Moves
  <2>4. CASE KickAllNext(h) BY <2>1, <2>4 DEF KickAllNext, goto, Shape, Moves
  <2>5. CASE Rewind(h) BY <2>1, <2>5 DEF Rewind, ring, goto, Shape, Moves
  <2>6. CASE EndResume(h) BY <2>1, <2>6 DEF EndResume, goto, Shape, Moves
  <2>q. QED BY <1>8, <2>2, <2>3, <2>4, <2>5, <2>6 DEF ResumeStep
<1>9. CASE Works(h) BY <1>9 DEF Works, goto, ring, Shape, Moves
<1>q. QED BY <1>1, <1>2, <1>3, <1>4, <1>5, <1>6, <1>7, <1>8, <1>9 DEF AttachStep

\* Every step keeps the ownership.
LEMMA NextOwned == Shape /\ Owned /\ [Next]_vars => Owned'
<1> SUFFICES ASSUME Shape, Owned, [Next]_vars PROVE Owned' OBVIOUS
<1>1. CASE Stays
  BY <1>1 DEF Stays, ring, Owned, Holds, InSlot, Halfway
<1>2. ASSUME NEW h \in Handlers, AttachStep(h) \/ ResumeStep(h) \/ Works(h) PROVE Owned'
  BY Zenon, <1>2, ClaimOwned, DetachOwned, MovesOwned, OtherMoves
<1>q. QED BY Zenon, <1>1, <1>2, RingSteps

\* A handler that finds a direction taken has none itself.
LEMMA NextNotWaiting == Shape /\ Owned /\ NotWaiting /\ [Next]_vars => NotWaiting'
<1> SUFFICES ASSUME Shape, Owned, NotWaiting, [Next]_vars PROVE NotWaiting' OBVIOUS
<1>1. CASE Stays BY <1>1 DEF Stays, ring, NotWaiting, Halfway
<1>2. ASSUME NEW h \in Handlers, AttachStep(h) \/ ResumeStep(h) \/ Works(h) PROVE NotWaiting'
  <2>1. CASE AttachTaken(h)
    <3>1. ~ Halfway(h)
      <4> SUFFICES ASSUME Halfway(h) PROVE FALSE OBVIOUS
      <4>1. pc[h] = "attach" /\ slot[Head(todo[h])] # None BY <2>1 DEF AttachTaken
      <4>2. slot["up"] = None BY <4>1, UpIsFree DEF Claiming
      <4>3. Head(todo[h]) = "up" BY DEF Halfway
      <4>q. QED BY <4>1, <4>2, <4>3
    <3>q. QED BY <2>1, <3>1 DEF AttachTaken, goto, Shape, NotWaiting, Halfway, Waiting
  <2>2. CASE AttachClaim(h)
    BY <2>2 DEF AttachClaim, goto, Shape, NotWaiting, Halfway, Waiting
  <2>3. CASE Detach(h) BY <2>3 DEF Detach, goto, Shape, NotWaiting, Halfway, Waiting
  <2>4. CASE AttachRefused(h)
    BY Zenon, <2>4 DEF AttachRefused, ring, goto, Shape, NotWaiting, Halfway, Waiting
  <2>5. CASE Kick(h) BY <2>5 DEF Kick, ring, goto, Shape, NotWaiting, Halfway, Waiting
  <2>6. CASE Nudge(h) BY <2>6 DEF Nudge, ring, goto, Shape, NotWaiting, Halfway, Waiting
  <2>7. CASE KickDone(h) BY <2>7 DEF KickDone, ring, goto, Shape, NotWaiting, Halfway, Waiting
  <2>8. CASE KickTimeout(h)
    BY <2>8 DEF KickTimeout, ring, goto, Shape, NotWaiting, Halfway, Waiting
  <2>9. CASE CloseDone(h) BY <2>9 DEF CloseDone, goto, Shape, NotWaiting, Halfway, Waiting
  <2>10. CASE ResumeStep(h)
    <3>1. Moves(h) BY <2>10, OtherMoves
    <3>2. kind[h] = "resume"
      BY Zenon, <2>10 DEF ResumeStep, BeginResume, KickAllSnapshot, KickAllNext, Rewind, EndResume,
        Shape, Role, Claiming, ServePlaces
    <3>q. QED BY <3>1, <3>2 DEF Moves, NotWaiting, Halfway
  <2>11. CASE Works(h)
    BY <2>11 DEF Works, ring, goto, Shape, NotWaiting, Halfway, Waiting, ServePlaces
  <2>q. QED
    BY <1>2, <2>1, <2>2, <2>3, <2>4, <2>5, <2>6, <2>7, <2>8, <2>9, <2>10, <2>11 DEF AttachStep
<1>q. QED BY Zenon, <1>1, <1>2, RingSteps

-----------------------------------------------------------------------------
(* The resume handshake.                                                   *)

Shaking(h) == kind[h] = "resume" /\ pc[h] \in ResumePlaces

\* The flag is up exactly while a handshake is in progress, and there is one.
OneHandshake ==
    /\ \A h \in Handlers : Shaking(h) => resuming
    /\ \A g, h \in Handlers : Shaking(g) /\ Shaking(h) => g = h
    /\ resuming => \E h \in Handlers : Shaking(h)

\* done is closed by a handler on its way out.
LetGo == done \subseteq Handlers /\ \A h \in Handlers : h \in done => pc[h] = "gone"

Asked(r, h) ==
    \/ \E i \in DOMAIN todo[r] : todo[r][i] = h
    \/ pc[r] \in Waiting /\ old[r] = h

\* Whoever still serves is among the owners the handshake has yet to wait out.
Snapshotted ==
    \A r, h \in Handlers :
        Shaking(r) /\ pc[h] \in ServePlaces =>
            /\ pc[r] \in Waiting \cup {"kickNext"} => Asked(r, h)
            /\ pc[r] # "rewind"

Quiet == OneHandshake /\ LetGo /\ Snapshotted

\* At first there is no handshake.
LEMMA InitQuiet == Init => Quiet
<1> SUFFICES ASSUME Init PROVE Quiet OBVIOUS
<1>1. \A h \in Handlers : ~ Shaking(h) BY DEF Init, Shaking, ResumePlaces
<1>q. QED BY <1>1 DEF Init, Quiet, OneHandshake, LetGo, Snapshotted

\* A move that changes neither the flag nor who is in a handshake keeps it.
LEMMA KeepsHandshake ==
    ASSUME OneHandshake, resuming' = resuming,
           \A h \in Handlers : Shaking(h)' <=> Shaking(h)
    PROVE  OneHandshake'
BY DEF OneHandshake

\* beginResume and endResume frame the handshake.
LEMMA NextHandshake == Shape /\ OneHandshake /\ [Next]_vars => OneHandshake'
<1> SUFFICES ASSUME Shape, OneHandshake, [Next]_vars PROVE OneHandshake' OBVIOUS
<1>1. CASE Stays
  <2>1. resuming' = resuming /\ \A h \in Handlers : Shaking(h)' <=> Shaking(h)
    BY <1>1 DEF Stays, ring, Shaking
  <2>q. QED BY <2>1, KeepsHandshake
<1>2. ASSUME NEW h \in Handlers, Works(h) PROVE OneHandshake'
  <2>1. resuming' = resuming /\ \A g \in Handlers : Shaking(g)' <=> Shaking(g)
    BY <1>2 DEF Works, goto, ring, Shape, Shaking, ServePlaces, ResumePlaces
  <2>q. QED BY <2>1, KeepsHandshake
<1>3. ASSUME NEW h \in Handlers, AttachStep(h) PROVE OneHandshake'
  <2>1. resuming' = resuming /\ kind' = kind
    BY <1>3 DEF AttachStep, AttachRefused, AttachClaim, AttachTaken, Kick, Nudge, KickDone,
      KickTimeout, Detach, CloseDone, ring
  <2>2. ASSUME NEW g \in Handlers PROVE Shaking(g)' <=> Shaking(g)
    <3>1. CASE g # h
      <4>1. pc'[g] = pc[g]
        BY <1>3, <3>1 DEF AttachStep, AttachRefused, AttachClaim, AttachTaken, Kick, Nudge,
          KickDone, KickTimeout, Detach, CloseDone, goto, Shape
      <4>q. QED BY <2>1, <4>1 DEF Shaking
    <3>2. CASE g = h /\ kind[h] # "resume" BY Zenon, <2>1, <3>2 DEF Shaking
    <3>3. CASE g = h /\ kind[h] = "resume"
      <4>1. pc[h] \in ResumePlaces
        BY <1>3, <3>3 DEF AttachStep, AttachRefused, AttachClaim, AttachTaken, Kick, Nudge,
          KickDone, KickTimeout, Detach, CloseDone, Shape, Role, ResumePlaces
      <4>2. pc'[h] \in ResumePlaces
        <5>1. Kick(h) \/ Nudge(h) \/ KickDone(h) \/ KickTimeout(h)
          BY Zenon, <1>3, <4>1 DEF AttachStep, AttachRefused, AttachClaim, AttachTaken, Detach,
            CloseDone, ResumePlaces
        <5>q. QED
          BY <5>1, <3>3 DEF Kick, Nudge, KickDone, KickTimeout, goto, Shape, ResumePlaces
      <4>q. QED BY <2>1, <3>3, <4>1, <4>2 DEF Shaking
    <3>q. QED BY Zenon, <3>1, <3>2, <3>3
  <2>q. QED BY <2>1, <2>2, KeepsHandshake
<1>4. ASSUME NEW h \in Handlers, ResumeStep(h) PROVE OneHandshake'
  <2>0. kind[h] = "resume"
    BY Zenon, <1>4 DEF ResumeStep, BeginResume, KickAllSnapshot, KickAllNext, Rewind, EndResume,
      Shape, Role, Claiming, ServePlaces
  <2>1. kind' = kind /\ \A g \in Handlers \ {h} : pc'[g] = pc[g]
    BY Zenon, <1>4 DEF ResumeStep, BeginResume, KickAllSnapshot, KickAllNext, Rewind, EndResume,
      goto, Shape
  <2>2. CASE BeginResume(h) /\ resuming
    <3>1. \A g \in Handlers : Shaking(g)' <=> Shaking(g)
      BY <2>1, <2>2 DEF BeginResume, goto, Shape, Shaking, ResumePlaces
    <3>2. PICK g \in Handlers : Shaking(g) BY <2>2 DEF OneHandshake
    <3>3. resuming' BY <2>2 DEF BeginResume
    <3>q. QED BY <3>1, <3>2, <3>3 DEF OneHandshake
  <2>3. CASE BeginResume(h) /\ ~resuming
    <3>1. \A g \in Handlers : ~ Shaking(g) BY <2>3 DEF OneHandshake
    <3>2. resuming' /\ pc'[h] = "snapshot" BY <2>3 DEF BeginResume, goto, Shape
    <3>3. Shaking(h)' BY <2>0, <2>1, <3>2 DEF Shaking, ResumePlaces
    <3>4. \A g \in Handlers \ {h} : ~ Shaking(g)' BY <2>1, <3>1 DEF Shaking
    <3>q. QED BY <3>2, <3>3, <3>4 DEF OneHandshake
  <2>4. CASE KickAllSnapshot(h)
    <3>1. resuming' = resuming /\ \A g \in Handlers : Shaking(g)' <=> Shaking(g)
      BY <2>0, <2>1, <2>4 DEF KickAllSnapshot, goto, Shape, Shaking, ResumePlaces
    <3>q. QED BY <3>1, KeepsHandshake
  <2>5. CASE KickAllNext(h)
    <3>1. resuming' = resuming /\ \A g \in Handlers : Shaking(g)' <=> Shaking(g)
      BY <2>0, <2>1, <2>5 DEF KickAllNext, goto, Shape, Shaking, ResumePlaces
    <3>q. QED BY <3>1, KeepsHandshake
  <2>6. CASE Rewind(h)
    <3>1. resuming' = resuming /\ \A g \in Handlers : Shaking(g)' <=> Shaking(g)
      BY <2>0, <2>1, <2>6 DEF Rewind, ring, goto, Shape, Shaking, ResumePlaces
    <3>q. QED BY <3>1, KeepsHandshake
  <2>7. CASE EndResume(h)
    <3>1. Shaking(h) BY <2>0, <2>7 DEF EndResume, Shaking, ResumePlaces
    <3>2. \A g \in Handlers \ {h} : ~ Shaking(g) BY <3>1 DEF OneHandshake
    <3>3. pc'[h] = "gone" /\ ~resuming' BY <2>7 DEF EndResume, goto, Shape
    <3>4. \A g \in Handlers : ~ Shaking(g)' BY <2>1, <3>2, <3>3 DEF Shaking, ResumePlaces
    <3>q. QED BY <3>3, <3>4 DEF OneHandshake
  <2>q. QED BY <1>4, <2>2, <2>3, <2>4, <2>5, <2>6, <2>7 DEF ResumeStep
<1>q. QED BY Zenon, RingSteps, <1>1, <1>2, <1>3, <1>4

\* Nobody comes back from gone.
LEMMA NextLetGo == Shape /\ LetGo /\ [Next]_vars => LetGo'
<1> SUFFICES ASSUME Shape, LetGo, [Next]_vars PROVE LetGo' OBVIOUS
<1>1. CASE Stays BY <1>1 DEF Stays, ring, LetGo
<1>2. ASSUME NEW h \in Handlers, Works(h) PROVE LetGo'
  BY <1>2 DEF Works, goto, ring, Shape, LetGo, ServePlaces
<1>3. ASSUME NEW h \in Handlers, AttachStep(h) PROVE LetGo'
  BY <1>3 DEF AttachStep, AttachRefused, AttachClaim, AttachTaken, Kick, Nudge, KickDone,
    KickTimeout, Detach, CloseDone, ring, goto, Shape, LetGo
<1>4. ASSUME NEW h \in Handlers, ResumeStep(h) PROVE LetGo'
  BY Zenon, <1>4 DEF ResumeStep, BeginResume, KickAllSnapshot, KickAllNext, Rewind, EndResume,
    ring, goto, Shape, LetGo
<1>q. QED BY Zenon, RingSteps, <1>1, <1>2, <1>3, <1>4

\* A step after which nobody new serves, and which leaves every handshake but
\* perhaps r's alone.
LEMMA KeepsSnapshots ==
    ASSUME Snapshotted, kind' = kind, NEW r,
           \A h \in Handlers : pc'[h] \in ServePlaces => pc[h] \in ServePlaces,
           \A q \in Handlers : kind[q] = "resume" /\ q # r =>
               pc'[q] = pc[q] /\ todo'[q] = todo[q] /\ old'[q] = old[q],
           \A h \in Handlers : r \in Handlers /\ Shaking(r)' /\ pc'[h] \in ServePlaces =>
               /\ pc'[r] \in Waiting \cup {"kickNext"} => Asked(r, h)'
               /\ pc'[r] # "rewind"
    PROVE  Snapshotted'
<1> SUFFICES ASSUME NEW q \in Handlers, NEW h \in Handlers,
                    Shaking(q)', pc'[h] \in ServePlaces
             PROVE  /\ pc'[q] \in Waiting \cup {"kickNext"} => Asked(q, h)'
                    /\ pc'[q] # "rewind"
  BY Zenon DEF Snapshotted
<1>1. CASE q = r BY <1>1
<1>2. CASE q # r
  <2>1. pc'[q] = pc[q] /\ todo'[q] = todo[q] /\ old'[q] = old[q] BY <1>2 DEF Shaking
  <2>2. Shaking(q) BY <2>1 DEF Shaking
  <2>3. /\ pc[q] \in Waiting \cup {"kickNext"} => Asked(q, h)
        /\ pc[q] # "rewind"
    BY <2>2 DEF Snapshotted
  <2>q. QED BY <2>1, <2>3 DEF Asked
<1>q. QED BY <1>1, <1>2

\* The members of a concatenation.
LEMMA Joins ==
    ASSUME NEW S, NEW s \in Seq(S), NEW t \in Seq(S)
    PROVE  /\ \A i \in DOMAIN s : i \in DOMAIN (s \o t) /\ (s \o t)[i] = s[i]
           /\ \A i \in DOMAIN t : Len(s) + i \in DOMAIN (s \o t) /\ (s \o t)[Len(s) + i] = t[i]
<1>1. s \o t \in Seq(S) /\ Len(s \o t) = Len(s) + Len(t) OBVIOUS
<1>2. Len(s) \in Nat /\ Len(t) \in Nat /\ DOMAIN s = 1..Len(s) /\ DOMAIN t = 1..Len(t)
      /\ DOMAIN (s \o t) = 1..Len(s \o t)
  BY <1>1
<1>q. QED BY <1>1, <1>2

\* kickAll's snapshot holds every owner.
LEMMA SnapshotHolds ==
    ASSUME Shape, NEW d \in Directions, slot[d] # None
    PROVE  \E i \in DOMAIN (owner("down") \o owner("up")) :
               (owner("down") \o owner("up"))[i] = slot[d]
<1>1. slot["down"] \in Handlers \cup {None} /\ slot["up"] \in Handlers \cup {None}
  BY DEF Shape, Directions
<1>2. owner("down") \in Seq(Handlers) /\ owner("up") \in Seq(Handlers) BY <1>1 DEF owner
<1>5. ASSUME NEW s \in Seq(Handlers), NEW t \in Seq(Handlers)
      PROVE  /\ \A i \in DOMAIN s : i \in DOMAIN (s \o t) /\ (s \o t)[i] = s[i]
             /\ \A i \in DOMAIN t : Len(s) + i \in DOMAIN (s \o t) /\ (s \o t)[Len(s) + i] = t[i]
  BY Joins
<1>3. CASE d = "down"
  <2>1. owner("down") = <<slot["down"]>> BY <1>3 DEF owner
  <2>2. 1 \in DOMAIN owner("down") /\ owner("down")[1] = slot["down"] BY <2>1
  <2>3. /\ 1 \in DOMAIN (owner("down") \o owner("up"))
        /\ (owner("down") \o owner("up"))[1] = slot["down"]
    BY <1>2, <2>2, <1>5
  <2>q. QED BY Zenon, <1>3, <2>3
<1>4. CASE d = "up"
  <2>1. owner("up") = <<slot["up"]>> BY <1>4 DEF owner
  <2>2. 1 \in DOMAIN owner("up") /\ owner("up")[1] = slot["up"] BY <2>1
  <2>3. /\ Len(owner("down")) + 1 \in DOMAIN (owner("down") \o owner("up"))
        /\ (owner("down") \o owner("up"))[Len(owner("down")) + 1] = slot["up"]
    BY <1>2, <2>2, <1>5
  <2>q. QED BY Zenon, <1>4, <2>3
<1>q. QED BY <1>3, <1>4 DEF Directions

\* Whoever serves is an owner.
LEMMA ServerOwns ==
    ASSUME Shape, Owned, NEW h \in Handlers, pc[h] \in ServePlaces
    PROVE  \E d \in Directions : slot[d] = h
<1>1. kind[h] \in Kinds \ {"resume"}
  BY Zenon, SessionsAssumption DEF Shape, Role, ResumePlaces, ServePlaces
<1>2. PICK d \in covered(kind[h]) : d \in Directions BY <1>1, CoveredIs DEF Kinds, Directions
<1>q. QED BY <1>2 DEF Owned, Holds

\* A step of attach, kick or detach keeps the snapshots.
LEMMA AttachSnapshots ==
    ASSUME Shape, Quiet, NEW h \in Handlers, AttachStep(h)
    PROVE  Snapshotted'
<1> USE DEF Quiet
<1>1. CASE AttachClaim(h)
  <2>1. \A r \in Handlers : ~ Shaking(r) BY <1>1 DEF AttachClaim, OneHandshake
  <2>2. kind[h] # "resume" BY <1>1, NextClaim DEF AttachClaim
  <2>3. \A r \in Handlers : ~ Shaking(r)'
    BY <1>1, <2>1, <2>2 DEF AttachClaim, goto, Shape, Shaking
  <2>q. QED BY <2>3 DEF Snapshotted
<1>2. CASE \/ AttachRefused(h) \/ AttachTaken(h) \/ Detach(h) \/ CloseDone(h)
           \/ kind[h] # "resume" /\ (Kick(h) \/ Nudge(h) \/ KickDone(h) \/ KickTimeout(h))
  <2>1. kind[h] # "resume"
    BY Zenon, <1>2 DEF AttachRefused, AttachTaken, Detach, CloseDone, Shape, Role, ResumePlaces
  <2>2. /\ kind' = kind
        /\ \A g \in Handlers : pc'[g] \in ServePlaces => pc[g] \in ServePlaces
        /\ \A g \in Handlers \ {h} : pc'[g] = pc[g] /\ todo'[g] = todo[g] /\ old'[g] = old[g]
    BY <1>2, <2>1 DEF AttachRefused, AttachTaken, Detach, CloseDone, Kick, Nudge, KickDone,
      KickTimeout, ring, goto, Shape, ServePlaces
  <2>3. ~ Shaking(h)' BY Zenon, <2>1, <2>2 DEF Shaking
  <2>q. QED BY Zenon, <2>1, <2>2, <2>3, KeepsSnapshots
<1>3. CASE kind[h] = "resume" /\ (Kick(h) \/ Nudge(h) \/ KickDone(h) \/ KickTimeout(h))
  <2>1. /\ kind' = kind /\ todo' = todo /\ old' = old
        /\ \A g \in Handlers \ {h} : pc'[g] = pc[g]
        /\ pc[h] \in Waiting
        /\ pc'[h] \in {"nudge", "wait", "kickNext", "endResume"}
    BY <1>3 DEF Kick, Nudge, KickDone, KickTimeout, ring, goto, Shape, Waiting
  <2>2. \A g \in Handlers : pc'[g] \in ServePlaces => pc[g] \in ServePlaces
    BY Zenon, <2>1 DEF ServePlaces
  <2>3. ASSUME NEW g \in Handlers, pc'[g] \in ServePlaces
        PROVE  /\ pc'[h] \in Waiting \cup {"kickNext"} => Asked(h, g)'
               /\ pc'[h] # "rewind"
    <3>1. Shaking(h) BY <1>3, <2>1 DEF Shaking, ResumePlaces, Waiting
    <3>2. Asked(h, g) BY <3>1, <2>1, <2>2, <2>3 DEF Snapshotted
    <3>3. CASE Kick(h) \/ Nudge(h)
      <4>1. pc'[h] \in Waiting BY <3>3 DEF Kick, Nudge, goto, Shape, Waiting
      <4>q. QED BY <2>1, <3>2, <4>1 DEF Asked, Waiting
    <3>4. CASE KickDone(h)
      <4>1. pc[old[h]] = "gone" BY Zenon, <3>4, <2>1 DEF KickDone, LetGo, Shape, Role
      <4>2. old[h] # g BY <4>1, <2>2, <2>3 DEF ServePlaces
      <4>3. \E i \in DOMAIN todo[h] : todo[h][i] = g BY <3>2, <4>2 DEF Asked
      <4>q. QED BY <2>1, <4>3 DEF Asked
    <3>5. CASE KickTimeout(h)
      BY <3>5, <1>3 DEF KickTimeout, goto, Shape, Waiting
    <3>q. QED BY Zenon, <1>3, <3>3, <3>4, <3>5
  <2>q. QED BY Zenon, <2>1, <2>2, <2>3, KeepsSnapshots
<1>q. QED BY <1>1, <1>2, <1>3 DEF AttachStep

\* A step of ResumeHandler keeps the snapshots, and takes one of the owners.
LEMMA ResumeSnapshots ==
    ASSUME Shape, Owned, Quiet, NEW h \in Handlers, ResumeStep(h)
    PROVE  Snapshotted'
<1> USE DEF Quiet
<1>0. kind[h] = "resume"
  BY DEF ResumeStep, BeginResume, KickAllSnapshot, KickAllNext, Rewind, EndResume,
    Shape, Role, Claiming, ServePlaces
<1>1. /\ kind' = kind
      /\ \A g \in Handlers : pc'[g] \in ServePlaces => pc[g] \in ServePlaces
      /\ \A g \in Handlers \ {h} : pc'[g] = pc[g] /\ todo'[g] = todo[g] /\ old'[g] = old[g]
  BY Zenon DEF ResumeStep, BeginResume, KickAllSnapshot, KickAllNext, Rewind, EndResume, ring,
    goto, Shape, ServePlaces
<1>2. ASSUME NEW g \in Handlers, pc'[g] \in ServePlaces
      PROVE  /\ pc'[h] \in Waiting \cup {"kickNext"} => Asked(h, g)'
             /\ pc'[h] # "rewind"
  <2>0. pc[g] \in ServePlaces BY Zenon, <1>1, <1>2
  <2>1. CASE BeginResume(h) BY <2>1 DEF BeginResume, goto, Shape, Waiting
  <2>2. CASE KickAllSnapshot(h)
    <3>1. pc'[h] = "kickNext" /\ todo'[h] = owner("down") \o owner("up")
      BY <2>2 DEF KickAllSnapshot, goto, Shape
    <3>2. PICK d \in Directions : slot[d] = g BY <2>0, ServerOwns
    <3>3. \E i \in DOMAIN (owner("down") \o owner("up")) :
              (owner("down") \o owner("up"))[i] = g
      BY <3>2, SnapshotHolds, NoneAssumption
    <3>q. QED BY Zenon, <3>1, <3>3 DEF Asked
  <2>3. CASE KickAllNext(h)
    <3>0. Shaking(h) /\ pc[h] = "kickNext" /\ todo[h] \in Seq(Handlers)
      BY Zenon, <1>0, <2>3 DEF KickAllNext, Shaking, ResumePlaces, Shape, Role
    <3>1. PICK i \in DOMAIN todo[h] : todo[h][i] = g
      BY <2>0, <3>0 DEF Snapshotted, Asked, Waiting
    <3>2. todo[h] # <<>> BY <3>1
    <3>3. pc'[h] = "kick" /\ old'[h] = Head(todo[h]) /\ todo'[h] = Tail(todo[h])
      BY <2>3, <3>2 DEF KickAllNext, goto, Shape
    <3>4. CASE i = 1 BY <3>0, <3>1, <3>3, <3>4 DEF Asked, Waiting
    <3>5. CASE i # 1
      <4>1. i \in 2..Len(todo[h]) BY <3>0, <3>1, <3>5
      <4>2. i - 1 \in DOMAIN Tail(todo[h]) /\ Tail(todo[h])[i - 1] = g
        BY <3>0, <3>1, <3>2, <4>1
      <4>q. QED BY Zenon, <3>3, <4>2 DEF Asked
    <3>q. QED BY <3>3, <3>4, <3>5
  <2>4. CASE Rewind(h) BY <2>4 DEF Rewind, goto, Shape, Waiting
  <2>5. CASE EndResume(h) BY <2>5 DEF EndResume, goto, Shape, Waiting
  <2>q. QED BY <2>1, <2>2, <2>3, <2>4, <2>5 DEF ResumeStep
<1>q. QED BY Zenon, <1>1, <1>2, KeepsSnapshots

\* Every step keeps the handshake's invariant.
LEMMA NextQuiet == Shape /\ Owned /\ Quiet /\ [Next]_vars => Quiet'
<1> SUFFICES ASSUME Shape, Owned, Quiet, [Next]_vars PROVE Quiet' OBVIOUS
<1>1. Snapshotted'
  <2>1. CASE Stays BY <2>1 DEF Stays, ring, Quiet, Snapshotted, Shaking, Asked
  <2>2. ASSUME NEW h \in Handlers, Works(h) PROVE Snapshotted'
    <3>1. kind[h] # "resume" BY Zenon, <2>2 DEF Works, Shape, Role, ServePlaces, ResumePlaces
    <3>2. /\ kind' = kind
          /\ \A g \in Handlers : pc'[g] \in ServePlaces => pc[g] \in ServePlaces
          /\ \A g \in Handlers \ {h} : pc'[g] = pc[g] /\ todo'[g] = todo[g] /\ old'[g] = old[g]
      BY <2>2 DEF Works, ring, goto, Shape, ServePlaces
    <3>3. ~ Shaking(h)' BY <3>1, <3>2 DEF Shaking
    <3>q. QED BY Zenon, <3>1, <3>2, <3>3, KeepsSnapshots DEF Quiet
  <2>q. QED BY Zenon, <2>1, <2>2, RingSteps, AttachSnapshots, ResumeSnapshots
<1>2. OneHandshake' BY NextHandshake DEF Quiet
<1>3. LetGo' BY NextLetGo DEF Quiet
<1>q. QED BY <1>1, <1>2, <1>3 DEF Quiet

-----------------------------------------------------------------------------
(* What a kick leaves behind.                                              *)

Effects == {"ctx", "after", "read", "write"}

\* The rest of the types, and what a handler of each kind may be doing.
Doing(h) ==
    /\ pc[h] = "parked" => kind[h] \in {"poll", "batchDown"}
    /\ pc[h] = "reading" => kind[h] \in {"sendStream", "batchUp"}
    /\ pc[h] = "writing" => kind[h] \in {"poll", "batchDown"}
    /\ pc[h] \in {"pumps", "join"} => kind[h] = "ws"
    /\ pumps[h] # {} => pc[h] \in {"pumps", "join"}

Working ==
    /\ dead \in [Handlers -> SUBSET Effects]
    /\ pumps \in [Handlers -> SUBSET {"r", "w"}]
    /\ busy \subseteq Handlers
    /\ kicked \subseteq Handlers
    /\ \A h \in Handlers : Doing(h)

\* h is, or was, an owner: somebody found it in a slot.
Met(h) == kind[h] # "resume" /\ (pc[h] \in Claiming => Halfway(h))

\* What kickAndWait is used on.
Meets(g) ==
    /\ pc[g] \in Waiting => Met(old[g])
    /\ kind[g] = "resume" /\ pc[g] \in Waiting \cup {"kickNext"} =>
           \A i \in DOMAIN todo[g] : Met(todo[g][i])

\* The kick's deadlines and cancellation, without the AfterFunc it starts.
Struck(h) ==
    /\ kind[h] \in {"batchDown", "batchUp"} => {"ctx", "read", "write"} \subseteq dead[h]
    /\ kind[h] = "ws" => "ctx" \in dead[h]

\* h waits in the out pipe, or will before it looks at its context again.
Listening(h) ==
    \/ kind[h] = "batchDown" /\ pc[h] = "parked"
    \/ kind[h] = "ws" /\ (pc[h] \in Claiming \cup {"serve"} \/ ("w" \in pumps[h] /\ h \notin busy))

Kicked ==
    /\ \A g \in Handlers : Meets(g)
    /\ \A g \in Handlers : pc[g] = "nudge" => Struck(old[g])
    /\ \A h \in kicked : Met(h) /\ Struck(h) /\ (Listening(h) => intr)

\* At first nobody serves, and nobody has been kicked.
LEMMA InitKicked == Init => Working /\ Kicked
<1> SUFFICES ASSUME Init PROVE Working /\ Kicked OBVIOUS
<1>1. Working BY DEF Init, Working, Doing
<1>2. Kicked BY DEF Init, Kicked, Meets, Waiting
<1>q. QED BY <1>1, <1>2

\* Every step keeps what the handlers may be doing.
LEMMA NextWorking == Shape /\ Working /\ [Next]_vars => Working'
<1> SUFFICES ASSUME Shape, Working, [Next]_vars PROVE Working' OBVIOUS
<1>e. \A k \in Kinds : kickEffect[k] \subseteq Effects BY DEF kickEffect, Kinds, Effects
<1>k. \A h \in Handlers : kind[h] \in Kinds BY SessionsAssumption DEF Shape
<1>1. CASE UNCHANGED vars BY <1>1 DEF vars, Working, Doing
<1>2. ASSUME NEW h \in Handlers, AttachStep(h) PROVE Working'
  <2>1. CASE Kick(h)
    <3>1. old[h] \in Handlers BY Zenon, <2>1 DEF Kick, Shape, Role, Waiting
    <3>2. kickEffect[kind[old[h]]] \subseteq Effects BY <3>1, <1>e, <1>k
    <3>3. dead' \in [Handlers -> SUBSET Effects] BY Zenon, <2>1, <3>2 DEF Kick, Working
    <3>4. \A g \in Handlers : Doing(g)' BY Zenon, <2>1 DEF Kick, goto, wsvars, Shape, Working, Doing
    <3>q. QED BY Zenon, <2>1, <3>3, <3>4 DEF Kick, wsvars, Working
  <2>2. CASE Nudge(h)
    <3>1. old[h] \in Handlers BY <2>2 DEF Nudge, Shape, Role, Waiting
    <3>q. QED BY <2>2, <3>1 DEF Nudge, goto, wsvars, Shape, Working, Doing
  <2>3. CASE AttachRefused(h) \/ AttachTaken(h) \/ KickDone(h) \/ KickTimeout(h)
             \/ Detach(h) \/ CloseDone(h)
    BY <2>3 DEF AttachRefused, AttachTaken, KickDone, KickTimeout, Detach, CloseDone,
      goto, wsvars, Shape, Working, Doing
  <2>4. CASE AttachClaim(h) BY Zenon, <2>4 DEF AttachClaim, goto, wsvars, Shape, Working, Doing
  <2>q. QED BY <1>2, <2>1, <2>2, <2>3, <2>4 DEF AttachStep
<1>3. ASSUME NEW h \in Handlers, ResumeStep(h) PROVE Working'
  BY Zenon, <1>3 DEF ResumeStep, BeginResume, KickAllSnapshot, KickAllNext, Rewind, EndResume,
    goto, wsvars, Shape, Working, Doing
<1>4. ASSUME NEW h \in Handlers, PollStep(h) PROVE Working'
  BY Zenon, <1>4 DEF PollStep, PollStart, PollInterrupted, afterInterrupt, PollDue, PollEOF,
    PollWritten, WriteFails, goto, wsvars, Shape, Working, Doing
<1>5. ASSUME NEW h \in Handlers, UploadStep(h) PROVE Working'
  <2>1. CASE SendStreamFrame(h)
    <3>1. dead' \in [Handlers -> SUBSET Effects] BY <2>1 DEF SendStreamFrame, Working
    <3>q. QED BY Zenon, <2>1, <3>1 DEF SendStreamFrame, goto, wsvars, Shape, Working, Doing
  <2>2. CASE SendStreamStart(h) \/ FrameRead(h) \/ ReadEnds(h)
    BY <2>2 DEF SendStreamStart, FrameRead, ReadEnds, goto, wsvars, Shape, Working, Doing
  <2>q. QED BY <1>5, <2>1, <2>2 DEF UploadStep
<1>6. ASSUME NEW h \in Handlers, BatchStep(h) PROVE Working'
  <2>1. CASE BatchClientGone(h)
    <3>1. dead' \in [Handlers -> SUBSET Effects] BY <2>1 DEF BatchClientGone, Working, Effects
    <3>q. QED BY Zenon, <2>1, <3>1 DEF BatchClientGone, wsvars, Working, Doing
  <2>2. CASE AfterFunc(h)
    <3>1. dead' \in [Handlers -> SUBSET Effects] BY <2>2 DEF AfterFunc, Working
    <3>q. QED BY <2>2, <3>1 DEF AfterFunc, wsvars, Working, Doing
  <2>3. CASE BatchUpStart(h) \/ BatchUpApply(h) \/ BatchDownStart(h) \/ BatchDownWoken(h)
             \/ BatchDownReply(h)
    BY Zenon, <2>3 DEF BatchUpStart, BatchUpApply, BatchDownStart, BatchDownWoken, BatchDownReply,
      goto, wsvars, Shape, Working, Doing
  <2>q. QED BY <1>6, <2>1, <2>2, <2>3 DEF BatchStep
<1>7. ASSUME NEW h \in Handlers, WsStep(h) PROVE Working'
  <2>1. CASE WsStart(h)
    <3>1. pumps' \in [Handlers -> SUBSET {"r", "w"}] BY Zenon, <2>1 DEF WsStart, Working
    <3>q. QED BY Zenon, <2>1, <3>1 DEF WsStart, goto, Shape, Working, Doing
  <2>2. CASE WsReadEnds(h) \/ WsWriteEnds(h)
    <3>1. pumps' \in [Handlers -> SUBSET {"r", "w"}]
      BY <2>2 DEF WsReadEnds, WsWriteEnds, endPump, Working
    <3>q. QED BY Zenon, <2>2, <3>1 DEF WsReadEnds, WsWriteEnds, endPump, Shape, Working, Doing
  <2>3. CASE WsInterrupted(h)
    <3>1. pumps' \in [Handlers -> SUBSET {"r", "w"}]
      BY <2>3 DEF WsInterrupted, endPump, Working
    <3>2. busy' \subseteq Handlers BY <2>3 DEF WsInterrupted, Working
    <3>3. \A g \in Handlers : Doing(g)' BY Zenon, <2>3 DEF WsInterrupted, endPump, Shape, Working, Doing
    <3>q. QED BY <2>3, <3>1, <3>2, <3>3 DEF WsInterrupted, Working
  <2>4. CASE WsFrame(h) \/ WsDue(h) \/ WsWritten(h)
    BY <2>4 DEF WsFrame, WsDue, WsWritten, wsvars, Shape, Working, Doing
  <2>5. CASE WsCancel(h)
    <3>1. dead' \in [Handlers -> SUBSET Effects] BY <2>5 DEF WsCancel, Working, Effects
    <3>q. QED BY Zenon, <2>5, <3>1 DEF WsCancel, goto, wsvars, Shape, Working, Doing
  <2>6. CASE WsJoin(h) BY <2>6 DEF WsJoin, goto, wsvars, Shape, Working, Doing
  <2>q. QED BY <1>7, <2>1, <2>2, <2>3, <2>4, <2>5, <2>6 DEF WsStep
<1>q. QED BY Zenon, <1>1, <1>2, <1>3, <1>4, <1>5, <1>6, <1>7 DEF Next

\* An owner is met, and stays so.
LEMMA OwnerMet ==
    ASSUME Shape, Owned, NEW d \in Directions, slot[d] # None
    PROVE  slot[d] \in Handlers /\ Met(slot[d])
<1>1. slot[d] \in Handlers BY DEF Shape
<1>2. InSlot(d, slot[d]) BY <1>1 DEF Owned
<1>q. QED BY <1>1, <1>2, CoveredIs DEF InSlot, Met, Claiming, ServePlaces

\* Nobody who was met goes back to having nothing claimed.
LEMMA MetStays ==
    ASSUME Shape, [Next]_vars, NEW h \in Handlers, Met(h)
    PROVE  Met(h)'
<1>1. CASE Stays BY Zenon, <1>1 DEF Stays, ring, Met, Halfway
<1>2. ASSUME NEW g \in Handlers, Moves(g) PROVE Met(h)'
  BY Zenon, <1>2 DEF Moves, Met, Halfway, Claiming, ServePlaces
<1>3. ASSUME NEW g \in Handlers, Detach(g) PROVE Met(h)'
  BY <1>3 DEF Detach, goto, Shape, Met, Halfway, Claiming
<1>4. ASSUME NEW g \in Handlers, AttachClaim(g) PROVE Met(h)'
  <2>1. CASE g # h BY <1>4, <2>1 DEF AttachClaim, goto, Shape, Met, Halfway
  <2>2. CASE g = h
    <3>1. Halfway(h) BY Zenon, <1>4, <2>2 DEF AttachClaim, Met, Claiming
    <3>2. Len(todo[h]) = 1 BY <3>1 DEF Halfway
    <3>q. QED BY <1>4, <2>2, <3>2 DEF AttachClaim, goto, Shape, Met, Claiming
  <2>q. QED BY <2>1, <2>2
<1>q. QED BY Zenon, <1>1, <1>2, <1>3, <1>4, RingSteps, OtherMoves

\* kickAndWait is called on owners.
LEMMA NextMeets ==
    ASSUME Shape, Owned, [Next]_vars, NEW g \in Handlers, Meets(g)
    PROVE  Meets(g)'
<1>1. \A h \in Handlers : Met(h) => Met(h)' BY MetStays
<1>2. ASSUME pc'[g] = pc[g], todo'[g] = todo[g], old'[g] = old[g], kind' = kind PROVE Meets(g)'
  <2>1. pc[g] \in Waiting => Met(old[g])' BY Zenon, <1>1, <1>2 DEF Meets, Shape, Role, Met, Halfway
  <2>2. kind[g] = "resume" /\ pc[g] \in Waiting \cup {"kickNext"} =>
           \A i \in DOMAIN todo[g] : Met(todo[g][i])'
    <3> SUFFICES ASSUME kind[g] = "resume", pc[g] \in Waiting \cup {"kickNext"},
                        NEW i \in DOMAIN todo[g]
                 PROVE  Met(todo[g][i])'
      OBVIOUS
    <3>1. todo[g] \in Seq(Handlers) BY DEF Shape, Role
    <3>2. todo[g][i] \in Handlers BY <3>1
    <3>q. QED BY Zenon, <1>1, <1>2, <3>2 DEF Meets, Met, Halfway
  <2>q. QED BY Zenon, <1>2, <2>1, <2>2 DEF Meets, Met, Halfway
<1>3. CASE Stays BY <1>2, <1>3 DEF Stays, ring
<1>4. ASSUME NEW h \in Handlers, AttachStep(h) \/ ResumeStep(h) \/ Works(h), h # g PROVE Meets(g)'
  BY <1>2, <1>4 DEF AttachStep, AttachRefused, AttachClaim, AttachTaken, Kick, Nudge, KickDone,
    KickTimeout, Detach, CloseDone, ResumeStep, BeginResume, KickAllSnapshot, KickAllNext,
    Rewind, EndResume, Works, ring, goto, Shape
<1>5. CASE \/ AttachRefused(g) \/ AttachClaim(g) \/ Detach(g) \/ CloseDone(g)
           \/ BeginResume(g) \/ Rewind(g) \/ EndResume(g) \/ Works(g) \/ KickTimeout(g)
  <2>1. pc'[g] \notin Waiting \cup {"kickNext"}
    BY <1>5 DEF AttachRefused, AttachClaim, Detach, CloseDone, BeginResume, Rewind, EndResume,
      Works, KickTimeout, goto, Shape, Waiting, ServePlaces
  <2>q. QED BY <2>1 DEF Meets
<1>6. CASE Kick(g) \/ Nudge(g) \/ KickDone(g)
  <2>1. /\ kind' = kind /\ todo' = todo /\ old' = old /\ pc[g] \in Waiting
        /\ pc'[g] \in Waiting \cup {"kickNext", "attach"}
    BY <1>6 DEF Kick, Nudge, KickDone, ring, goto, Shape, Waiting
  <2>2. Met(old[g])' BY Zenon, <1>1, <2>1 DEF Meets, Shape, Role
  <2>3. kind[g] = "resume" => \A i \in DOMAIN todo[g] : Met(todo[g][i])'
    <3> SUFFICES ASSUME kind[g] = "resume", NEW i \in DOMAIN todo[g] PROVE Met(todo[g][i])'
      OBVIOUS
    <3>1. todo[g] \in Seq(Handlers) BY Zenon, <2>1 DEF Shape, Role
    <3>2. todo[g][i] \in Handlers BY <3>1
    <3>q. QED BY Zenon, <1>1, <2>1, <3>2 DEF Meets
  <2>q. QED BY Zenon, <2>1, <2>2, <2>3 DEF Meets, Met, Halfway
<1>7. CASE AttachTaken(g)
  <2>1. kind[g] # "resume" /\ Head(todo[g]) \in Directions BY Zenon, <1>7, NextClaim DEF AttachTaken
  <2>2. slot[Head(todo[g])] \in Handlers /\ Met(slot[Head(todo[g])])
    BY Zenon, <1>7, <2>1, OwnerMet DEF AttachTaken
  <2>3. old'[g] = slot[Head(todo[g])] /\ kind' = kind BY <1>7 DEF AttachTaken, Shape
  <2>4. Met(old[g])' BY <1>1, <2>2, <2>3 DEF Met, Halfway
  <2>q. QED BY <2>1, <2>3, <2>4 DEF Meets
<1>8. CASE KickAllSnapshot(g)
  <2>1. pc'[g] = "kickNext" /\ todo'[g] = owner("down") \o owner("up") /\ kind' = kind
    BY <1>8 DEF KickAllSnapshot, goto, Shape
  <2> DEFINE M == {h \in Handlers : Met(h)}
  <2>m. \A h : h \in M <=> h \in Handlers /\ Met(h) OBVIOUS
  <2> HIDE DEF M
  <2>2. ASSUME NEW d \in Directions PROVE owner(d) \in Seq(M)
    <3>1. slot[d] # None => slot[d] \in M BY Zenon, <2>m, OwnerMet
    <3>q. QED BY <3>1 DEF owner
  <2>3. owner("down") \o owner("up") \in Seq(M) BY <2>2 DEF Directions
  <2>4. \A i \in DOMAIN todo'[g] : todo'[g][i] \in M BY <2>1, <2>3
  <2>5. \A i \in DOMAIN todo'[g] : Met(todo[g][i])' BY <1>1, <2>4, <2>m DEF Met, Halfway
  <2>6. pc'[g] \notin Waiting BY <2>1 DEF Waiting
  <2>q. QED BY Zenon, <2>5, <2>6 DEF Meets
<1>9. CASE KickAllNext(g) /\ todo[g] = <<>>
  <2>1. pc'[g] = "rewind" BY <1>9 DEF KickAllNext, goto, Shape
  <2>q. QED BY <2>1 DEF Meets, Waiting
<1>10. CASE KickAllNext(g) /\ todo[g] # <<>>
  <2>1. kind[g] = "resume" /\ pc[g] = "kickNext" /\ todo[g] \in Seq(Handlers)
    BY Zenon, <1>10 DEF KickAllNext, Shape, Role, Claiming, ServePlaces
  <2>2. todo'[g] = Tail(todo[g]) /\ old'[g] = Head(todo[g]) /\ kind' = kind
    BY <1>10 DEF KickAllNext, Shape
  <2>3. \A i \in DOMAIN todo[g] : todo[g][i] \in {h \in Handlers : Met(h)}
    BY <2>1 DEF Meets
  <2>4. todo[g] \in Seq({h \in Handlers : Met(h)}) BY <2>1, <2>3
  <2>5. Head(todo[g]) \in {h \in Handlers : Met(h)} /\ Tail(todo[g]) \in Seq({h \in Handlers : Met(h)})
    BY <1>10, <2>4
  <2>6. \A i \in DOMAIN todo'[g] : todo'[g][i] \in {h \in Handlers : Met(h)} BY <2>2, <2>5
  <2>7. Met(old[g])' BY Zenon, <1>1, <2>2, <2>5 DEF Met, Halfway
  <2>8. \A i \in DOMAIN todo'[g] : Met(todo[g][i])' BY <1>1, <2>6 DEF Met, Halfway
  <2>q. QED BY <2>7, <2>8 DEF Meets
<1>q. QED
  BY Zenon, RingSteps, <1>3, <1>4, <1>5, <1>6, <1>7, <1>8, <1>9, <1>10 DEF AttachStep, ResumeStep

\* Of a kick only an AfterFunc and a send stream's deadline are ever undone.
LEMMA StruckStays ==
    ASSUME Shape, Working, [Next]_vars, NEW h \in Handlers, Struck(h)
    PROVE  Struck(h)'
<1>0. ASSUME kind' = kind, dead[h] \subseteq dead'[h] PROVE Struck(h)' BY Zenon, <1>0 DEF Struck
<1>1. CASE UNCHANGED vars BY <1>0, <1>1 DEF vars
<1>2. ASSUME NEW g \in Handlers, AttachStep(g) PROVE Struck(h)'
  <2>1. CASE Kick(g) BY Zenon, <1>0, <2>1 DEF Kick, Working
  <2>2. CASE ~ Kick(g)
    BY <1>0, <1>2, <2>2 DEF AttachStep, AttachRefused, AttachClaim, AttachTaken, Nudge, KickDone,
      KickTimeout, Detach, CloseDone
  <2>q. QED BY <2>1, <2>2
<1>3. ASSUME NEW g \in Handlers, ResumeStep(g) PROVE Struck(h)'
  BY <1>0, <1>3 DEF ResumeStep, BeginResume, KickAllSnapshot, KickAllNext, Rewind, EndResume
<1>4. ASSUME NEW g \in Handlers, PollStep(g) PROVE Struck(h)'
  BY <1>0, <1>4 DEF PollStep, PollStart, PollInterrupted, PollDue, PollEOF, PollWritten, WriteFails
<1>5. ASSUME NEW g \in Handlers, UploadStep(g) PROVE Struck(h)'
  <2>1. CASE SendStreamFrame(g) /\ g = h BY <2>1 DEF SendStreamFrame, Struck
  <2>2. CASE SendStreamFrame(g) /\ g # h BY <1>0, <2>2 DEF SendStreamFrame, Working
  <2>3. CASE ~ SendStreamFrame(g)
    BY <1>0, <1>5, <2>3 DEF UploadStep, SendStreamStart, FrameRead, ReadEnds
  <2>q. QED BY Zenon, <2>1, <2>2, <2>3
<1>6. ASSUME NEW g \in Handlers, BatchStep(g) PROVE Struck(h)'
  <2>1. CASE BatchClientGone(g) BY Zenon, <1>0, <2>1 DEF BatchClientGone, Working
  <2>2. CASE AfterFunc(g) BY <2>2 DEF AfterFunc, Working, Struck
  <2>3. CASE ~ BatchClientGone(g) /\ ~ AfterFunc(g)
    BY Zenon, <1>0, <1>6, <2>3 DEF BatchStep, BatchUpStart, BatchUpApply, BatchDownStart,
      BatchDownWoken, BatchDownReply
  <2>q. QED BY <2>1, <2>2, <2>3
<1>7. ASSUME NEW g \in Handlers, WsStep(g) PROVE Struck(h)'
  <2>1. CASE WsCancel(g) BY <1>0, <2>1 DEF WsCancel, Working
  <2>2. CASE ~ WsCancel(g)
    BY <1>0, <1>7, <2>2 DEF WsStep, WsStart, WsFrame, WsReadEnds, WsInterrupted, WsDue,
      WsWritten, WsWriteEnds, WsJoin
  <2>q. QED BY <2>1, <2>2
<1>q. QED BY Zenon, <1>1, <1>2, <1>3, <1>4, <1>5, <1>6, <1>7 DEF Next

\* Between its two halves a kick has struck.
LEMMA NudgeStruck ==
    ASSUME Shape, Working, Kicked, [Next]_vars, NEW g \in Handlers, pc'[g] = "nudge"
    PROVE  Struck(old[g])'
<1>1. \A h \in Handlers : Struck(h) => Struck(h)' BY StruckStays
<1>2. CASE pc[g] = "nudge" /\ old'[g] = old[g] /\ kind' = kind
  <2>1. old[g] \in Handlers BY Zenon, <1>2 DEF Shape, Role, Waiting
  <2>2. Struck(old[g]) BY <1>2 DEF Kicked
  <2>q. QED BY <1>1, <1>2, <2>1, <2>2 DEF Struck
<1>3. CASE Kick(g)
  <2>1. old[g] \in Handlers BY Zenon, <1>3 DEF Kick, Shape, Role, Waiting
  <2>2. kind[old[g]] \in Kinds BY <2>1, SessionsAssumption DEF Shape
  <2>3. /\ kind' = kind /\ old' = old
        /\ kickEffect[kind[old[g]]] \subseteq dead'[old[g]]
    BY <1>3, <2>1 DEF Kick, ring, Working
  <2>4. /\ kind[old[g]] \in {"batchDown", "batchUp"} =>
             {"ctx", "read", "write"} \subseteq kickEffect[kind[old[g]]]
        /\ kind[old[g]] = "ws" => "ctx" \in kickEffect[kind[old[g]]]
    BY <2>2 DEF kickEffect
  <2>q. QED BY Zenon, <2>3, <2>4 DEF Struck
<1>4. (pc[g] = "nudge" /\ old'[g] = old[g] /\ kind' = kind) \/ Kick(g)
  <2>1. CASE Stays BY <2>1 DEF Stays, ring
  <2>2. ASSUME NEW h \in Handlers, AttachStep(h) \/ ResumeStep(h) \/ Works(h), ~ Kick(g)
        PROVE  pc[g] = "nudge" /\ old'[g] = old[g] /\ kind' = kind
    <3>1. CASE h # g
      BY <2>2, <3>1 DEF AttachStep, AttachRefused, AttachClaim, AttachTaken, Kick, Nudge,
        KickDone, KickTimeout, Detach, CloseDone, ResumeStep, BeginResume, KickAllSnapshot,
        KickAllNext, Rewind, EndResume, Works, ring, goto, Shape
    <3>2. CASE h = g
      BY <2>2, <3>2 DEF AttachStep, AttachRefused, AttachClaim, AttachTaken, Nudge,
        KickDone, KickTimeout, Detach, CloseDone, ResumeStep, BeginResume, KickAllSnapshot,
        KickAllNext, Rewind, EndResume, Works, ring, goto, Shape, ServePlaces
    <3>q. QED BY <3>1, <3>2
  <2>q. QED BY Zenon, <2>1, <2>2, RingSteps
<1>q. QED BY Zenon, <1>2, <1>3, <1>4

\* A handler whose kick has struck does not begin to wait in the pipe.
LEMMA ListeningShrinks ==
    ASSUME Shape, Working, [Next]_vars, NEW h \in Handlers, Struck(h), Listening(h)'
    PROVE  Listening(h)
<1>0. ASSUME kind' = kind, pc'[h] = pc[h], pumps'[h] \subseteq pumps[h], h \in busy => h \in busy'
      PROVE  Listening(h)
  BY Zenon, <1>0 DEF Listening
<1>1. CASE UNCHANGED vars BY <1>0, <1>1 DEF vars
<1>2. ASSUME NEW g \in Handlers, AttachStep(g) PROVE Listening(h)
  <2>1. kind' = kind /\ pumps' = pumps /\ busy' = busy /\ (g # h => pc'[h] = pc[h])
    BY <1>2 DEF AttachStep, AttachRefused, AttachClaim, AttachTaken, Kick, Nudge, KickDone,
      KickTimeout, Detach, CloseDone, goto, wsvars, Shape
  <2>2. CASE g # h BY <1>0, <2>1, <2>2
  <2>3. CASE g = h
    <3>1. pc[h] \in Claiming \/ pc'[h] \notin Claiming \cup {"serve", "parked"}
      BY <1>2, <2>3 DEF AttachStep, AttachRefused, AttachClaim, AttachTaken, Kick, Nudge, KickDone,
        KickTimeout, Detach, CloseDone, goto, Shape, Claiming
    <3>2. pc'[h] # "parked"
      BY <1>2, <2>3 DEF AttachStep, AttachRefused, AttachClaim, AttachTaken, Kick, Nudge, KickDone,
        KickTimeout, Detach, CloseDone, goto, Shape
    <3>q. QED BY Zenon, <2>1, <3>1, <3>2 DEF Listening
  <2>q. QED BY Zenon, <2>2, <2>3
<1>3. ASSUME NEW g \in Handlers, ResumeStep(g) PROVE Listening(h)
  <2>1. kind' = kind /\ pumps' = pumps /\ busy' = busy /\ (g # h => pc'[h] = pc[h])
    BY Zenon, <1>3 DEF ResumeStep, BeginResume, KickAllSnapshot, KickAllNext, Rewind, EndResume,
      goto, wsvars, Shape
  <2>2. kind[g] = "resume"
    BY <1>3 DEF ResumeStep, BeginResume, KickAllSnapshot, KickAllNext, Rewind, EndResume,
      Shape, Role, Claiming, ServePlaces
  <2>q. QED BY <1>0, <2>1, <2>2 DEF Listening
<1>4. ASSUME NEW g \in Handlers, PollStep(g) PROVE Listening(h)
  <2>1. kind' = kind /\ pumps' = pumps /\ busy' = busy /\ (g # h => pc'[h] = pc[h])
    BY <1>4 DEF PollStep, PollStart, PollInterrupted, PollDue, PollEOF, PollWritten, WriteFails,
      goto, wsvars, Shape
  <2>2. kind[g] = "poll" \/ pc'[g] = "detach"
    BY <1>4 DEF PollStep, PollStart, PollInterrupted, PollDue, PollEOF, PollWritten, WriteFails,
      goto, wsvars, Shape
  <2>q. QED BY <1>0, <2>1, <2>2 DEF Listening, Claiming
<1>5. ASSUME NEW g \in Handlers, UploadStep(g) PROVE Listening(h)
  <2>1. kind' = kind /\ pumps' = pumps /\ busy' = busy /\ (g # h => pc'[h] = pc[h])
    BY Zenon, <1>5 DEF UploadStep, SendStreamStart, FrameRead, ReadEnds, SendStreamFrame,
      goto, wsvars, Shape
  <2>2. pc'[g] \in {"reading", "got", "detach"}
    BY <1>5 DEF UploadStep, SendStreamStart, FrameRead, ReadEnds, SendStreamFrame, goto, Shape
  <2>q. QED BY <1>0, <2>1, <2>2 DEF Listening, Claiming
<1>6. ASSUME NEW g \in Handlers, BatchStep(g) PROVE Listening(h)
  <2>1. kind' = kind /\ pumps' = pumps /\ busy' = busy /\ (g # h => pc'[h] = pc[h])
    BY Zenon, <1>6 DEF BatchStep, BatchUpStart, BatchUpApply, BatchDownStart, BatchDownWoken,
      BatchDownReply, BatchClientGone, AfterFunc, goto, wsvars, Shape
  <2>2. g = h => pc'[h] = pc[h] \/ pc'[h] \in {"reading", "got", "detach", "writing"}
    BY Zenon, <1>6 DEF BatchStep, BatchUpStart, BatchUpApply, BatchDownStart, BatchDownWoken,
      BatchDownReply, BatchClientGone, AfterFunc, goto, Shape, Struck
  <2>q. QED BY <1>0, <2>1, <2>2 DEF Listening, Claiming
<1>7. ASSUME NEW g \in Handlers, WsStep(g) PROVE Listening(h)
  <2>1. CASE g # h
    BY Zenon, <1>0, <1>7, <2>1 DEF WsStep, WsStart, WsFrame, WsReadEnds, WsInterrupted, WsDue,
      WsWritten, WsWriteEnds, WsCancel, WsJoin, endPump, goto, wsvars, Shape, Working
  <2>2. CASE g = h /\ WsStart(h)
    <3>1. kind[h] = "ws" /\ pc[h] = "serve" BY Zenon, <2>2 DEF WsStart
    <3>q. QED BY <3>1 DEF Listening
  <2>3. CASE g = h /\ (WsFrame(h) \/ WsReadEnds(h) \/ WsDue(h))
    BY <1>0, <2>3 DEF WsFrame, WsReadEnds, WsDue, endPump, wsvars, Working
  <2>4. CASE g = h /\ WsInterrupted(h)
    BY <1>0, <2>4 DEF WsInterrupted, endPump, Working
  <2>5. CASE g = h /\ WsWritten(h)
    <3>1. h \in busy /\ "ctx" \notin dead[h] /\ pumps' = pumps /\ pc' = pc /\ kind' = kind
      BY <2>5 DEF WsWritten
    <3>q. QED BY Zenon, <3>1 DEF Listening, Struck
  <2>6. CASE g = h /\ WsWriteEnds(h)
    <3>1. kind' = kind /\ pc' = pc /\ "w" \notin pumps'[h]
      BY <2>6 DEF WsWriteEnds, endPump, Working
    <3>q. QED BY <3>1 DEF Listening
  <2>7. CASE g = h /\ (WsCancel(h) \/ WsJoin(h))
    <3>1. kind' = kind /\ pumps' = pumps /\ busy' = busy /\ pc'[h] \in {"join", "detach"}
      BY Zenon, <2>7 DEF WsCancel, WsJoin, goto, wsvars, Shape
    <3>q. QED BY Zenon, <3>1 DEF Listening, Claiming
  <2>q. QED BY Zenon, <1>7, <2>1, <2>2, <2>3, <2>4, <2>5, <2>6, <2>7 DEF WsStep
<1>q. QED BY Zenon, <1>1, <1>2, <1>3, <1>4, <1>5, <1>6, <1>7 DEF Next

\* Who waits in the out pipe owns down, so nobody else takes its interrupt.
LEMMA ListenerOwnsDown ==
    ASSUME Shape, Owned, Working, NEW h \in Handlers, Met(h), Listening(h)
    PROVE  slot["down"] = h
<1>1. CASE kind[h] = "batchDown" /\ pc[h] = "parked"
  BY Zenon, <1>1, CoveredIs DEF Owned, Holds, ServePlaces
<1>2. CASE kind[h] = "ws" /\ pc[h] \in Claiming
  BY Zenon, <1>2 DEF Met, Owned, Holds
<1>3. CASE kind[h] = "ws" /\ pc[h] = "serve"
  BY Zenon, <1>3, CoveredIs DEF Owned, Holds, ServePlaces
<1>4. CASE kind[h] = "ws" /\ "w" \in pumps[h]
  <2>1. pc[h] \in ServePlaces BY Zenon, <1>4 DEF Working, Doing, ServePlaces
  <2>q. QED BY <1>4, <2>1, CoveredIs DEF Owned, Holds
<1>q. QED BY <1>1, <1>2, <1>3, <1>4 DEF Listening

\* A pending interrupt stays until the handler it is for has seen it.
LEMMA InterruptStays ==
    ASSUME Shape, Owned, Working, [Next]_vars, NEW h \in Handlers,
           Met(h), Struck(h), Listening(h), Listening(h)', intr
    PROVE  intr'
<1>0. slot["down"] = h BY ListenerOwnsDown
<1>1. CASE UNCHANGED vars BY Zenon, <1>1 DEF vars
<1>2. ASSUME NEW g \in Handlers, AttachStep(g) PROVE intr'
  BY <1>2 DEF AttachStep, AttachRefused, AttachClaim, AttachTaken, Kick, Nudge, KickDone,
    KickTimeout, Detach, CloseDone, pipe
<1>3. ASSUME NEW g \in Handlers, ResumeStep(g) PROVE intr'
  BY Zenon, <1>3 DEF ResumeStep, BeginResume, KickAllSnapshot, KickAllNext, Rewind, EndResume, pipe
<1>4. ASSUME NEW g \in Handlers, PollStep(g) PROVE intr'
  <2>1. CASE PollInterrupted(g)
    <3>1. kind[g] = "poll" /\ pc[g] = "parked" BY Zenon, <2>1 DEF PollInterrupted
    <3>2. slot["down"] = g BY <3>1, CoveredIs DEF Owned, Holds, ServePlaces
    <3>q. QED BY <1>0, <3>1, <3>2 DEF Listening
  <2>2. CASE ~ PollInterrupted(g)
    BY <1>4, <2>2 DEF PollStep, PollStart, PollDue, PollEOF, PollWritten, WriteFails, pipe
  <2>q. QED BY Zenon, <2>1, <2>2
<1>5. ASSUME NEW g \in Handlers, UploadStep(g) PROVE intr'
  BY Zenon, <1>5 DEF UploadStep, SendStreamStart, FrameRead, ReadEnds, SendStreamFrame, Absorb, pipe
<1>6. ASSUME NEW g \in Handlers, BatchStep(g) PROVE intr'
  <2>1. CASE BatchDownWoken(g)
    <3>1. kind[g] = "batchDown" /\ pc[g] = "parked" /\ pc'[g] = "got" /\ kind' = kind
      BY Zenon, <2>1 DEF BatchDownWoken, goto, Shape
    <3>2. slot["down"] = g BY Zenon, <3>1, CoveredIs DEF Owned, Holds, ServePlaces
    <3>q. QED BY Zenon, <1>0, <3>1, <3>2 DEF Listening
  <2>2. CASE ~ BatchDownWoken(g)
    BY Zenon, <1>6, <2>2 DEF BatchStep, BatchUpStart, BatchUpApply, BatchDownStart, BatchDownReply,
      BatchClientGone, AfterFunc, Absorb, pipe
  <2>q. QED BY <2>1, <2>2
<1>7. ASSUME NEW g \in Handlers, WsStep(g) PROVE intr'
  <2>1. CASE WsInterrupted(g)
    <3>1. "w" \in pumps[g] /\ kind' = kind /\ pc' = pc BY <2>1 DEF WsInterrupted
    <3>2. pc[g] \in {"pumps", "join"} /\ kind[g] = "ws" BY Zenon, <3>1 DEF Working, Doing
    <3>3. slot["down"] = g BY <3>2, CoveredIs DEF Owned, Holds, ServePlaces
    <3>4. g = h /\ "ctx" \in dead[h] BY Zenon, <1>0, <3>2, <3>3 DEF Struck
    <3>5. "w" \notin pumps'[h] BY <2>1, <3>4 DEF WsInterrupted, endPump, Working
    <3>q. QED BY <3>1, <3>2, <3>4, <3>5 DEF Listening, Claiming
  <2>2. CASE ~ WsInterrupted(g)
    BY <1>7, <2>2 DEF WsStep, WsStart, WsFrame, WsReadEnds, WsDue, WsWritten, WsWriteEnds,
      WsCancel, WsJoin, Absorb, pipe
  <2>q. QED BY <2>1, <2>2
<1>q. QED BY Zenon, <1>1, <1>2, <1>3, <1>4, <1>5, <1>6, <1>7 DEF Next

\* Every step keeps what kicks have left behind.
LEMMA NextKicked == Shape /\ Owned /\ Working /\ Kicked /\ [Next]_vars => Kicked'
<1> SUFFICES ASSUME Shape, Owned, Working, Kicked, [Next]_vars PROVE Kicked' OBVIOUS
<1>1. \A g \in Handlers : Meets(g)' BY NextMeets DEF Kicked
<1>2. \A g \in Handlers : pc'[g] = "nudge" => Struck(old[g])' BY Zenon, NudgeStruck
<1>3. ASSUME NEW h \in kicked PROVE Met(h)' /\ Struck(h)' /\ (Listening(h)' => intr')
  <2>1. h \in Handlers BY DEF Working
  <2>2. Met(h) /\ Struck(h) /\ (Listening(h) => intr) BY Zenon DEF Kicked
  <2>3. Met(h)' BY <2>1, <2>2, MetStays
  <2>4. Struck(h)' BY <2>1, <2>2, StruckStays
  <2>5. Listening(h)' => intr' BY <2>1, <2>2, ListeningShrinks, InterruptStays
  <2>q. QED BY <2>3, <2>4, <2>5
<1>4. ASSUME NEW h \in kicked', h \notin kicked
      PROVE  Met(h)' /\ Struck(h)' /\ (Listening(h)' => intr')
  <2>1. PICK g \in Handlers : Nudge(g)
    BY <1>4 DEF Next, vars, AttachStep, AttachRefused, AttachClaim, AttachTaken, Kick, KickDone,
      KickTimeout, Detach, CloseDone, ResumeStep, BeginResume, KickAllSnapshot, KickAllNext,
      Rewind, EndResume, PollStep, PollStart, PollInterrupted, PollDue, PollEOF, PollWritten,
      WriteFails, UploadStep, SendStreamStart, FrameRead, ReadEnds, SendStreamFrame, BatchStep,
      BatchUpStart, BatchUpApply, BatchDownStart, BatchDownWoken, BatchDownReply,
      BatchClientGone, AfterFunc, WsStep, WsStart, WsFrame, WsReadEnds, WsInterrupted, WsDue,
      WsWritten, WsWriteEnds, WsCancel, WsJoin
  <2>2. h = old[g] /\ h \in Handlers /\ pc[g] = "nudge"
    BY Zenon, <1>4, <2>1 DEF Nudge, Shape, Role, Waiting
  <2>3. Met(h) /\ Struck(h) BY Zenon, <2>2 DEF Kicked, Meets, Waiting
  <2>4. Met(h)' BY Zenon, <2>2, <2>3, MetStays
  <2>5. Struck(h)' BY <2>2, <2>3, StruckStays
  <2>6. kind[h] # "sendStream" => intr' BY Zenon, <2>1, <2>2 DEF Nudge, interrupts
  <2>7. Listening(h)' => kind[h] # "sendStream" BY <2>1 DEF Nudge, Listening
  <2>q. QED BY <2>4, <2>5, <2>6, <2>7
<1>5. \A h \in kicked' : Met(h)' /\ Struck(h)' /\ (Listening(h)' => intr') BY Zenon, <1>3, <1>4
<1>q. QED BY Zenon, <1>1, <1>2, <1>5 DEF Kicked

-----------------------------------------------------------------------------
(* The theorems.                                                           *)

IInv == Shape /\ Owned /\ NotWaiting /\ Quiet /\ Working /\ Kicked

\* The inductive invariant holds of every reachable state of every session.
THEOREM Invariant == Spec => []IInv
<1>1. Init => IInv
  <2>1. Init => NotWaiting BY DEF Init, NotWaiting, Waiting
  <2>q. QED BY <2>1, InitShape, InitOwned, InitQuiet, InitKicked DEF IInv
<1>2. IInv /\ [Next]_vars => IInv'
  BY NextShape, NextOwned, NextNotWaiting, NextQuiet, NextWorking, NextKicked DEF IInv
<1>q. QED BY <1>1, <1>2, PTL DEF Spec

\* Who uses a direction is the owner of its slot.
LEMMA UserOwns ==
    ASSUME Shape, Owned, NEW h \in Handlers, NEW d \in Directions, Uses(h, d)
    PROVE  slot[d] = h
<1>1. kind[h] \in Kinds BY SessionsAssumption DEF Shape
<1>2. PICK i \in DOMAIN directions[kind[h]] : directions[kind[h]][i] = d BY DEF Uses
<1>3. d \in covered(kind[h])
  <2>1. CASE kind[h] \in {"poll", "batchDown"}
    <3>1. directions[kind[h]] = <<"down">> BY Zenon, <2>1, DirectionsOf
    <3>2. \A j \in DOMAIN <<"down">> : <<"down">>[j] = "down" OBVIOUS
    <3>3. d = "down" BY Zenon, <1>2, <3>1, <3>2
    <3>q. QED BY Zenon, <2>1, <3>3, CoveredIs
  <2>2. CASE kind[h] \in {"sendStream", "batchUp"}
    <3>1. directions[kind[h]] = <<"up">> BY Zenon, <2>2, DirectionsOf
    <3>2. \A j \in DOMAIN <<"up">> : <<"up">>[j] = "up" OBVIOUS
    <3>3. d = "up" BY Zenon, <1>2, <3>1, <3>2
    <3>q. QED BY Zenon, <2>2, <3>3, CoveredIs
  <2>3. CASE kind[h] = "ws" BY <2>3, CoveredIs DEF Directions
  <2>4. CASE kind[h] = "resume"
    <3>1. directions[kind[h]] = <<>> BY Zenon, <2>4, DirectionsOf
    <3>2. DOMAIN <<>> = {} OBVIOUS
    <3>q. QED BY Zenon, <1>2, <3>1, <3>2
  <2>q. QED BY Zenon, <1>1, <2>1, <2>2, <2>3, <2>4 DEF Kinds
<1>4. pc[h] \in ServePlaces BY DEF Uses, Serving, ServePlaces
<1>q. QED BY Zenon, <1>3, <1>4 DEF Owned, Holds

\* OneUser, for any number of requests: between attach and detach a direction
\* has one handler.
THEOREM OneUserPerDirection == Spec => []OneUser
<1>1. IInv => OneUser BY UserOwns DEF IInv, OneUser
<1>q. QED BY <1>1, Invariant, PTL

\* QuietResume: when kickAll has returned nil, nobody serves until endResume.
THEOREM ResumeIsQuiet == Spec => []QuietResume
<1>1. IInv => QuietResume
  <2> SUFFICES ASSUME IInv, NEW r \in Handlers, pc[r] = "rewind", NEW h \in Handlers
               PROVE  ~ Serving(h)
    BY DEF QuietResume
  <2>1. Shaking(r)
    BY Zenon DEF IInv, Shape, Role, Shaking, ResumePlaces, Claiming, ServePlaces
  <2>q. QED BY <2>1 DEF IInv, Quiet, Snapshotted, Serving, ServePlaces
<1>q. QED BY <1>1, Invariant, PTL

\* NoOrphan: whoever is in a slot has yet to run detach.
THEOREM DirectionsAreGivenBack == Spec => []NoOrphan
<1>1. IInv => NoOrphan
  <2> SUFFICES ASSUME IInv, NEW d \in Directions, slot[d] # None
               PROVE  pc[slot[d]] \notin {"close", "gone"}
    BY DEF NoOrphan
  <2>1. slot[d] \in Handlers BY DEF IInv, Shape
  <2>2. InSlot(d, slot[d]) BY <2>1 DEF IInv, Owned
  <2>q. QED BY <2>2 DEF InSlot, Claiming, ServePlaces
<1>q. QED BY <1>1, Invariant, PTL

\* NoHoldAndWait: kickAndWait is never called by an owner, so that there is no
\* circle of handlers waiting for each other, however many there are.
THEOREM NobodyHoldsAndWaits == Spec => []NoHoldAndWait
<1>1. IInv => NoHoldAndWait
  <2> SUFFICES ASSUME IInv, NEW h \in Handlers, pc[h] \in Waiting, isCurrent(h) PROVE FALSE
    BY DEF NoHoldAndWait, Waiting
  <2>1. PICK d \in Directions : slot[d] = h BY DEF isCurrent
  <2>2. InSlot(d, h) BY DEF IInv, Owned
  <2>3. ~ Halfway(h) BY DEF IInv, NotWaiting
  <2>q. QED BY <2>1, <2>2, <2>3 DEF InSlot, Waiting, ServePlaces
<1>q. QED BY <1>1, Invariant, PTL

\* ResumeFlag: beginResume and endResume let in one handshake at a time, and
\* the flag is down when there is none.
THEOREM OneResumeAtATime == Spec => []ResumeFlag
<1>1. IInv => ResumeFlag
  <2> SUFFICES ASSUME IInv PROVE ResumeFlag OBVIOUS
  <2> DEFINE S == {h \in Handlers : kind[h] = "resume" /\ pc[h] \notin {"resume", "gone"}}
  <2>1. \A h \in Handlers : h \in S <=> Shaking(h)
    BY DEF IInv, Shape, Role, Shaking, ResumePlaces
  <2>2. CASE resuming
    <3>1. PICK h \in Handlers : Shaking(h) BY <2>2 DEF IInv, Quiet, OneHandshake
    <3>2. S = {h} BY <2>1, <3>1 DEF IInv, Quiet, OneHandshake
    <3>3. Cardinality(S) = 1 BY Zenon, <3>2, FS_Singleton
    <3>q. QED BY <2>2, <3>3 DEF ResumeFlag
  <2>3. CASE ~resuming
    <3>1. S = {} BY <2>1, <2>3 DEF IInv, Quiet, OneHandshake
    <3>2. Cardinality(S) = 0 BY <3>1, FS_EmptySet
    <3>q. QED BY <2>3, <3>2 DEF ResumeFlag
  <2>q. QED BY <2>2, <2>3
<1>q. QED BY <1>1, Invariant, PTL

\* KickWakes: a batch request or a WebSocket whose kick has returned has no wait
\* left that nothing will end.
THEOREM KickReachesEveryWait == Spec => []KickWakes
<1>1. IInv => KickWakes
  <2> SUFFICES ASSUME IInv, NEW h \in kicked, kind[h] \in {"batchDown", "batchUp", "ws"}
               PROVE  Awake(h)
    BY DEF KickWakes
  <2>1. h \in Handlers BY DEF IInv, Working
  <2>2. Doing(h) BY <2>1 DEF IInv, Working
  <2>3. Struck(h) /\ (Listening(h) => intr) BY DEF IInv, Kicked
  <2>4. pc[h] = "parked" => intr BY <2>2, <2>3 DEF Doing, Listening
  <2>5. pc[h] = "reading" => "read" \in dead[h] BY Zenon, <2>2, <2>3 DEF Doing, Struck
  <2>6. pc[h] = "writing" => "write" \in dead[h] BY <2>2, <2>3 DEF Doing, Struck
  <2>7. pumps[h] # {} => "ctx" \in dead[h] BY <2>2, <2>3 DEF Doing, Struck
  <2>8. "w" \in pumps[h] /\ h \notin busy => intr BY <2>2, <2>3 DEF Doing, Listening
  <2>q. QED BY <2>4, <2>5, <2>6, <2>7, <2>8 DEF Awake
<1>q. QED BY <1>1, Invariant, PTL

\* The flags, which the invariant above only reads.
Flags == resuming \in BOOLEAN /\ intr \in BOOLEAN /\ received \in BOOLEAN /\ ackDue \in BOOLEAN

\* Every step keeps them Boolean.
LEMMA NextFlags == Flags /\ [Next]_vars => Flags'
<1> SUFFICES ASSUME Flags, [Next]_vars PROVE Flags' OBVIOUS
<1>1. CASE UNCHANGED vars BY Zenon, <1>1 DEF vars, Flags
<1>2. ASSUME NEW h, AttachStep(h) PROVE Flags'
  BY Zenon, <1>2 DEF AttachStep, AttachRefused, AttachClaim, AttachTaken, Kick, Nudge, KickDone,
    KickTimeout, Detach, CloseDone, pipe, ring, Flags, interrupts
<1>3. ASSUME NEW h, ResumeStep(h) PROVE Flags'
  BY Zenon, <1>3 DEF ResumeStep, BeginResume, KickAllSnapshot, KickAllNext, Rewind, EndResume,
    pipe, ring, Flags
<1>4. ASSUME NEW h, PollStep(h) PROVE Flags'
  BY Zenon, <1>4 DEF PollStep, PollStart, PollInterrupted, PollDue, PollEOF, PollWritten,
    WriteFails, pipe, ring, Flags
<1>5. ASSUME NEW h, UploadStep(h) PROVE Flags'
  BY Zenon, <1>5 DEF UploadStep, SendStreamStart, FrameRead, ReadEnds, SendStreamFrame, Absorb,
    pipe, ring, Flags
<1>6. ASSUME NEW h, BatchStep(h) PROVE Flags'
  BY Zenon, <1>6 DEF BatchStep, BatchUpStart, BatchUpApply, BatchDownStart, BatchDownWoken,
    BatchDownReply, BatchClientGone, AfterFunc, Absorb, pipe, ring, Flags
<1>7. ASSUME NEW h, WsStep(h) PROVE Flags'
  BY Zenon, <1>7 DEF WsStep, WsStart, WsFrame, WsReadEnds, WsInterrupted, WsDue, WsWritten,
    WsWriteEnds, WsCancel, WsJoin, Absorb, pipe, ring, Flags
<1>q. QED BY Zenon, <1>1, <1>2, <1>3, <1>4, <1>5, <1>6, <1>7 DEF Next

\* TypeOK: every variable stays in its type.
THEOREM TypeCorrect == Spec => []TypeOK
<1>1. Init => Flags BY Zenon DEF Init, Flags
<1>2. Spec => []Flags BY <1>1, NextFlags, PTL DEF Spec
<1>3. IInv /\ Flags => TypeOK
  <2> SUFFICES ASSUME IInv, Flags PROVE TypeOK OBVIOUS
  <2>1. done \subseteq Handlers BY DEF IInv, Quiet, LetGo
  <2>q. QED
    BY Zenon, <2>1 DEF IInv, Shape, Working, Flags, TypeOK, Places, Claiming, ServePlaces, ResumePlaces,
      Effects
<1>q. QED BY <1>2, <1>3, Invariant, PTL
=============================================================================
