---------------------------- MODULE TurnLanesProof ----------------------------
(***************************************************************************)
(* What the three lanes of a turn guarantee.  TeamsStream: for every       *)
(* choice of the timeouts that TimeAssumption admits and any number of     *)
(* texts.  ProgressDraft and ThinkingLane: for any number of drafts,       *)
(* changes, deltas, queries and failures.                                  *)
(***************************************************************************)
EXTENDS MCTurnLanes, TLAPS

Busy(s) == s.drain \in {"sending", "pacing"}
Publishes(s) == s.end \in {"plain", "final", "fallback"}

(* A call of end() has marked the session; a frame and a pause last no     *)
(* longer than they may.                                                   *)
ClockInv(s) ==
  /\ s.end # "no" \/ s.explicitCancel => s.ended
  /\ s.drain = "sending" => s.drainTime <= SendTimeout
  /\ s.drain = "pacing" => s.drainTime <= Pace

(* A stream that failed has no frame in flight; end() waits for one frame  *)
(* and one pause at most, since none is started once it was called.        *)
OrderInv(s) ==
  /\ Useless(s) => ~Busy(s) \/ s.explicitCancel
  /\ ~s.streaming => ~Busy(s)
  /\ Publishes(s) => ~Busy(s)
  /\ s.end = "draining" /\ s.drain = "sending" => s.endTime <= s.drainTime
  /\ s.end = "draining" /\ s.drain = "pacing" =>
       s.endTime <= SendTimeout + s.drainTime

(* Without an id the stream is given up.                                   *)
IdInv(s) ==
  /\ s.bootstrapSent => s.streamId \/ s.cancelled
  /\ s.drain = "sending" /\ s.bootstrapSent => s.streamId
  /\ s.end = "final" => s.streamId

SessionInv(s) == ClockInv(s) /\ OrderInv(s) /\ IdInv(s)

IInv == TypeOK /\ SessionInv(session) /\ LandsOrReported

-----------------------------------------------------------------------------
(* What the assumption says of the ranges.                                 *)
LEMMA Bounds ==
  /\ 0 \in Ticks /\ 0 \in Texts
  /\ SendTimeout \in Nat /\ Pace \in Nat /\ DrainWait \in Nat
  /\ SendTimeout + Pace < DrainWait
  /\ Texts \subseteq Nat /\ Ticks \subseteq Nat
BY TimeAssumption DEF Ticks, Texts

(* A session starts well: nothing sent, nothing promised.                  *)
THEOREM InitGood == Init => IInv
<1> SUFFICES ASSUME Init PROVE IInv
  OBVIOUS
<1>1. TypeOK
  BY Bounds DEF Init, TypeOK, Sessions, Wires
<1>2. SessionInv(session)
  BY DEF Init, SessionInv, ClockInv, OrderInv, IdInv, Useless, Busy, Publishes
<1>3. LandsOrReported
  BY DEF Init, LandsOrReported
<1> QED
  BY <1>1, <1>2, <1>3 DEF IInv

-----------------------------------------------------------------------------
(* The operators on sessions.                                              *)
(* The head of the loop starts a frame only for a live stream.            *)
LEMMA LoopHeadKeeps ==
  ASSUME NEW s \in Sessions, SessionInv(s), s.drain \in {"off", "pacing"},
         s.ended \/ (~s.cancelled /\ s.streaming)
  PROVE  LET y == LoopHead(s) IN
         /\ y \in Sessions /\ SessionInv(y)
<1>1. CASE ~s.pendingChunk \/ s.cancelled \/ s.ended
  <2> DEFINE y == [s EXCEPT !.drain = "over", !.drainTime = 0]
  <2>1. LoopHead(s) = y
    BY <1>1 DEF LoopHead
  <2>2. y \in Sessions
    BY Bounds DEF Sessions
  <2>3. SessionInv(y)
    BY DEF Sessions, SessionInv, ClockInv, OrderInv, IdInv, Useless, Busy, Publishes
  <2> QED
    BY <2>1, <2>2, <2>3
<1>2. CASE ~(~s.pendingChunk \/ s.cancelled \/ s.ended) /\ s.latestText = s.lastSent
  <2> DEFINE y == [s EXCEPT !.pendingChunk = FALSE, !.drain = "over", !.drainTime = 0]
  <2>1. LoopHead(s) = y
    BY <1>2 DEF LoopHead
  <2>2. y \in Sessions
    BY Bounds DEF Sessions
  <2>3. SessionInv(y)
    BY DEF Sessions, SessionInv, ClockInv, OrderInv, IdInv, Useless, Busy, Publishes
  <2> QED
    BY <2>1, <2>2, <2>3
<1>3. CASE ~(~s.pendingChunk \/ s.cancelled \/ s.ended) /\ s.latestText # s.lastSent
  <2> DEFINE y == [s EXCEPT !.pendingChunk = FALSE, !.frame = s.latestText,
                 !.drain = "sending", !.drainTime = 0]
  <2>1. LoopHead(s) = y
    BY <1>3 DEF LoopHead
  <2>2. y \in Sessions
    BY Bounds DEF Sessions
  <2>3. SessionInv(y)
    BY <1>3, Bounds DEF Sessions, SessionInv, ClockInv, OrderInv, IdInv, Useless, Busy, Publishes
  <2> QED
    BY <2>1, <2>2, <2>3
<1> QED
  BY <1>1, <1>2, <1>3

(* A text that is fed changes nothing of the calls in progress.            *)
LEMMA FedKeeps ==
  ASSUME NEW s \in Sessions, SessionInv(s), NEW text \in Texts
  PROVE  LET y == Fed(s, text) IN
         /\ y \in Sessions /\ SessionInv(y)
<1> DEFINE q == [s EXCEPT !.latestText = text]
           p == [q EXCEPT !.pendingChunk = TRUE]
<1>1. q \in Sessions /\ SessionInv(q)
  <2>1. q \in Sessions
    BY DEF Sessions
  <2>2. SessionInv(q)
    BY DEF Sessions, SessionInv, ClockInv, OrderInv, IdInv, Useless, Busy,
           Publishes
  <2> QED
    BY <2>1, <2>2
<1>2. p \in Sessions /\ SessionInv(p)
  <2>1. p \in Sessions
    BY DEF Sessions
  <2>2. SessionInv(p)
    BY DEF Sessions, SessionInv, ClockInv, OrderInv, IdInv, Useless, Busy,
           Publishes
  <2> QED
    BY <2>1, <2>2
<1>3. CASE s.ended \/ s.cancelled
  BY <1>3 DEF Fed
<1>4. CASE ~(s.ended \/ s.cancelled) /\ ~s.streaming
  BY <1>1, <1>4 DEF Fed
<1>5. CASE ~(s.ended \/ s.cancelled) /\ s.streaming
  <2>1. Fed(s, text) = IF q.drain = "off" THEN LoopHead(p) ELSE p
    BY <1>5 DEF Fed, ScheduleChunk
  <2>2. q.drain = p.drain /\ ~p.cancelled /\ p.streaming
    BY <1>5 DEF Sessions
  <2> HIDE DEF p, q
  <2>3. CASE q.drain = "off"
    BY <1>2, <2>1, <2>2, <2>3, LoopHeadKeeps
  <2>4. CASE q.drain # "off"
    BY <1>2, <2>1, <2>4
  <2> QED
    BY <2>3, <2>4
<1> QED
  BY <1>3, <1>4, <1>5

(* Returning from end().                                                   *)
LEMMA ReturnsKeeps ==
  ASSUME NEW s \in Sessions, SessionInv(s), s.ended
  PROVE  LET y == Returns(s) IN
         /\ y \in Sessions /\ SessionInv(y)
<1> DEFINE y == [s EXCEPT !.end = "returned", !.endTime = 0]
<1>1. y \in Sessions
  BY Bounds DEF Sessions
<1>2. SessionInv(y)
  BY DEF Sessions, SessionInv, ClockInv, OrderInv, IdInv, Useless, Busy,
           Publishes
<1> QED
  BY <1>1, <1>2 DEF Returns

(* Sending the reply: not beside a frame, and not as a final frame when    *)
(* there is no id.                                                         *)
LEMMA SendsKeeps ==
  ASSUME NEW s \in Sessions, SessionInv(s), s.ended,
         NEW how \in {"draining", "plain", "final", "fallback"},
         Busy(s) => how = "draining",
         how = "final" => s.streamId
  PROVE  LET y == Sends(s, how) IN
         /\ y \in Sessions /\ SessionInv(y)
<1> DEFINE y == [s EXCEPT !.end = how, !.endTime = 0]
<1>1. y \in Sessions
  BY Bounds DEF Sessions
<1>2. SessionInv(y)
  BY Bounds DEF Sessions, SessionInv, ClockInv, OrderInv, IdInv, Useless, Busy,
           Publishes
<1> QED
  BY <1>1, <1>2 DEF Sends

LEMMA AfterDrainKeeps ==
  ASSUME NEW s \in Sessions, SessionInv(s), s.ended, ~Busy(s)
  PROVE  LET y == AfterDrain(s) IN
         /\ y \in Sessions /\ SessionInv(y)
         /\ y.end = "returned" => y.explicitCancel
<1>1. CASE s.explicitCancel
  <2>1. AfterDrain(s) = Returns(s)
    BY <1>1 DEF AfterDrain
  <2>2. Returns(s).explicitCancel
    BY <1>1 DEF Returns, Sessions
  <2> QED
    BY <2>1, <2>2, ReturnsKeeps
<1>2. CASE ~s.explicitCancel
  <2> DEFINE how == IF Useless(s) \/ ~s.streamId THEN "plain" ELSE "final"
  <2>1. AfterDrain(s) = Sends(s, how)
    BY <1>2 DEF AfterDrain
  <2>2. how \in {"plain", "final"} /\ (how = "final" => s.streamId)
    OBVIOUS
  <2> HIDE DEF how
  <2>3. Sends(s, how).end = how
    BY DEF Sends, Sessions
  <2>4. Sends(s, how) \in Sessions /\ SessionInv(Sends(s, how))
    BY <2>2, SendsKeeps
  <2> QED
    BY <2>1, <2>2, <2>3, <2>4
<1> QED
  BY <1>1, <1>2

LEMMA ReplyFailedKeeps ==
  ASSUME NEW s \in Sessions, SessionInv(s), Publishes(s)
  PROVE  LET y == ReplyFailed(s) IN
         /\ y \in Sessions /\ SessionInv(y)
         /\ y.end = "returned" => y.deliveryFailed
<1>1. s.ended /\ ~Busy(s)
  BY DEF Sessions, SessionInv, ClockInv, OrderInv, IdInv, Useless, Busy,
           Publishes
<1>2. CASE s.end = "final"
  <2>1. ReplyFailed(s) = Sends(s, "fallback")
    BY <1>2 DEF ReplyFailed
  <2>2. Sends(s, "fallback").end = "fallback"
    BY DEF Sends, Sessions
  <2>3. Sends(s, "fallback") \in Sessions /\ SessionInv(Sends(s, "fallback"))
    BY <1>1, SendsKeeps
  <2> QED
    BY <2>1, <2>2, <2>3
<1>3. CASE s.end # "final"
  <2> DEFINE q == [s EXCEPT !.deliveryFailed = TRUE]
  <2>1. q \in Sessions
    BY DEF Sessions
  <2>2. SessionInv(q) /\ q.ended /\ q.deliveryFailed
    BY <1>1 DEF Sessions, SessionInv, ClockInv, OrderInv, IdInv, Useless, Busy,
           Publishes
  <2>3. ReplyFailed(s) = Returns(q)
    BY <1>3 DEF ReplyFailed
  <2> HIDE DEF q
  <2>4. Returns(q).deliveryFailed
    BY <2>1, <2>2 DEF Returns, Sessions
  <2> QED
    BY <2>1, <2>2, <2>3, <2>4, ReturnsKeeps
<1> QED
  BY <1>2, <1>3

-----------------------------------------------------------------------------
(* The steps.                                                              *)

LEMMA Together ==
  ASSUME session' \in Sessions, SessionInv(session'), wire' \in Wires,
         LandsOrReported'
  PROVE  IInv'
BY DEF IInv, TypeOK, SessionInv, ClockInv, OrderInv, IdInv, Useless, Busy,
           Publishes

(* A step of the session that leaves the wire alone, and returns from no   *)
(* end() but rightly.                                                      *)
LEMMA OnlySession ==
  ASSUME IInv, UNCHANGED wire,
         session' \in Sessions, SessionInv(session'),
         session.end = "returned" => session'.end = "returned",
         session'.end = "returned" =>
           \/ session.end = "returned"
           \/ session'.deliveryFailed
           \/ session'.explicitCancel \/ session'.userCancelled,
         session.deliveryFailed => session'.deliveryFailed,
         session.explicitCancel => session'.explicitCancel,
         session.userCancelled => session'.userCancelled
  PROVE  IInv'
<1>1. wire' \in Wires
  BY DEF IInv, TypeOK
<1>2. LandsOrReported'
  BY DEF IInv, LandsOrReported
<1> QED
  BY <1>1, <1>2, Together

(* Feeding a text touches nothing that a call of end() has settled.        *)
LEMMA FedLeaves ==
  ASSUME NEW s \in Sessions, NEW text \in Texts
  PROVE  LET y == Fed(s, text) IN
         /\ y.end = s.end /\ y.deliveryFailed = s.deliveryFailed
         /\ y.explicitCancel = s.explicitCancel
         /\ y.userCancelled = s.userCancelled
BY DEF Fed, ScheduleChunk, LoopHead, Sessions

LEMMA LoopHeadLeaves ==
  ASSUME NEW s \in Sessions
  PROVE  LET y == LoopHead(s) IN
         /\ y.end = s.end /\ y.deliveryFailed = s.deliveryFailed
         /\ y.explicitCancel = s.explicitCancel
         /\ y.userCancelled = s.userCancelled
BY DEF LoopHead, Sessions

(* A new text, which the wire only counts.                                 *)
LEMMA Counted ==
  ASSUME IInv, wire.given < MaxTexts PROVE NewText \in Texts
BY TimeAssumption DEF IInv, TypeOK, Wires, Texts, NewText

LEMMA ChunkStep ==
  ASSUME IInv, Chunk PROVE IInv'
<1>1. wire.given < MaxTexts /\ session' = Fed(session, NewText)
  BY DEF Chunk
<1>2. NewText \in Texts
  BY <1>1, Counted
<1>3. wire' \in Wires /\ wire'.landed = wire.landed
  <2>1. wire' = [wire EXCEPT !.given = NewText]
    BY DEF Chunk, NewText
  <2> QED
    BY <1>2, <2>1 DEF IInv, TypeOK, Wires
<1>4. session \in Sessions /\ SessionInv(session)
  BY DEF IInv, TypeOK
<1>5. session' \in Sessions /\ SessionInv(session')
  BY <1>1, <1>2, <1>4, FedKeeps
<1>6. LandsOrReported'
  BY <1>1, <1>2, <1>3, <1>4, FedLeaves DEF IInv, LandsOrReported
<1> QED
  BY <1>3, <1>5, <1>6, Together

LEMMA AppendThinkingStep ==
  ASSUME IInv, AppendThinking PROVE IInv'
<1> DEFINE T == IF session.phase = "thinking" THEN wire.trailing
                ELSE wire.trailing \cup {NewText}
<1>1. session \in Sessions /\ SessionInv(session)
  BY DEF IInv, TypeOK
<1>2. NewText \in Texts
  BY Counted DEF AppendThinking
<1>3. wire' \in Wires /\ wire'.landed = wire.landed
  <2>1. T \in SUBSET Texts
    BY <1>2 DEF IInv, TypeOK, Wires
  <2>2. wire' = [wire EXCEPT !.given = NewText, !.trailing = T]
    BY DEF AppendThinking, NewText
  <2> HIDE DEF T
  <2> QED
    BY <1>2, <2>1, <2>2 DEF IInv, TypeOK, Wires
<1>4. CASE session.phase = "thinking"
  <2>1. session' = Fed(session, NewText)
    BY <1>4 DEF AppendThinking
  <2>2. session' \in Sessions /\ SessionInv(session')
    BY <1>1, <1>2, <2>1, FedKeeps
  <2>3. LandsOrReported'
    BY <1>1, <1>2, <1>3, <2>1, FedLeaves DEF IInv, LandsOrReported
  <2> QED
    BY <1>3, <2>2, <2>3, Together
<1>5. CASE session.phase # "thinking"
  <2>1. session' = session
    BY <1>5 DEF AppendThinking
  <2>2. LandsOrReported'
    BY <1>3, <2>1 DEF IInv, LandsOrReported
  <2> QED
    BY <1>1, <1>3, <2>1, <2>2, Together
<1> QED
  BY <1>4, <1>5

LEMMA CommitAnswerStep ==
  ASSUME IInv, CommitAnswer PROVE IInv'
<1> DEFINE y == [session EXCEPT !.phase = "answer", !.latestText = 0,
                                !.lastSent = 0]
<1>1. session \in Sessions /\ SessionInv(session)
  BY DEF IInv, TypeOK
<1>2. session' = y /\ UNCHANGED wire
  BY DEF CommitAnswer
<1>3. y \in Sessions
  BY <1>1, Bounds DEF Sessions
<1>4. SessionInv(y)
  BY <1>1 DEF Sessions, SessionInv, ClockInv, OrderInv, IdInv, Useless, Busy,
           Publishes
<1>5. /\ y.end = session.end /\ y.deliveryFailed = session.deliveryFailed
      /\ y.explicitCancel = session.explicitCancel
      /\ y.userCancelled = session.userCancelled
  BY <1>1 DEF Sessions
<1> HIDE DEF y
<1> QED
  BY <1>2, <1>3, <1>4, <1>5, OnlySession

LEMMA DrainOverStep ==
  ASSUME IInv, DrainOver PROVE IInv'
<1> DEFINE y == [session EXCEPT !.drain = "off"]
<1>1. session \in Sessions /\ SessionInv(session)
  BY DEF IInv, TypeOK
<1>2. session' = y /\ UNCHANGED wire
  BY DEF DrainOver
<1>3. y \in Sessions
  BY <1>1 DEF Sessions
<1>4. SessionInv(y)
  BY <1>1 DEF Sessions, SessionInv, ClockInv, OrderInv, IdInv, Useless, Busy,
           Publishes
<1>5. /\ y.end = session.end /\ y.deliveryFailed = session.deliveryFailed
      /\ y.explicitCancel = session.explicitCancel
      /\ y.userCancelled = session.userCancelled
  BY <1>1 DEF Sessions
<1> HIDE DEF y
<1> QED
  BY <1>2, <1>3, <1>4, <1>5, OnlySession

LEMMA PaceOverStep ==
  ASSUME IInv, PaceOver PROVE IInv'
<1>1. session \in Sessions /\ SessionInv(session)
  BY DEF IInv, TypeOK
<1>2. session' = LoopHead(session) /\ UNCHANGED wire
  BY DEF PaceOver
<1>3. session.drain = "pacing"
  BY DEF PaceOver
<1>4. session.ended \/ (~session.cancelled /\ session.streaming)
  BY <1>1, <1>3 DEF Sessions, SessionInv, ClockInv, OrderInv, IdInv, Useless, Busy,
           Publishes
<1>5. session' \in Sessions /\ SessionInv(session')
  BY <1>1, <1>2, <1>3, <1>4, LoopHeadKeeps
<1> QED
  BY <1>1, <1>2, <1>5, LoopHeadLeaves, OnlySession

(* The bubble shows the acknowledged frame.                                *)
LEMMA ChunkAckedStep ==
  ASSUME IInv, NEW hasId \in BOOLEAN, ChunkAcked(hasId) PROVE IInv'
<1> DEFINE s == [session EXCEPT !.bootstrapSent = TRUE,
                                !.lastSent = session.frame, !.drainTime = 0]
           a == [s EXCEPT !.drain = "pacing"]
           b == [s EXCEPT !.drain = "pacing", !.streamId = TRUE]
           c == [s EXCEPT !.drain = "over", !.cancelled = TRUE]
<1>1. session \in Sessions /\ SessionInv(session)
  BY DEF IInv, TypeOK
<1>2. session.drain = "sending"
  BY DEF ChunkAcked
<1>3. session' = IF session.bootstrapSent THEN a ELSE IF hasId THEN b ELSE c
  BY DEF ChunkAcked
<1>4. wire' \in Wires /\ wire'.landed = wire.landed
  BY <1>1 DEF ChunkAcked, IInv, TypeOK, Wires, Sessions
<1>5. a \in Sessions /\ b \in Sessions /\ c \in Sessions
  BY <1>1, Bounds DEF Sessions
<1>6. session.bootstrapSent => SessionInv(a)
  BY <1>1, <1>2, Bounds DEF Sessions, SessionInv, ClockInv, OrderInv, IdInv, Useless, Busy,
           Publishes
<1>7. SessionInv(b)
  BY <1>1, <1>2, Bounds DEF Sessions, SessionInv, ClockInv, OrderInv, IdInv, Useless, Busy,
           Publishes
<1>8. SessionInv(c)
  BY <1>1, <1>2, Bounds DEF Sessions, SessionInv, ClockInv, OrderInv, IdInv, Useless, Busy,
           Publishes
<1>9. \A y \in {a, b, c} :
        /\ y.end = session.end /\ y.deliveryFailed = session.deliveryFailed
        /\ y.explicitCancel = session.explicitCancel
        /\ y.userCancelled = session.userCancelled
  BY <1>1 DEF Sessions
<1> HIDE DEF a, b, c
<1>10. session' \in {a, b, c}
  BY <1>3
<1>11. session' \in Sessions /\ SessionInv(session')
  BY <1>3, <1>5, <1>6, <1>7, <1>8
<1>12. LandsOrReported'
  BY <1>4, <1>9, <1>10 DEF IInv, LandsOrReported
<1> QED
  BY <1>4, <1>11, <1>12, Together

LEMMA ChunkRejectedStep ==
  ASSUME IInv, NEW why \in {"stop", "disabled", "other"}, ChunkRejected(why)
  PROVE  IInv'
<1> DEFINE stop == session.userCancelled \/ why = "stop"
           live == session.streaming /\ why # "disabled"
           gone == session.cancelled \/ why # "disabled"
<1>1. session \in Sessions /\ SessionInv(session)
  BY DEF IInv, TypeOK
<1>2. stop \in BOOLEAN /\ live \in BOOLEAN /\ gone \in BOOLEAN
  OBVIOUS
<1>3. session.drain = "sending" /\ UNCHANGED wire
  BY DEF ChunkRejected
<1>4. session.userCancelled => stop
  OBVIOUS
<1>5. session.cancelled => gone
  OBVIOUS
<1> DEFINE y == [session EXCEPT !.drain = "over", !.drainTime = 0,
                                !.userCancelled = stop, !.streaming = live,
                                !.cancelled = gone]
<1>6. session' = y
  BY DEF ChunkRejected
<1> HIDE DEF stop, live, gone
<1>7. y \in Sessions
  BY <1>1, <1>2, Bounds DEF Sessions
<1>8. SessionInv(y)
  BY <1>1, <1>3, <1>5, Bounds DEF Sessions, SessionInv, ClockInv, OrderInv, IdInv, Useless, Busy,
           Publishes
<1>9. /\ y.end = session.end /\ y.deliveryFailed = session.deliveryFailed
      /\ y.explicitCancel = session.explicitCancel
      /\ y.userCancelled = stop
  BY <1>1 DEF Sessions
<1> HIDE DEF y
<1> QED
  BY <1>3, <1>4, <1>6, <1>7, <1>8, <1>9, OnlySession

LEMMA ChunkTimedOutStep ==
  ASSUME IInv, ChunkTimedOut PROVE IInv'
<1> DEFINE y == [session EXCEPT !.drain = "over", !.drainTime = 0,
                                !.cancelled = TRUE]
<1>1. session \in Sessions /\ SessionInv(session)
  BY DEF IInv, TypeOK
<1>2. session' = y /\ UNCHANGED wire
  BY DEF ChunkTimedOut
<1>3. y \in Sessions
  BY <1>1, Bounds DEF Sessions
<1>4. SessionInv(y)
  BY <1>1 DEF Sessions, SessionInv, ClockInv, OrderInv, IdInv, Useless, Busy,
           Publishes
<1>5. /\ y.end = session.end /\ y.deliveryFailed = session.deliveryFailed
      /\ y.explicitCancel = session.explicitCancel
      /\ y.userCancelled = session.userCancelled
  BY <1>1 DEF Sessions
<1> HIDE DEF y
<1> QED
  BY <1>2, <1>3, <1>4, <1>5, OnlySession

LEMMA EndStep ==
  ASSUME IInv, End PROVE IInv'
<1> DEFINE s == [session EXCEPT !.ended = TRUE, !.phase = "ended",
                                !.latestText = wire.given]
<1>1. session \in Sessions /\ SessionInv(session)
  BY DEF IInv, TypeOK
<1>2. ~session.ended /\ UNCHANGED wire
  BY DEF End
<1>3. session' =
        IF s.explicitCancel \/ s.userCancelled THEN Returns(s)
        ELSE IF Useless(s) THEN Sends(s, "plain")
        ELSE IF s.drain = "off" THEN AfterDrain(s)
        ELSE Sends(s, "draining")
  BY DEF End
<1>4. s \in Sessions
  BY <1>1 DEF IInv, TypeOK, Wires, Sessions
<1>5. SessionInv(s) /\ s.ended
  BY <1>1, <1>2 DEF Sessions, SessionInv, ClockInv, OrderInv, IdInv, Useless, Busy,
           Publishes
<1>6. session.end # "returned" /\ ~session.explicitCancel
  BY <1>1, <1>2 DEF Sessions, SessionInv, ClockInv, OrderInv, IdInv, Useless, Busy,
           Publishes
<1>7. /\ s.deliveryFailed = session.deliveryFailed
      /\ s.userCancelled = session.userCancelled
  BY <1>1 DEF Sessions
<1> HIDE DEF s
<1>8. CASE s.explicitCancel \/ s.userCancelled
  <2>1. session' = Returns(s)
    BY <1>3, <1>8
  <2>2. /\ session'.explicitCancel = s.explicitCancel
        /\ session'.userCancelled = s.userCancelled
        /\ session'.deliveryFailed = s.deliveryFailed
    BY <1>4, <2>1 DEF Returns, Sessions
  <2> QED
    BY <1>2, <1>4, <1>5, <1>6, <1>7, <1>8, <2>1, <2>2, ReturnsKeeps, OnlySession
<1>9. CASE ~(s.explicitCancel \/ s.userCancelled) /\ Useless(s)
  <2>1. session' = Sends(s, "plain")
    BY <1>3, <1>9
  <2>2. ~Busy(s)
    BY <1>4, <1>5, <1>9 DEF Sessions, SessionInv, ClockInv, OrderInv, IdInv, Useless, Busy,
           Publishes
  <2>3. session' \in Sessions /\ SessionInv(session')
    BY <1>4, <1>5, <2>1, <2>2, SendsKeeps
  <2>4. /\ session'.end = "plain"
        /\ session'.userCancelled = s.userCancelled
        /\ session'.deliveryFailed = s.deliveryFailed
    BY <1>4, <2>1 DEF Sends, Sessions
  <2> QED
    BY <1>2, <1>6, <1>7, <2>3, <2>4, OnlySession
<1>10. CASE /\ ~(s.explicitCancel \/ s.userCancelled) /\ ~Useless(s)
            /\ s.drain = "off"
  <2>1. session' = AfterDrain(s)
    BY <1>3, <1>10
  <2>2. /\ session' \in Sessions /\ SessionInv(session')
        /\ session'.end = "returned" => session'.explicitCancel
    BY <1>4, <1>5, <1>10, <2>1, AfterDrainKeeps DEF Busy
  <2>3. /\ session'.userCancelled = s.userCancelled
        /\ session'.deliveryFailed = s.deliveryFailed
    BY <1>4, <2>1 DEF AfterDrain, Sends, Returns, Sessions
  <2> QED
    BY <1>2, <1>6, <1>7, <2>2, <2>3, OnlySession
<1>11. CASE /\ ~(s.explicitCancel \/ s.userCancelled) /\ ~Useless(s)
            /\ s.drain # "off"
  <2>1. session' = Sends(s, "draining")
    BY <1>3, <1>11
  <2>2. session' \in Sessions /\ SessionInv(session')
    BY <1>4, <1>5, <2>1, SendsKeeps
  <2>3. /\ session'.end = "draining"
        /\ session'.userCancelled = s.userCancelled
        /\ session'.deliveryFailed = s.deliveryFailed
    BY <1>4, <2>1 DEF Sends, Sessions
  <2> QED
    BY <1>2, <1>6, <1>7, <2>2, <2>3, OnlySession
<1> QED
  BY <1>8, <1>9, <1>10, <1>11

(* The wait outlasts a frame and a pause, so it ends with the loop.        *)
LEMMA EndDrainedStep ==
  ASSUME IInv, EndDrained PROVE IInv'
<1>1. session \in Sessions /\ SessionInv(session)
  BY DEF IInv, TypeOK
<1>2. /\ session.end = "draining" /\ UNCHANGED wire
      /\ session' = AfterDrain(session)
  BY DEF EndDrained
<1>3. ~Busy(session) /\ session.ended
  <2>1. session.ended
    BY <1>1, <1>2 DEF Sessions, SessionInv, ClockInv, OrderInv, IdInv, Useless, Busy,
           Publishes
  <2>2. CASE session.drain = "off"
    BY <2>1, <2>2 DEF Busy
  <2>3. CASE session.endTime = DrainWait
    <3>1. session.drainTime \in Nat
      BY <1>1, Bounds DEF Sessions
    <3>2. session.drain # "sending"
      BY <1>1, <1>2, <2>3, <3>1, Bounds DEF SessionInv, ClockInv, OrderInv
    <3>3. session.drain # "pacing"
      BY <1>1, <1>2, <2>3, <3>1, Bounds DEF SessionInv, ClockInv, OrderInv
    <3> QED
      BY <2>1, <3>2, <3>3 DEF Busy
  <2> QED
    BY <2>2, <2>3 DEF EndDrained
<1>4. /\ session' \in Sessions /\ SessionInv(session')
      /\ session'.end = "returned" => session'.explicitCancel
  BY <1>1, <1>2, <1>3, AfterDrainKeeps
<1>5. /\ session'.userCancelled = session.userCancelled
      /\ session'.deliveryFailed = session.deliveryFailed
      /\ session'.explicitCancel = session.explicitCancel
  BY <1>1, <1>2 DEF AfterDrain, Sends, Returns, Sessions
<1> QED
  BY <1>2, <1>4, <1>5, OnlySession

LEMMA ReplyAckedStep ==
  ASSUME IInv, ReplyAcked PROVE IInv'
<1>1. session \in Sessions /\ SessionInv(session)
  BY DEF IInv, TypeOK
<1>2. session' = Returns(session) /\ Publishes(session)
  BY DEF ReplyAcked, Sending, Publishes
<1>3. session.ended
  BY <1>1, <1>2 DEF Sessions, SessionInv, ClockInv, OrderInv, IdInv, Useless, Busy,
           Publishes
<1>4. session' \in Sessions /\ SessionInv(session')
  BY <1>1, <1>2, <1>3, ReturnsKeeps
<1>5. wire' \in Wires /\ wire'.landed
  BY DEF ReplyAcked, IInv, TypeOK, Wires
<1>6. LandsOrReported'
  BY <1>5 DEF LandsOrReported
<1> QED
  BY <1>4, <1>5, <1>6, Together

(* A reply that fails, whatever the reason.                                *)
LEMMA Failing ==
  ASSUME IInv, Publishes(session), session' = ReplyFailed(session),
         UNCHANGED wire
  PROVE  IInv'
<1>1. session \in Sessions /\ SessionInv(session)
  BY DEF IInv, TypeOK
<1>2. /\ session' \in Sessions /\ SessionInv(session')
      /\ session'.end = "returned" => session'.deliveryFailed
  BY <1>1, ReplyFailedKeeps
<1>3. session.end # "returned"
  BY DEF Publishes
<1>4. /\ session'.userCancelled = session.userCancelled
      /\ session.deliveryFailed => session'.deliveryFailed
      /\ session'.explicitCancel = session.explicitCancel
  BY <1>1 DEF ReplyFailed, Sends, Returns, Sessions
<1> QED
  BY <1>2, <1>3, <1>4, OnlySession

LEMMA CancelStep ==
  ASSUME IInv, Cancel PROVE IInv'
<1> DEFINE y == [session EXCEPT !.cancel = "settling", !.cancelTime = 0]
<1>1. session \in Sessions /\ SessionInv(session)
  BY DEF IInv, TypeOK
<1>2. session' = y /\ UNCHANGED wire
  BY DEF Cancel
<1>3. y \in Sessions
  BY <1>1, Bounds DEF Sessions
<1>4. SessionInv(y)
  BY <1>1 DEF Sessions, SessionInv, ClockInv, OrderInv, IdInv, Useless, Busy,
           Publishes
<1>5. /\ y.end = session.end /\ y.deliveryFailed = session.deliveryFailed
      /\ y.explicitCancel = session.explicitCancel
      /\ y.userCancelled = session.userCancelled
  BY <1>1 DEF Sessions
<1> HIDE DEF y
<1> QED
  BY <1>2, <1>3, <1>4, <1>5, OnlySession

LEMMA CancelSettledStep ==
  ASSUME IInv, CancelSettled PROVE IInv'
<1> DEFINE s == [session EXCEPT !.cancel = "returned", !.cancelTime = 0]
           y == [s EXCEPT !.explicitCancel = TRUE, !.cancelled = TRUE,
                          !.ended = TRUE, !.phase = "ended",
                          !.pendingChunk = FALSE]
<1>1. session \in Sessions /\ SessionInv(session)
  BY DEF IInv, TypeOK
<1>2. session' = (IF Useless(s) THEN s ELSE y) /\ UNCHANGED wire
  BY DEF CancelSettled
<1>3. s \in Sessions /\ y \in Sessions
  BY <1>1, Bounds DEF Sessions
<1>4. SessionInv(s)
  BY <1>1 DEF Sessions, SessionInv, ClockInv, OrderInv, IdInv, Useless, Busy,
           Publishes
<1>5. SessionInv(y)
  BY <1>1 DEF Sessions, SessionInv, ClockInv, OrderInv, IdInv, Useless, Busy,
           Publishes
<1>6. /\ s.end = session.end /\ s.deliveryFailed = session.deliveryFailed
      /\ s.explicitCancel = session.explicitCancel
      /\ s.userCancelled = session.userCancelled
  BY <1>1 DEF Sessions
<1>7. /\ y.end = session.end /\ y.deliveryFailed = session.deliveryFailed
      /\ y.explicitCancel /\ y.userCancelled = session.userCancelled
  BY <1>1 DEF Sessions
<1> HIDE DEF s, y
<1> QED
  BY <1>2, <1>3, <1>4, <1>5, <1>6, <1>7, OnlySession

LEMMA PressStopStep ==
  ASSUME IInv, PressStop PROVE IInv'
<1>1. session' = session /\ wire' = [wire EXCEPT !.stopped = TRUE]
  BY DEF PressStop
<1>2. wire' \in Wires /\ wire'.landed = wire.landed
  BY <1>1 DEF IInv, TypeOK, Wires
<1>3. LandsOrReported'
  BY <1>1, <1>2 DEF IInv, LandsOrReported
<1> QED
  BY <1>1, <1>2, <1>3, Together DEF IInv, TypeOK

(* Time passes for all waits at once, and past none of them.               *)
LEMMA TickStep ==
  ASSUME IInv, Tick PROVE IInv'
<1> DEFINE d == Ticking(session.drain \in {"sending", "pacing"},
                        session.drainTime)
           e == Ticking(session.end = "draining" \/ Sending, session.endTime)
           c == Ticking(session.cancel = "settling", session.cancelTime)
           y == [session EXCEPT !.drainTime = d, !.endTime = e,
                                !.cancelTime = c]
<1>1. session \in Sessions /\ SessionInv(session)
  BY DEF IInv, TypeOK
<1>2. session' = y /\ UNCHANGED wire /\ Patient
  BY DEF Tick
<1>3. /\ session.drainTime \in Ticks /\ session.endTime \in Ticks
      /\ session.cancelTime \in Ticks
  BY <1>1 DEF Sessions
<1>4. /\ session.drain = "sending" =>
            d = session.drainTime + 1 /\ d <= SendTimeout
      /\ session.drain = "pacing" => d = session.drainTime + 1 /\ d <= Pace
      /\ ~Busy(session) => d = session.drainTime
  BY <1>2, <1>3, Bounds DEF Patient, Ticking, Busy
<1>5. d \in Ticks
  BY <1>2, <1>3, TimeAssumption DEF Patient, Ticking, Ticks
<1>6. session.end = "draining" => e = session.endTime + 1
  BY DEF Ticking
<1>7. e \in Ticks
  BY <1>2, <1>3, TimeAssumption DEF Patient, Ticking, Ticks
<1>8. c \in Ticks
  BY <1>2, <1>3, TimeAssumption DEF Patient, Ticking, Ticks
<1> HIDE DEF d, e, c
<1>9. y \in Sessions
  BY <1>1, <1>5, <1>7, <1>8 DEF Sessions
<1>10. /\ y.drainTime = d /\ y.endTime = e /\ y.drain = session.drain
       /\ y.end = session.end /\ y.ended = session.ended
       /\ y.deliveryFailed = session.deliveryFailed
       /\ y.explicitCancel = session.explicitCancel
       /\ y.userCancelled = session.userCancelled
       /\ y.cancelled = session.cancelled /\ y.streaming = session.streaming
       /\ y.streamId = session.streamId
       /\ y.bootstrapSent = session.bootstrapSent
  BY <1>1 DEF Sessions
<1> HIDE DEF y
<1>11. ClockInv(y)
  BY <1>1, <1>4, <1>10 DEF SessionInv, ClockInv
<1>12. OrderInv(y)
  <2>1. /\ Useless(y) => ~Busy(y) \/ y.explicitCancel
        /\ ~y.streaming => ~Busy(y)
        /\ Publishes(y) => ~Busy(y)
    BY <1>1, <1>10 DEF SessionInv, OrderInv, Useless, Busy, Publishes
  <2>2. session.drainTime \in Nat /\ session.endTime \in Nat
    BY <1>3, Bounds
  <2>3. ASSUME y.end = "draining", y.drain = "sending"
        PROVE  y.endTime <= y.drainTime
    <3>1. session.endTime <= session.drainTime
      BY <1>1, <1>10, <2>3 DEF SessionInv, OrderInv
    <3>2. d = session.drainTime + 1 /\ e = session.endTime + 1
      BY <1>4, <1>6, <1>10, <2>3
    <3> QED
      BY <1>10, <2>2, <3>1, <3>2
  <2>4. ASSUME y.end = "draining", y.drain = "pacing"
        PROVE  y.endTime <= SendTimeout + y.drainTime
    <3>1. session.endTime <= SendTimeout + session.drainTime
      BY <1>1, <1>10, <2>4 DEF SessionInv, OrderInv
    <3>2. d = session.drainTime + 1 /\ e = session.endTime + 1
      BY <1>4, <1>6, <1>10, <2>4
    <3> QED
      BY <1>10, <2>2, <3>1, <3>2, Bounds
  <2> QED
    BY <2>1, <2>3, <2>4 DEF OrderInv
<1>13. IdInv(y)
  BY <1>1, <1>10 DEF SessionInv, IdInv
<1>14. SessionInv(y)
  BY <1>11, <1>12, <1>13 DEF SessionInv
<1> QED
  BY <1>2, <1>9, <1>10, <1>14, OnlySession

-----------------------------------------------------------------------------
(* Every step of the dispatcher, the loop, the service, the user and time  *)
(* keeps the invariant.                                                    *)
THEOREM StepGood == IInv /\ [Next]_vars => IInv'
<1> SUFFICES ASSUME IInv, [Next]_vars PROVE IInv'
  OBVIOUS
<1>1. CASE UNCHANGED vars
  BY <1>1 DEF vars, IInv, TypeOK, LandsOrReported, SessionInv, ClockInv,
              OrderInv, IdInv, Useless, Busy, Publishes
<1>2. ASSUME ReplyRejected \/ ReplyTimedOut PROVE IInv'
  BY <1>2, Failing DEF ReplyRejected, ReplyTimedOut, Sending, Publishes
<1> QED
  BY <1>1, <1>2, ChunkStep, AppendThinkingStep, CommitAnswerStep, EndStep,
     CancelStep, ChunkAckedStep, ChunkRejectedStep, ReplyAckedStep,
     PressStopStep, DrainOverStep, PaceOverStep, ChunkTimedOutStep,
     EndDrainedStep, CancelSettledStep, TickStep
  DEF Next, Proceed

(* IInv holds of every reachable state.                                    *)
THEOREM Invariance == Spec => []IInv
<1>1. Init => IInv
  BY InitGood
<1>2. IInv /\ [Next]_vars => IInv'
  BY StepGood
<1> QED
  BY <1>1, <1>2, PTL DEF Spec

(* The session keeps its types: no wait lasts longer than DrainWait, and   *)
(* no frame or reply beyond its timeout.                                   *)
THEOREM TypeCorrect == Spec => []TypeOK
<1>1. IInv => TypeOK
  BY DEF IInv
<1> QED
  BY <1>1, Invariance, PTL

(* end() publishes behind the last frame: its wait for the drain loop,     *)
(* DRAIN_WAIT_TIMEOUT_MS, outlasts one frame and one pause, and once end() *)
(* was called the loop starts no other.                                    *)
THEOREM OrderKept == Spec => []InOrder
<1>1. IInv => InOrder
  BY DEF IInv, SessionInv, OrderInv, Publishes, Busy, InOrder, Sending
<1> QED
  BY <1>1, Invariance, PTL

(* ... and whatever answers the service gives, no frame but the first goes *)
(* out without the id of the stream.                                       *)
THEOREM StreamKept == Spec => []OneStream
<1>1. IInv => InOrder
  BY DEF IInv, SessionInv, OrderInv, Publishes, Busy, InOrder, Sending
<1>2. IInv => BoundToStream
  BY DEF IInv, SessionInv, IdInv, BoundToStream
<1>3. IInv => OneStream
  BY <1>1, <1>2 DEF OneStream
<1> QED
  BY <1>3, Invariance, PTL

(* A reply end() was called with lands, or is reported as failed, or was   *)
(* not wanted any more.                                                    *)
THEOREM RepliesAccounted == Spec => []LandsOrReported
<1>1. IInv => LandsOrReported
  BY DEF IInv
<1> QED
  BY <1>1, Invariance, PTL

-----------------------------------------------------------------------------
(* What the user sees.                                                     *)

(* The latest text is at least as new as the frame, the frame as what the  *)
(* user sees, unless they are empty; and until end() takes the whole text, *)
(* neither is thinking that trails the answer.                             *)
BubbleInv(s, w) ==
  /\ {s.latestText, s.frame, w.bubble} \subseteq 0..w.given
  /\ w.trailing \subseteq 1..w.given
  /\ s.latestText # 0 => s.latestText >= s.frame /\ s.latestText >= w.bubble
  /\ s.frame # 0 => s.frame >= w.bubble
  /\ s.frame \notin w.trailing
  /\ ~s.ended => s.latestText \notin w.trailing

(* What it reads.                                                          *)
LEMMA BubbleSame ==
  ASSUME NEW s, NEW w, BubbleInv(s, w), NEW y, NEW z,
         y.latestText = s.latestText, y.frame = s.frame, s.ended => y.ended,
         s.ended \in BOOLEAN, y.ended \in BOOLEAN,
         z.bubble = w.bubble, z.given = w.given, z.trailing = w.trailing
  PROVE  BubbleInv(y, z)
BY DEF BubbleInv

(* The head of the loop takes the latest text for its frame, unless end()  *)
(* was called.                                                             *)
LEMMA LoopHeadFrame ==
  ASSUME NEW s \in Sessions
  PROVE  LET y == LoopHead(s) IN
         /\ y.latestText = s.latestText /\ y.ended = s.ended
         /\ y.frame = s.frame \/ (y.frame = s.latestText /\ ~s.ended)
<1>1. CASE ~s.pendingChunk \/ s.cancelled \/ s.ended
  BY <1>1 DEF LoopHead, Sessions
<1>2. CASE ~(~s.pendingChunk \/ s.cancelled \/ s.ended) /\ s.latestText = s.lastSent
  BY <1>2 DEF LoopHead, Sessions
<1>3. CASE ~(~s.pendingChunk \/ s.cancelled \/ s.ended) /\ s.latestText # s.lastSent
  BY <1>3 DEF LoopHead, Sessions
<1> QED BY <1>1, <1>2, <1>3

LEMMA LoopHeadBubble ==
  ASSUME NEW s \in Sessions, NEW w \in Wires, BubbleInv(s, w)
  PROVE  BubbleInv(LoopHead(s), w)
<1> DEFINE y == LoopHead(s)
<1>1. /\ y.latestText = s.latestText /\ y.ended = s.ended
      /\ y.frame = s.frame \/ (y.frame = s.latestText /\ ~s.ended)
  BY LoopHeadFrame
<1>2. /\ w.given \in Nat /\ w.bubble \in Nat /\ s.ended \in BOOLEAN
      /\ s.latestText \in Nat /\ s.frame \in Nat
  BY TimeAssumption DEF Wires, Texts, Sessions
<1> HIDE DEF y
<1>3. ASSUME y.frame = s.frame PROVE BubbleInv(y, w)
  BY <1>1, <1>2, <1>3 DEF BubbleInv
<1>4. ASSUME y.frame = s.latestText, ~s.ended PROVE BubbleInv(y, w)
  BY <1>1, <1>2, <1>4 DEF BubbleInv
<1>5. BubbleInv(y, w)
  BY <1>1, <1>2, <1>3, <1>4
<1> QED BY <1>5 DEF y

(* A new text is newer than all that was sent, and trails nothing.         *)
LEMMA FedBubble ==
  ASSUME NEW s \in Sessions, NEW w \in Wires, BubbleInv(s, w),
         w.given < MaxTexts
  PROVE  BubbleInv(Fed(s, w.given + 1), [w EXCEPT !.given = @ + 1])
<1> DEFINE t == w.given + 1
           x == [s EXCEPT !.latestText = t]
           p == [x EXCEPT !.pendingChunk = TRUE]
           v == [w EXCEPT !.given = t]
<1>1. /\ w.given \in Nat /\ w.bubble \in Nat /\ t \in Texts
      /\ s.frame \in Nat /\ s.latestText \in Nat
  BY TimeAssumption DEF Wires, Sessions, Texts
<1>2. t \in Nat /\ t > w.given
  BY <1>1
<1>3. v \in Wires /\ v.given = t /\ v.bubble = w.bubble
      /\ v.trailing = w.trailing
  BY <1>1 DEF Wires
<1>4. v = [w EXCEPT !.given = @ + 1]
  OBVIOUS
<1>5. \A i \in 0..w.given : i \in 0..t /\ i < t
  BY <1>1
<1>6. \A i \in 1..w.given : i \in 1..t /\ i # t
  BY <1>1
<1> HIDE DEF t, v
<1>7. BubbleInv(s, v)
  BY <1>1, <1>2, <1>3, <1>5, <1>6 DEF BubbleInv
<1>8. /\ p \in Sessions /\ p.latestText = t /\ p.frame = s.frame
      /\ p.ended = s.ended
  BY <1>1 DEF Sessions
<1>9. /\ x \in Sessions /\ x.latestText = t /\ x.frame = s.frame
      /\ x.ended = s.ended
  BY <1>1 DEF Sessions
<1>10. ASSUME NEW y \in Sessions, y.latestText = t, y.frame = s.frame
       PROVE  BubbleInv(y, v)
  <2>1. t \in 0..t /\ t >= s.frame /\ t >= w.bubble /\ t \notin w.trailing
    BY <1>1, <1>2, <1>5, <1>6 DEF BubbleInv
  <2> QED BY <1>3, <1>7, <1>10, <2>1 DEF BubbleInv
<1>11. BubbleInv(LoopHead(p), v)
  BY <1>3, <1>8, <1>10, LoopHeadBubble
<1>12. Fed(s, t) \in {s, x, p, LoopHead(p)}
  BY <1>9 DEF Fed, ScheduleChunk
<1>13. BubbleInv(Fed(s, t), v)
  BY <1>7, <1>8, <1>9, <1>10, <1>11, <1>12
<1> QED BY <1>4, <1>13 DEF t

LEMMA BubbleInit == Init => BubbleInv(session, wire)
<1> SUFFICES ASSUME Init PROVE BubbleInv(session, wire)
  OBVIOUS
<1>1. /\ session.latestText = 0 /\ session.frame = 0
      /\ wire.bubble = 0 /\ wire.given = 0 /\ wire.trailing = {}
  BY DEF Init
<1> QED BY <1>1 DEF BubbleInv

(* Steps that feed nothing and whose frame stays.                          *)
LEMMA QuietBubble ==
  ASSUME TypeOK, BubbleInv(session, wire),
         \/ DrainOver \/ ChunkTimedOut \/ EndDrained \/ Cancel \/ CancelSettled
         \/ ReplyAcked \/ ReplyRejected \/ ReplyTimedOut \/ PressStop \/ Tick
         \/ \E why \in {"stop", "disabled", "other"} : ChunkRejected(why)
         \/ UNCHANGED vars
  PROVE  BubbleInv(session', wire')
<1>1. session \in Sessions /\ wire \in Wires /\ session.ended \in BOOLEAN
  BY DEF TypeOK, Sessions
<1>2. /\ wire'.bubble = wire.bubble /\ wire'.given = wire.given
      /\ wire'.trailing = wire.trailing
  <2>1. CASE UNCHANGED wire
    BY <2>1
  <2>2. CASE ReplyAcked
    BY <1>1, <2>2 DEF ReplyAcked, Wires
  <2>3. CASE PressStop
    BY <1>1, <2>3 DEF PressStop, Wires
  <2> QED BY <2>1, <2>2, <2>3 DEF DrainOver, ChunkTimedOut, EndDrained, Cancel,
        CancelSettled, ReplyRejected, ReplyTimedOut, Tick, ChunkRejected, vars
<1>3. /\ session'.latestText = session.latestText
      /\ session'.frame = session.frame
      /\ session.ended => session'.ended
      /\ session'.ended \in BOOLEAN
  <2>1. CASE DrainOver
    BY <1>1, <2>1 DEF DrainOver, Sessions
  <2>2. CASE ChunkTimedOut
    BY <1>1, <2>2 DEF ChunkTimedOut, Sessions
  <2>3. CASE EndDrained
    BY <1>1, <2>3 DEF EndDrained, AfterDrain, Sends, Returns, Sessions
  <2>4. CASE Cancel
    BY <1>1, <2>4 DEF Cancel, Sessions
  <2>5. CASE CancelSettled
    BY <1>1, <2>5 DEF CancelSettled, Sessions
  <2>6. CASE ReplyAcked
    BY <1>1, <2>6 DEF ReplyAcked, Returns, Sessions
  <2>7. CASE ReplyRejected \/ ReplyTimedOut
    <3>1. CASE ReplyRejected
      BY <1>1, <3>1 DEF ReplyRejected, ReplyFailed, Sends, Returns, Sessions
    <3>2. CASE ReplyTimedOut
      BY <1>1, <3>2 DEF ReplyTimedOut, ReplyFailed, Sends, Returns, Sessions
    <3> QED
      BY <2>7, <3>1, <3>2
  <2>8. CASE PressStop \/ UNCHANGED vars
    BY <1>1, <2>8 DEF PressStop, vars
  <2>9. CASE Tick
    BY <1>1, <2>9 DEF Tick, Sessions
  <2>10. ASSUME NEW why \in {"stop", "disabled", "other"}, ChunkRejected(why)
         PROVE  /\ session'.latestText = session.latestText
                /\ session'.frame = session.frame
                /\ session'.ended = session.ended
    BY <1>1, <2>10 DEF ChunkRejected, Sessions
  <2> QED BY <1>1, <2>1, <2>2, <2>3, <2>4, <2>5, <2>6, <2>7, <2>8, <2>9, <2>10
<1> QED BY <1>1, <1>2, <1>3, BubbleSame

(* What a step shows the user: only an acknowledged frame does, and it is  *)
(* the one in flight.                                                      *)
LEMMA Shown ==
  ASSUME TypeOK, BubbleInv(session, wire), NEW hasId \in BOOLEAN,
         ChunkAcked(hasId)
  PROVE  BubbleInv(session', wire') /\ wire'.bubble = session.frame
<1>1. session \in Sessions /\ wire \in Wires
  BY DEF TypeOK
<1>2. /\ wire'.bubble = session.frame /\ wire'.given = wire.given
      /\ wire'.trailing = wire.trailing
  BY <1>1 DEF ChunkAcked, Wires
<1>3. /\ session'.latestText = session.latestText
      /\ session'.frame = session.frame /\ session'.ended = session.ended
  BY <1>1 DEF ChunkAcked, Sessions
<1>4. session.frame \in Nat
  BY <1>1, TimeAssumption DEF Sessions, Texts
<1>5. BubbleInv(session', wire')
  BY <1>2, <1>3, <1>4 DEF BubbleInv
<1> QED BY <1>2, <1>5

LEMMA BubbleStep ==
  ASSUME TypeOK, BubbleInv(session, wire), [Next]_vars
  PROVE  BubbleInv(session', wire')
<1>1. session \in Sessions /\ wire \in Wires
  BY DEF TypeOK
<1>2. wire.given \in Nat
  BY <1>1, TimeAssumption DEF Wires, Texts
<1>3. CASE Chunk
  BY <1>1, <1>3, FedBubble DEF Chunk, NewText
<1>4. CASE AppendThinking
  <2>1. CASE session.phase = "thinking"
    <3>1. /\ wire' = [wire EXCEPT !.given = @ + 1, !.trailing = @]
          /\ wire.given < MaxTexts
          /\ session' = Fed(session, wire.given + 1)
      BY <1>4, <2>1 DEF AppendThinking, NewText
    <3>2. wire' = [wire EXCEPT !.given = @ + 1]
      BY <1>1, <3>1 DEF Wires
    <3> QED BY <1>1, <3>1, <3>2, FedBubble
  <2>2. CASE session.phase # "thinking"
    <3> DEFINE t == wire.given + 1
    <3>1. /\ session' = session
          /\ wire' = [wire EXCEPT !.given = t, !.trailing = @ \cup {t}]
      BY <1>4, <2>2 DEF AppendThinking, NewText
    <3>2. /\ \A i \in 0..wire.given : i \in 0..t /\ i # t
          /\ \A i \in 1..wire.given : i \in 1..t
          /\ t \in 1..t
      BY <1>2
    <3> HIDE DEF t
    <3>3. /\ wire'.given = t /\ wire'.bubble = wire.bubble
          /\ wire'.trailing = wire.trailing \cup {t}
      BY <1>1, <3>1 DEF Wires
    <3> QED BY <3>1, <3>2, <3>3 DEF BubbleInv
  <2> QED BY <2>1, <2>2
<1>5. CASE CommitAnswer
  <2>1. /\ session'.latestText = 0 /\ session'.frame = session.frame
        /\ session'.ended = session.ended /\ wire' = wire
    BY <1>1, <1>5 DEF CommitAnswer, Sessions
  <2>2. 0 \in 0..wire.given /\ 0 \notin 1..wire.given
    BY <1>2
  <2> QED BY <2>1, <2>2 DEF BubbleInv
<1>6. CASE End
  <2>1. /\ session'.latestText = wire.given /\ session'.frame = session.frame
        /\ session'.ended /\ wire' = wire
    BY <1>1, <1>6 DEF End, AfterDrain, Sends, Returns, Sessions
  <2>2. /\ wire.given \in 0..wire.given
        /\ \A i \in 0..wire.given : wire.given >= i
    BY <1>2
  <2> QED BY <2>1, <2>2 DEF BubbleInv
<1>7. CASE PaceOver
  BY <1>1, <1>7, LoopHeadBubble DEF PaceOver
<1>8. ASSUME NEW hasId \in BOOLEAN, ChunkAcked(hasId)
      PROVE  BubbleInv(session', wire')
  BY <1>8, Shown
<1> QED BY <1>3, <1>4, <1>5, <1>6, <1>7, <1>8, QuietBubble DEF Next, Proceed

(* Only an acknowledged frame changes what the user sees.                  *)
LEMMA OnlyShown ==
  ASSUME TypeOK, [Next]_vars, ~\E hasId \in BOOLEAN : ChunkAcked(hasId)
  PROVE  wire'.bubble = wire.bubble
<1>1. wire \in Wires
  BY DEF TypeOK
<1>2. CASE UNCHANGED wire
  BY <1>2
<1>3. CASE Chunk
  BY <1>1, <1>3 DEF Chunk, Wires
<1>4. CASE AppendThinking
  BY <1>1, <1>4 DEF AppendThinking, Wires
<1>5. CASE ReplyAcked
  BY <1>1, <1>5 DEF ReplyAcked, Wires
<1>6. CASE PressStop
  BY <1>1, <1>6 DEF PressStop, Wires
<1> QED BY <1>2, <1>3, <1>4, <1>5, <1>6 DEF Next, Proceed, DrainOver, PaceOver,
      ChunkTimedOut, EndDrained, Cancel, CancelSettled, ReplyRejected,
      ReplyTimedOut, Tick, ChunkRejected, CommitAnswer, End, vars

(* Whatever frames are merged, paced, rejected or timed out, the user sees *)
(* newer and newer texts and no thinking that trails the answer.           *)
THEOREM NeverRegresses == Spec => BubbleNeverRegresses
<1>1. Init => BubbleInv(session, wire)
  BY BubbleInit
<1>2. TypeOK /\ BubbleInv(session, wire) /\ [Next]_vars
        => BubbleInv(session, wire)'
  BY BubbleStep
<1> DEFINE Shows == wire'.bubble # wire.bubble =>
              \/ wire'.bubble = 0
              \/ wire'.bubble > wire.bubble /\ wire'.bubble \notin wire.trailing
<1>3. ASSUME TypeOK, BubbleInv(session, wire), [Next]_vars PROVE Shows
  <2>1. wire.bubble \in Nat /\ session.frame \in Nat
    BY <1>3, TimeAssumption DEF TypeOK, Wires, Sessions, Texts
  <2>2. ASSUME NEW hasId \in BOOLEAN, ChunkAcked(hasId) PROVE Shows
    <3>1. wire'.bubble = session.frame
      BY <1>3, <2>2, Shown
    <3> QED BY <1>3, <2>1, <3>1 DEF BubbleInv
  <2> QED BY <1>3, <2>2, OnlyShown
<1>4. TypeOK /\ BubbleInv(session, wire) /\ [Next]_vars => [Shows]_vars
  BY <1>3
<1> HIDE DEF Shows
<1>5. Spec => [][Shows]_vars
  BY <1>1, <1>2, <1>4, TypeCorrect, PTL DEF Spec
<1> QED BY <1>5 DEF BubbleNeverRegresses, Shows

(***************************************************************************)
(* ProgressDraft                                                           *)
(***************************************************************************)

(* What a session D has to say.                                            *)
Cap(D) == IF Draft!Returned(D) THEN Draft!Summary ELSE D.changes

(* The messages of draft d that D writes to are its own, one at a time.    *)
Wired(D, d, B) ==
  /\ D.msg # 0 => D.msg \in DOMAIN B /\ B[D.msg].draft = d
  /\ \A e \in D.edits : e.msg \in DOMAIN B /\ B[e.msg].draft = d
  /\ \A e, f \in D.edits : e = f
  /\ D.msg = 0 => D.edits = {} /\ D.pending = Draft!Nothing
  /\ D.pending # Draft!Nothing => D.abandoned \/ Draft!Busy(D)

(* It is sent once for every change at most, ...                           *)
SendsCounted(D) ==
  /\ D.opens + (IF D.armed THEN 1 ELSE 0) <= D.changes
  /\ \A x \in D.sends : x.nth <= D.opens /\ x.text <= D.changes
  /\ \A x, y \in D.sends : x.nth = y.nth => x = y
  /\ D.tools = 0 => D.changes = 0

(* ... and finalize() returns when a send is over.                         *)
Ends(D) ==
  /\ D.waits => D.finalized
  /\ D.opens <= 1 =>
       /\ D.opens = 0 => D.msg = 0
       /\ D.sends # {} => D.msg = 0
       /\ D.waits => D.sends # {}
       /\ Draft!Returned(D) => D.sends = {}

(* Of a draft sent once: the bubble says nothing newer than what was sent  *)
(* last, that nothing newer than the edit that is out, nor that than what  *)
(* waits, nor that than t.                                                 *)
Ordered(D, B, t) ==
  D.opens <= 1 /\ D.msg # 0 =>
    /\ D.lastSent # Draft!Nothing
    /\ B[D.msg].text <= D.lastSent /\ D.lastSent <= t
    /\ \A e \in D.edits : e.msg = D.msg /\ D.lastSent <= e.text /\ e.text <= t
    /\ D.pending # Draft!Nothing =>
         /\ D.lastSent <= D.pending /\ D.pending <= t
         /\ \A e \in D.edits : e.text <= D.pending

(* The last of these is t.                                                 *)
Latest(D, t) ==
  D.opens <= 1 /\ D.msg # 0 /\ ~D.abandoned =>
    IF D.pending # Draft!Nothing THEN D.pending = t
    ELSE IF Draft!Busy(D) THEN \A e \in D.edits : e.text = t ELSE D.lastSent = t

Exact(D, B, f) ==
  D.opens <= 1 /\ D.msg # 0 /\ f = 0 => B[D.msg].text = D.lastSent

Core(D, d, B, t, f) == Wired(D, d, B) /\ SendsCounted(D) /\ Ordered(D, B, t) /\ Exact(D, B, f)

DraftOK(D, d, B, f) == Core(D, d, B, Cap(D), f) /\ Latest(D, Cap(D)) /\ Ends(D)

DraftInv ==
  /\ Draft!TypeOK
  /\ \A d \in DOMAIN drafts : DraftOK(drafts[d], d, bubbles, draftFaults)

(* E is D but for what it has to write.                                    *)
Same(D, E) ==
  /\ E.changes = D.changes /\ E.tools = D.tools /\ E.armed = D.armed
  /\ E.opens = D.opens /\ E.sends = D.sends /\ E.msg = D.msg
  /\ E.lastSent = D.lastSent /\ E.finalized = D.finalized
  /\ E.abandoned = D.abandoned /\ E.waits = D.waits /\ E.query = D.query

(* What is written, as numbers.                                            *)
LEMMA SummaryIsText ==
  /\ Draft!Summary \in Nat /\ Draft!Summary \in Draft!Texts
  /\ \A n \in 0..MaxChanges : n \in Draft!Texts /\ n < Draft!Summary
  /\ \A n \in Draft!Texts : n \in Nat /\ n # Draft!Nothing
BY LanesAssumption DEF Draft!Summary, Draft!Texts, Draft!Nothing

(* An edit goes out.                                                       *)
LEMMA EditIs ==
  ASSUME NEW D \in Draft!DraftStates, D.edits = {}, D.pending # Draft!Nothing
  PROVE  LET E == Draft!Edit(D) IN
         /\ E \in Draft!DraftStates /\ Same(D, E)
         /\ E.edits = {[msg |-> D.msg, text |-> D.pending]}
         /\ E.pending = Draft!Nothing
<1>1. D.pending \in Draft!Texts /\ D.msg \in Nat
  BY DEF Draft!DraftStates
<1>2. {[msg |-> D.msg, text |-> D.pending]} \in SUBSET [msg : Nat, text : Draft!Texts]
  BY <1>1
<1>3. Draft!Edit(D) = [D EXCEPT !.edits = {[msg |-> D.msg, text |-> D.pending]},
                                !.pending = Draft!Nothing]
  BY DEF Draft!Edit, Draft!DraftStates
<1> QED
  BY <1>2, <1>3 DEF Draft!DraftStates, Same

(* The step of the loop that drains edits.                                 *)
LEMMA DrainIs ==
  ASSUME NEW D \in Draft!DraftStates, D.edits = {}
  PROVE  LET E == Draft!DrainEdits(D) IN
         /\ E \in Draft!DraftStates /\ Same(D, E)
         /\ \/ E = D /\ (D.pending = Draft!Nothing \/ D.abandoned)
            \/ /\ E.pending = Draft!Nothing /\ ~D.abandoned /\ D.pending # Draft!Nothing
               /\ \/ E.edits = {} /\ D.pending = D.lastSent
                  \/ E.edits = {[msg |-> D.msg, text |-> D.pending]}
<1>1. CASE D.pending = Draft!Nothing \/ D.abandoned
  <2>1. Draft!DrainEdits(D) = D
    BY <1>1 DEF Draft!DrainEdits
  <2> QED
    BY <1>1, <2>1 DEF Same
<1>2. CASE D.pending # Draft!Nothing /\ ~D.abandoned /\ D.pending = D.lastSent
  <2>1. Draft!DrainEdits(D) = [D EXCEPT !.pending = Draft!Nothing]
    BY <1>2 DEF Draft!DrainEdits
  <2>2. /\ [D EXCEPT !.pending = Draft!Nothing] \in Draft!DraftStates
        /\ Same(D, [D EXCEPT !.pending = Draft!Nothing])
        /\ [D EXCEPT !.pending = Draft!Nothing].edits = D.edits
        /\ [D EXCEPT !.pending = Draft!Nothing].pending = Draft!Nothing
    BY DEF Draft!DraftStates, Same
  <2> QED
    BY <1>2, <2>1, <2>2
<1>3. CASE D.pending # Draft!Nothing /\ ~D.abandoned /\ D.pending # D.lastSent
  <2>1. Draft!DrainEdits(D) = Draft!Edit(D)
    BY <1>3 DEF Draft!DrainEdits
  <2> QED
    BY <1>3, <2>1, EditIs
<1> QED
  BY <1>1, <1>2, <1>3

(* What enqueueEdit does: it merges, does nothing, or sends.               *)
LEMMA EnqueueIs ==
  ASSUME NEW D \in Draft!DraftStates, NEW t \in Draft!Texts
  PROVE  LET E == Draft!EnqueueEdit(D, t) IN
         /\ E \in Draft!DraftStates /\ Same(D, E)
         /\ \/ E = D /\ (D.msg = 0 \/ D.abandoned)
            \/ /\ D.msg # 0 /\ ~D.abandoned
               /\ \/ E.pending = t /\ E.edits = D.edits /\ D.edits # {}
                  \/ E.pending = Draft!Nothing /\ E.edits = {} /\ D.edits = {} /\ D.lastSent = t
                  \/ /\ E.pending = Draft!Nothing /\ D.edits = {}
                     /\ E.edits = {[msg |-> D.msg, text |-> t]}
<1> DEFINE P == [D EXCEPT !.pending = t]
<1>1. /\ P \in Draft!DraftStates /\ Same(D, P) /\ P.pending = t /\ P.edits = D.edits
  BY DEF Draft!DraftStates, Same
<1>2. t # Draft!Nothing
  BY SummaryIsText
<1>3. CASE D.msg = 0 \/ D.abandoned
  BY <1>3 DEF Draft!EnqueueEdit, Same
<1>4. CASE D.msg # 0 /\ ~D.abandoned
  <2>1. Draft!EnqueueEdit(D, t) = IF D.edits # {} THEN P ELSE Draft!DrainEdits(P)
    BY <1>1, <1>4 DEF Draft!EnqueueEdit, Draft!Busy
  <2> HIDE DEF P
  <2>2. CASE D.edits # {}
    BY <1>1, <1>4, <2>1, <2>2
  <2>3. CASE D.edits = {}
    <3> DEFINE E == Draft!DrainEdits(P)
    <3>1. /\ E \in Draft!DraftStates /\ Same(P, E)
          /\ \/ E = P /\ (P.pending = Draft!Nothing \/ P.abandoned)
             \/ /\ E.pending = Draft!Nothing
                /\ \/ E.edits = {} /\ P.pending = P.lastSent
                   \/ E.edits = {[msg |-> P.msg, text |-> P.pending]}
      BY <1>1, <2>3, DrainIs
    <3> HIDE DEF E
    <3>2. Same(D, E) /\ ~P.abandoned /\ P.lastSent = D.lastSent /\ P.msg = D.msg
      BY <1>1, <1>4, <3>1 DEF Same
    <3>3. \/ E.pending = Draft!Nothing /\ E.edits = {} /\ D.lastSent = t
          \/ E.pending = Draft!Nothing /\ E.edits = {[msg |-> D.msg, text |-> t]}
      BY <1>1, <1>2, <3>1, <3>2
    <3>4. Draft!EnqueueEdit(D, t) = E
      BY <2>1, <2>3 DEF E
    <3> QED
      BY <1>4, <2>3, <3>1, <3>2, <3>3, <3>4
  <2> QED
    BY <2>2, <2>3
<1> QED
  BY <1>3, <1>4

(* What enqueueEdit makes of a session that has nothing newer to say.      *)
LEMMA EnqueueKeeps ==
  ASSUME NEW D \in Draft!DraftStates, NEW d, NEW B, NEW t \in Draft!Texts, NEW f,
         Core(D, d, B, t, f)
  PROVE  LET E == Draft!EnqueueEdit(D, t) IN
         /\ E \in Draft!DraftStates /\ Same(D, E)
         /\ Core(E, d, B, t, f) /\ Latest(E, t)
<1> DEFINE E == Draft!EnqueueEdit(D, t)
<1>1. /\ E \in Draft!DraftStates /\ Same(D, E)
      /\ \/ E = D /\ (D.msg = 0 \/ D.abandoned)
         \/ /\ D.msg # 0 /\ ~D.abandoned
            /\ \/ E.pending = t /\ E.edits = D.edits /\ D.edits # {}
               \/ E.pending = Draft!Nothing /\ E.edits = {} /\ D.edits = {} /\ D.lastSent = t
               \/ /\ E.pending = Draft!Nothing /\ D.edits = {}
                  /\ E.edits = {[msg |-> D.msg, text |-> t]}
  BY EnqueueIs
<1> SUFFICES E \in Draft!DraftStates /\ Same(D, E) /\ Core(E, d, B, t, f) /\ Latest(E, t)
  OBVIOUS
<1> HIDE DEF E
<1>2. SendsCounted(E) /\ Exact(E, B, f)
  BY <1>1 DEF Core, SendsCounted, Exact, Same
<1>3. t \in Nat /\ t # Draft!Nothing
  BY SummaryIsText
<1>4. CASE E = D /\ (D.msg = 0 \/ D.abandoned)
  BY <1>1, <1>4 DEF Latest
<1>5. CASE D.msg # 0 /\ ~D.abandoned /\ E.pending = t /\ E.edits = D.edits /\ D.edits # {}
  BY <1>1, <1>2, <1>3, <1>5 DEF Core, Wired, Ordered, Latest, Same, Draft!Busy
<1>6. CASE /\ D.msg # 0 /\ ~D.abandoned /\ E.pending = Draft!Nothing
           /\ E.edits = {} /\ D.edits = {} /\ D.lastSent = t
  BY <1>1, <1>2, <1>3, <1>6 DEF Core, Wired, Ordered, Latest, Same, Draft!Busy
<1>7. CASE /\ D.msg # 0 /\ ~D.abandoned /\ E.pending = Draft!Nothing
           /\ D.edits = {} /\ E.edits = {[msg |-> D.msg, text |-> t]}
  <2>1. Wired(E, d, B)
    BY <1>1, <1>7 DEF Core, Wired, Same, Draft!Busy
  <2>2. Ordered(E, B, t)
    BY <1>1, <1>3, <1>7 DEF Core, Ordered, Same, Draft!Busy
  <2>3. Latest(E, t)
    BY <1>1, <1>3, <1>7 DEF Latest, Same, Draft!Busy
  <2> QED
    BY <1>1, <1>2, <2>1, <2>2, <2>3 DEF Core
<1> QED
  BY <1>1, <1>4, <1>5, <1>6, <1>7

(* What a session has to say is a text.                                    *)
LEMMA CapIsText ==
  ASSUME NEW D \in Draft!DraftStates
  PROVE  Cap(D) \in Draft!Texts /\ D.changes \in Draft!Texts /\ D.changes \in Nat
BY SummaryIsText DEF Cap, Draft!DraftStates

(* A bound of what is said may grow.                                       *)
LEMMA CoreGrows ==
  ASSUME NEW D \in Draft!DraftStates, NEW d, NEW B, NEW f,
         NEW t \in Draft!Texts, NEW u \in Draft!Texts, t <= u, Core(D, d, B, t, f)
  PROVE  Core(D, d, B, u, f)
<1>1. t \in Nat /\ u \in Nat
  BY SummaryIsText
<1>2. \A e \in D.edits : e.text \in Nat
  BY SummaryIsText DEF Draft!DraftStates
<1>3. D.lastSent # Draft!Nothing => D.lastSent \in Nat
  BY SummaryIsText DEF Draft!DraftStates
<1>4. D.pending # Draft!Nothing => D.pending \in Nat
  BY SummaryIsText DEF Draft!DraftStates
<1>5. Ordered(D, B, u)
  BY <1>1, <1>2, <1>3, <1>4 DEF Core, Ordered
<1> QED
  BY <1>5 DEF Core

\* src/progress-draft.ts: openDraftNow
LEMMA OpenKeeps ==
  ASSUME NEW D \in Draft!DraftStates, NEW d, NEW B, NEW f, DraftOK(D, d, B, f),
         ~D.armed, D.opens + 1 <= D.changes
  PROVE  LET E == Draft!OpenDraftNow(D) IN
         /\ E \in Draft!DraftStates /\ DraftOK(E, d, B, f)
         /\ E.msg = D.msg /\ E.edits = D.edits /\ E.changes = D.changes
         /\ Draft!Ended(D) => E.opens = D.opens
<1> DEFINE x == [nth |-> D.opens + 1, text |-> D.changes]
           E == [D EXCEPT !.opens = @ + 1, !.sends = @ \cup {x}]
<1>1. CASE D.msg # 0 \/ Draft!Ended(D)
  <2>1. Draft!OpenDraftNow(D) = D
    BY <1>1 DEF Draft!OpenDraftNow, Draft!Ended
  <2> QED
    BY <2>1
<1>2. CASE D.msg = 0 /\ ~Draft!Ended(D)
  <2>1. Draft!OpenDraftNow(D) = E
    BY <1>2 DEF Draft!OpenDraftNow, Draft!Ended
  <2>2. D.opens \in Nat /\ D.changes \in 0..MaxChanges
    BY DEF Draft!DraftStates
  <2>3. D.opens + 1 \in 1..MaxChanges /\ D.opens + 1 \in 0..MaxChanges
    BY <2>2, LanesAssumption
  <2>4. x \in [nth : 1..MaxChanges, text : Draft!Texts] /\ x.nth = D.opens + 1 /\ x.text = D.changes
    BY <2>2, <2>3, SummaryIsText
  <2> HIDE DEF x
  <2>5. /\ E \in Draft!DraftStates
        /\ E.opens = D.opens + 1 /\ E.sends = D.sends \cup {x}
        /\ E.changes = D.changes /\ E.tools = D.tools /\ E.armed = D.armed
        /\ E.msg = D.msg /\ E.edits = D.edits /\ E.pending = D.pending
        /\ E.lastSent = D.lastSent /\ E.finalized = D.finalized
        /\ E.abandoned = D.abandoned /\ E.waits = D.waits
    BY <2>3, <2>4 DEF Draft!DraftStates
  <2> HIDE DEF E
  <2>6. \A y \in D.sends : y.nth \in 1..MaxChanges
    BY DEF Draft!DraftStates
  <2>7. Wired(E, d, B)
    BY <2>5 DEF DraftOK, Core, Wired, Draft!Busy
  <2>8. SendsCounted(E)
    <3>1. \A y \in E.sends : y.nth <= E.opens /\ y.text <= E.changes
      BY <2>2, <2>4, <2>5, <2>6 DEF DraftOK, Core, SendsCounted
    <3>2. \A y, z \in E.sends : y.nth = z.nth => y = z
      BY <2>2, <2>4, <2>5, <2>6 DEF DraftOK, Core, SendsCounted
    <3> QED
      BY <2>2, <2>5, <3>1, <3>2 DEF DraftOK, Core, SendsCounted
  <2>9. Ordered(E, B, Cap(E)) /\ Latest(E, Cap(E)) /\ Exact(E, B, f)
    BY <1>2, <2>5 DEF Ordered, Latest, Exact
  <2>10. Ends(E)
    BY <1>2, <2>2, <2>5 DEF DraftOK, Ends, Draft!Returned, Draft!Ended
  <2> QED
    BY <1>2, <2>1, <2>5, <2>7, <2>8, <2>9, <2>10 DEF DraftOK, Core
<1> QED
  BY <1>1, <1>2

(* A change of the lines, before it is told to anyone.                     *)
Grown(D, n) == [D EXCEPT !.changes = @ + 1, !.tools = n]

(* A change leaves all but its own text in order.                          *)
LEMMA GrownIs ==
  ASSUME NEW D \in Draft!DraftStates, NEW d, NEW B, NEW f, DraftOK(D, d, B, f),
         ~Draft!Ended(D), D.changes < MaxChanges, NEW n \in 1..2
  PROVE  LET N == Grown(D, n) IN
         /\ N \in Draft!DraftStates /\ Core(N, d, B, N.changes, f) /\ Ends(N)
         /\ N.changes = D.changes + 1 /\ N.tools = n /\ N.armed = D.armed /\ N.opens = D.opens
         /\ N.msg = D.msg /\ N.edits = D.edits /\ N.abandoned = D.abandoned
         /\ ~Draft!Ended(N) /\ Cap(N) = N.changes
         /\ N.msg = 0 => DraftOK(N, d, B, f)
<1> DEFINE N == Grown(D, n)
<1>1. D.changes \in 0..MaxChanges /\ D.changes + 1 \in 0..MaxChanges /\ D.opens \in Nat
  BY LanesAssumption DEF Draft!DraftStates
<1>2. /\ N \in Draft!DraftStates
      /\ N.changes = D.changes + 1 /\ N.tools = n /\ N.armed = D.armed
      /\ N.opens = D.opens /\ N.sends = D.sends /\ N.msg = D.msg
      /\ N.edits = D.edits /\ N.pending = D.pending
      /\ N.lastSent = D.lastSent /\ N.finalized = D.finalized
      /\ N.abandoned = D.abandoned /\ N.waits = D.waits
  <2>1. n \in 0..2
    OBVIOUS
  <2>2. Grown(D, n) = [D EXCEPT !.changes = D.changes + 1, !.tools = n]
    BY DEF Grown
  <2> QED
    BY <1>1, <2>1, <2>2 DEF Draft!DraftStates
<1> SUFFICES /\ N \in Draft!DraftStates /\ Core(N, d, B, N.changes, f) /\ Ends(N)
             /\ ~Draft!Ended(N) /\ Cap(N) = N.changes
             /\ N.msg = 0 => DraftOK(N, d, B, f)
  BY <1>2
<1> HIDE DEF N
<1>3. Cap(D) = D.changes /\ Cap(N) = N.changes /\ ~Draft!Ended(N)
  BY <1>2 DEF Cap, Draft!Returned, Draft!Ended
<1>4. Core(D, d, B, D.changes + 1, f)
  BY <1>1, <1>3, SummaryIsText, CoreGrows DEF DraftOK
<1>5. Wired(N, d, B) /\ Ordered(N, B, N.changes) /\ Exact(N, B, f)
  BY <1>2, <1>4 DEF Core, Wired, Ordered, Exact, Draft!Busy
<1>6. SendsCounted(N)
  <2>1. \A x \in D.sends : x.text \in Nat /\ x.nth \in Nat
    <3>1. \A x \in D.sends : x.text \in Draft!Texts /\ x.nth \in 1..MaxChanges
      BY DEF Draft!DraftStates
    <3>2. \A y \in Draft!Texts : y \in Nat
      BY SummaryIsText
    <3>3. \A y \in 1..MaxChanges : y \in Nat
      OBVIOUS
    <3> QED
      BY <3>1, <3>2, <3>3
  <2> QED
    BY <1>1, <1>2, <2>1 DEF DraftOK, Core, SendsCounted
<1>7. Ends(N)
  BY <1>2 DEF DraftOK, Ends, Draft!Returned
<1>8. N.msg = 0 => Latest(N, Cap(N))
  BY DEF Latest
<1> QED
  BY <1>2, <1>3, <1>5, <1>6, <1>7, <1>8 DEF Core, DraftOK

(* What is told makes it up to date.                                       *)
LEMMA Told ==
  ASSUME NEW D \in Draft!DraftStates, NEW d, NEW B, NEW f,
         Core(D, d, B, D.changes, f), Ends(D), Cap(D) = D.changes
  PROVE  LET E == Draft!EnqueueEdit(D, D.changes) IN
         E \in Draft!DraftStates /\ Same(D, E) /\ DraftOK(E, d, B, f)
<1> DEFINE E == Draft!EnqueueEdit(D, D.changes)
<1>1. D.changes \in Draft!Texts
  BY CapIsText
<1>2. /\ E \in Draft!DraftStates /\ Same(D, E)
      /\ Core(E, d, B, D.changes, f) /\ Latest(E, D.changes)
  BY <1>1, EnqueueKeeps
<1> SUFFICES DraftOK(E, d, B, f)
  BY <1>2
<1> HIDE DEF E
<1>3. Cap(E) = D.changes /\ Ends(E)
  BY <1>2 DEF Same, Cap, Ends, Draft!Returned
<1> QED
  BY <1>2, <1>3 DEF DraftOK

\* src/progress-draft.ts: apply, of a tool that starts
LEMMA ApplyStartKeeps ==
  ASSUME NEW D \in Draft!DraftStates, NEW d, NEW B, NEW f, DraftOK(D, d, B, f),
         D.changes < MaxChanges
  PROVE  LET E == Draft!ApplyStart(D) IN
         /\ E \in Draft!DraftStates /\ DraftOK(E, d, B, f)
         /\ Draft!Ended(D) => E = D
<1>1. CASE Draft!Ended(D)
  <2>1. Draft!ApplyStart(D) = D
    BY <1>1 DEF Draft!ApplyStart
  <2> QED
    BY <2>1
<1>2. CASE ~Draft!Ended(D)
  <2> DEFINE n == IF D.tools = 0 THEN 1 ELSE 2
             N == [D EXCEPT !.changes = @ + 1, !.tools = IF @ = 0 THEN 1 ELSE 2]
             O == IF N.msg = 0 /\ N.tools = 2
                  THEN Draft!OpenDraftNow([N EXCEPT !.armed = FALSE])
                  ELSE Draft!ScheduleOpen(N)
             E == Draft!EnqueueEdit(O, O.changes)
  <2>1. n \in 1..2
    OBVIOUS
  <2>2. N = Grown(D, n)
    BY DEF Grown, Draft!DraftStates
  <2>3. Draft!ApplyStart(D) = E
    BY <1>2 DEF Draft!ApplyStart
  <2>4. n = 1 => D.tools = 0
    OBVIOUS
  <2> HIDE DEF n
  <2>5. /\ N \in Draft!DraftStates /\ Core(N, d, B, N.changes, f) /\ Ends(N)
        /\ N.changes = D.changes + 1 /\ N.tools = n /\ N.armed = D.armed /\ N.opens = D.opens
        /\ N.msg = D.msg /\ N.edits = D.edits /\ N.abandoned = D.abandoned
        /\ ~Draft!Ended(N) /\ Cap(N) = N.changes
        /\ N.msg = 0 => DraftOK(N, d, B, f)
    <3> HIDE DEF N
    <3> QED
      BY <1>2, <2>1, <2>2, GrownIs
  <2> HIDE DEF N
  <2>6. D.opens \in Nat /\ D.changes \in Nat /\ D.armed \in BOOLEAN
    BY DEF Draft!DraftStates
  <2>7. D.opens <= D.changes /\ (D.armed => D.opens + 1 <= D.changes) /\ (D.tools = 0 => D.opens = 0)
    BY <2>6 DEF DraftOK, Core, SendsCounted
  <2>8. O \in Draft!DraftStates /\ Core(O, d, B, O.changes, f) /\ Ends(O) /\ Cap(O) = O.changes
    <3>1. CASE N.msg # 0
      <4>1. O = N
        BY <3>1 DEF Draft!ScheduleOpen
      <4> QED
        BY <2>5, <4>1
    <3>2. CASE N.msg = 0 /\ N.tools = 2
      <4> DEFINE L == [N EXCEPT !.armed = FALSE]
      <4>1. /\ L \in Draft!DraftStates /\ ~L.armed /\ L.changes = N.changes
            /\ L.opens = N.opens /\ L.tools = N.tools
            /\ L.sends = N.sends /\ L.msg = N.msg /\ L.edits = N.edits
            /\ L.pending = N.pending /\ L.lastSent = N.lastSent
            /\ L.finalized = N.finalized /\ L.abandoned = N.abandoned /\ L.waits = N.waits
        BY <2>5 DEF Draft!DraftStates
      <4>2. O = Draft!OpenDraftNow(L)
        BY <3>2
      <4> HIDE DEF L
      <4>3. Core(L, d, B, L.changes, f)
        BY <2>5, <2>6, <2>7, <4>1 DEF Core, Wired, SendsCounted, Ordered, Exact, Draft!Busy
      <4>4. Ends(L) /\ Cap(L) = L.changes /\ Latest(L, L.changes) /\ ~Draft!Ended(L)
        BY <2>5, <3>2, <4>1 DEF Ends, Cap, Draft!Returned, Draft!Ended, Latest
      <4>5. DraftOK(L, d, B, f) /\ L.opens + 1 <= L.changes
        BY <2>5, <2>6, <2>7, <4>1, <4>3, <4>4 DEF DraftOK
      <4>6. O \in Draft!DraftStates /\ DraftOK(O, d, B, f) /\ O.changes = L.changes
        BY <4>1, <4>2, <4>5, OpenKeeps
      <4>7. Cap(O) = O.changes
        <5>1. O.finalized = L.finalized
          <6>1. CASE O = L
            BY <6>1
          <6>2. CASE O = [L EXCEPT !.opens = @ + 1,
                            !.sends = @ \cup {[nth |-> L.opens + 1, text |-> L.changes]}]
            BY <4>1, <6>2 DEF Draft!DraftStates
          <6> QED
            BY <4>2, <6>1, <6>2 DEF Draft!OpenDraftNow
        <5> QED
          BY <4>4, <5>1 DEF Cap, Draft!Returned, Draft!Ended
      <4> QED
        BY <4>6, <4>7 DEF DraftOK
    <3>3. CASE N.msg = 0 /\ N.tools # 2
      <4> DEFINE L == [N EXCEPT !.armed = TRUE]
      <4>1. /\ L \in Draft!DraftStates /\ L.armed /\ L.changes = N.changes
            /\ L.opens = N.opens /\ L.tools = N.tools
            /\ L.sends = N.sends /\ L.msg = N.msg /\ L.edits = N.edits
            /\ L.pending = N.pending /\ L.lastSent = N.lastSent
            /\ L.finalized = N.finalized /\ L.abandoned = N.abandoned /\ L.waits = N.waits
        BY <2>5 DEF Draft!DraftStates
      <4>2. O = L
        BY <3>3 DEF Draft!ScheduleOpen
      <4> HIDE DEF L
      <4>3. n = 1
        BY <2>1, <2>5, <3>3
      <4>4. Core(L, d, B, L.changes, f)
        BY <2>4, <2>5, <2>6, <2>7, <4>1, <4>3 DEF Core, Wired, SendsCounted, Ordered, Exact, Draft!Busy
      <4>5. Ends(L) /\ Cap(L) = L.changes
        BY <2>5, <4>1 DEF Ends, Cap, Draft!Returned, Draft!Ended
      <4> QED
        BY <4>1, <4>2, <4>4, <4>5
    <3> QED
      BY <3>1, <3>2, <3>3
  <2> HIDE DEF O
  <2>9. E \in Draft!DraftStates /\ DraftOK(E, d, B, f)
    BY <2>8, Told
  <2> QED
    BY <1>2, <2>3, <2>9
<1> QED
  BY <1>1, <1>2

\* src/progress-draft.ts: apply, of a tool that goes on or is done
LEMMA ApplyChangeKeeps ==
  ASSUME NEW D \in Draft!DraftStates, NEW d, NEW B, NEW f, DraftOK(D, d, B, f),
         D.changes < MaxChanges
  PROVE  LET E == Draft!ApplyChange(D) IN
         /\ E \in Draft!DraftStates /\ DraftOK(E, d, B, f) /\ E.opens = D.opens
         /\ Draft!Ended(D) => E = D
<1>1. CASE Draft!Ended(D) \/ D.tools = 0
  <2>1. Draft!ApplyChange(D) = D
    BY <1>1 DEF Draft!ApplyChange
  <2> QED
    BY <2>1
<1>2. CASE ~Draft!Ended(D) /\ D.tools # 0
  <2> DEFINE N == Grown(D, D.tools)
             E == Draft!EnqueueEdit(N, N.changes)
  <2>1. D.tools \in 1..2
    BY <1>2 DEF Draft!DraftStates
  <2>2. Draft!ApplyChange(D) = E
    <3>1. [D EXCEPT !.changes = @ + 1] = N
      BY DEF Grown, Draft!DraftStates
    <3> QED
      BY <1>2, <3>1 DEF Draft!ApplyChange
  <2>3. /\ N \in Draft!DraftStates /\ Core(N, d, B, N.changes, f) /\ Ends(N)
        /\ N.opens = D.opens /\ Cap(N) = N.changes
    BY <1>2, <2>1, GrownIs
  <2> HIDE DEF N
  <2>4. E \in Draft!DraftStates /\ Same(N, E) /\ DraftOK(E, d, B, f)
    BY <2>3, Told
  <2> QED
    BY <1>2, <2>2, <2>3, <2>4 DEF Same
<1> QED
  BY <1>1, <1>2

(* finalize() tells the summary, when no send is out.                      *)
LEMMA ReleaseKeeps ==
  ASSUME NEW D \in Draft!DraftStates, NEW d, NEW B, NEW f, NEW t \in Draft!Texts,
         Core(D, d, B, t, f), D.finalized, Ends([D EXCEPT !.waits = FALSE])
  PROVE  LET E == Draft!Release(D) IN
         /\ E \in Draft!DraftStates /\ DraftOK(E, d, B, f) /\ E.opens = D.opens
         /\ D.abandoned => E.edits = D.edits
<1> DEFINE F == Draft!EnqueueEdit(D, Draft!Summary)
           E == [F EXCEPT !.waits = FALSE]
           L == [D EXCEPT !.waits = FALSE]
<1>1. Draft!Release(D) = E
  BY DEF Draft!Release
<1>2. t <= Draft!Summary /\ Draft!Summary \in Draft!Texts
  BY SummaryIsText DEF Draft!Texts
<1>3. Core(D, d, B, Draft!Summary, f)
  BY <1>2, CoreGrows
<1>4. /\ F \in Draft!DraftStates /\ Same(D, F)
      /\ Core(F, d, B, Draft!Summary, f) /\ Latest(F, Draft!Summary)
  BY <1>2, <1>3, EnqueueKeeps
<1>5. D.abandoned => F = D
  BY DEF Draft!EnqueueEdit
<1> HIDE DEF F
<1>6. /\ E \in Draft!DraftStates /\ ~E.waits
      /\ E.changes = F.changes /\ E.tools = F.tools /\ E.armed = F.armed
      /\ E.opens = F.opens /\ E.sends = F.sends /\ E.msg = F.msg
      /\ E.edits = F.edits /\ E.pending = F.pending
      /\ E.lastSent = F.lastSent /\ E.finalized = F.finalized
      /\ E.abandoned = F.abandoned
  BY <1>4 DEF Draft!DraftStates
<1>7. /\ ~L.waits /\ L.opens = D.opens /\ L.sends = D.sends /\ L.msg = D.msg
      /\ L.finalized = D.finalized
  BY DEF Draft!DraftStates
<1> HIDE DEF E, L
<1>8. Core(E, d, B, Draft!Summary, f)
  BY <1>4, <1>6 DEF Core, Wired, SendsCounted, Ordered, Exact, Draft!Busy
<1>9. Cap(E) = Draft!Summary /\ Latest(E, Draft!Summary)
  BY <1>4, <1>6 DEF Cap, Draft!Returned, Latest, Draft!Busy, Same
<1>10. Ends(E)
  <2>1. Ends(L)
    BY DEF L
  <2> QED
    BY <1>4, <1>6, <1>7, <2>1 DEF Ends, Draft!Returned, Same
<1> QED
  BY <1>1, <1>4, <1>5, <1>6, <1>8, <1>9, <1>10 DEF DraftOK, Same

\* src/progress-draft.ts: finalize
LEMMA FinalizeKeeps ==
  ASSUME NEW D \in Draft!DraftStates, NEW d, NEW B, NEW f, DraftOK(D, d, B, f)
  PROVE  LET E == Draft!Finalize(D) IN
         /\ E \in Draft!DraftStates /\ DraftOK(E, d, B, f) /\ E.opens = D.opens
         /\ D.abandoned => E.edits = D.edits
<1>1. CASE Draft!Ended(D)
  <2>1. Draft!Finalize(D) = D
    BY <1>1 DEF Draft!Finalize
  <2> QED
    BY <2>1
<1>2. CASE ~Draft!Ended(D)
  <2> DEFINE F == [D EXCEPT !.finalized = TRUE, !.armed = FALSE]
             E == [F EXCEPT !.waits = TRUE]
             L == [F EXCEPT !.waits = FALSE]
  <2>1. Draft!Finalize(D) = IF Draft!Opening(F) THEN E ELSE Draft!Release(F)
    BY <1>2 DEF Draft!Finalize
  <2>2. /\ F \in Draft!DraftStates /\ F.finalized /\ ~F.armed /\ F.waits = D.waits
        /\ F.changes = D.changes /\ F.tools = D.tools
        /\ F.opens = D.opens /\ F.sends = D.sends /\ F.msg = D.msg
        /\ F.edits = D.edits /\ F.pending = D.pending
        /\ F.lastSent = D.lastSent /\ F.abandoned = D.abandoned
    BY DEF Draft!DraftStates
  <2> HIDE DEF F
  <2>3. /\ E \in Draft!DraftStates /\ E.finalized /\ ~E.armed /\ E.waits
        /\ E.changes = F.changes /\ E.tools = F.tools
        /\ E.opens = F.opens /\ E.sends = F.sends /\ E.msg = F.msg
        /\ E.edits = F.edits /\ E.pending = F.pending
        /\ E.lastSent = F.lastSent /\ E.abandoned = F.abandoned
    BY <2>2 DEF Draft!DraftStates
  <2>4. /\ ~L.waits /\ L.opens = F.opens /\ L.sends = F.sends /\ L.msg = F.msg
        /\ L.finalized = F.finalized
    BY <2>2 DEF Draft!DraftStates
  <2>5. /\ Cap(D) = D.changes /\ ~D.finalized /\ ~D.abandoned
        /\ D.opens \in Nat /\ D.changes \in Nat
    BY <1>2 DEF Cap, Draft!Returned, Draft!Ended, Draft!DraftStates
  <2>6. D.opens <= D.changes
    BY <2>5 DEF DraftOK, Core, SendsCounted
  <2>7. Core(F, d, B, D.changes, f)
    BY <2>2, <2>5, <2>6 DEF DraftOK, Core, Wired, SendsCounted, Ordered, Exact, Draft!Busy
  <2> HIDE DEF E, L
  <2>8. CASE Draft!Opening(F)
    <3>1. Core(E, d, B, D.changes, f)
      <4>1. Wired(E, d, B) /\ Ordered(E, B, D.changes) /\ Exact(E, B, f)
        BY <2>3, <2>7 DEF Core, Wired, Ordered, Exact, Draft!Busy
      <4>2. SendsCounted(E)
        BY <2>2, <2>3, <2>7 DEF Core, SendsCounted
      <4> QED
        BY <4>1, <4>2 DEF Core
    <3>2. Cap(E) = D.changes /\ Latest(E, D.changes)
      BY <2>2, <2>3, <2>5 DEF DraftOK, Cap, Draft!Returned, Latest, Draft!Busy
    <3>3. E.sends # {}
      BY <2>3, <2>8 DEF Draft!Opening
    <3>4. Ends(E)
      BY <2>2, <2>3, <3>3 DEF DraftOK, Ends, Draft!Returned
    <3> QED
      BY <2>1, <2>2, <2>3, <2>8, <3>1, <3>2, <3>4 DEF DraftOK
  <2>9. CASE ~Draft!Opening(F)
    <3>1. D.opens <= 1 => D.sends = {}
      <4>1. \A x \in D.sends : x.nth \in Nat /\ 1 <= x.nth /\ x.nth <= D.opens /\ x.nth # D.opens
        BY <2>2, <2>9 DEF DraftOK, Core, SendsCounted, Draft!Opening, Draft!DraftStates
      <4> QED
        BY <2>5, <4>1
    <3>2. Ends(L)
      BY <2>2, <2>4, <3>1 DEF DraftOK, Ends, Draft!Returned
    <3>3. D.changes \in Draft!Texts
      BY CapIsText
    <3>4. Ends([F EXCEPT !.waits = FALSE])
      BY <3>2 DEF L
    <3> DEFINE G == Draft!Release(F)
    <3>5. /\ G \in Draft!DraftStates /\ DraftOK(G, d, B, f) /\ G.opens = F.opens
          /\ F.abandoned => G.edits = F.edits
      BY <2>2, <2>7, <3>3, <3>4, ReleaseKeeps
    <3> HIDE DEF G
    <3>6. Draft!Finalize(D) = G
      BY <2>1, <2>9 DEF G
    <3> QED
      BY <2>2, <3>5, <3>6
  <2> QED
    BY <2>8, <2>9
<1> QED
  BY <1>1, <1>2

\* src/progress-draft.ts: abandon
LEMMA AbandonKeeps ==
  ASSUME NEW D \in Draft!DraftStates, NEW d, NEW B, NEW f, DraftOK(D, d, B, f)
  PROVE  LET E == Draft!Abandon(D) IN
         /\ E \in Draft!DraftStates /\ DraftOK(E, d, B, f)
         /\ E.opens = D.opens /\ E.edits = D.edits
<1> DEFINE E == Draft!Abandon(D)
<1>1. /\ E \in Draft!DraftStates /\ E.abandoned /\ ~E.armed /\ E.waits = D.waits
      /\ E.changes = D.changes /\ E.tools = D.tools
      /\ E.opens = D.opens /\ E.sends = D.sends /\ E.msg = D.msg
      /\ E.edits = D.edits /\ E.pending = D.pending
      /\ E.lastSent = D.lastSent /\ E.finalized = D.finalized
  BY DEF Draft!Abandon, Draft!DraftStates
<1> SUFFICES E \in Draft!DraftStates /\ DraftOK(E, d, B, f) /\ E.opens = D.opens /\ E.edits = D.edits
  OBVIOUS
<1> HIDE DEF E
<1>2. D.opens \in Nat /\ D.changes \in Nat
  BY DEF Draft!DraftStates
<1>3. D.opens <= D.changes
  BY <1>2 DEF DraftOK, Core, SendsCounted
<1>4. Cap(E) = Cap(D) /\ Ends(E) /\ Latest(E, Cap(E))
  BY <1>1 DEF DraftOK, Cap, Ends, Draft!Returned, Latest
<1>5. Core(E, d, B, Cap(D), f)
  BY <1>1, <1>2, <1>3 DEF DraftOK, Core, Wired, SendsCounted, Ordered, Exact, Draft!Busy
<1> QED
  BY <1>1, <1>4, <1>5 DEF DraftOK

(* The timer has fired: its opening is due.                                *)
LEMMA DisarmedKeeps ==
  ASSUME NEW D \in Draft!DraftStates, NEW d, NEW B, NEW f, DraftOK(D, d, B, f), D.armed
  PROVE  LET E == [D EXCEPT !.armed = FALSE] IN
         /\ E \in Draft!DraftStates /\ DraftOK(E, d, B, f) /\ ~E.armed
         /\ E.opens = D.opens /\ E.edits = D.edits /\ E.opens + 1 <= E.changes
         /\ Draft!Ended(E) = Draft!Ended(D)
<1> DEFINE E == [D EXCEPT !.armed = FALSE]
<1>1. /\ E \in Draft!DraftStates /\ E.abandoned = D.abandoned /\ ~E.armed /\ E.waits = D.waits
      /\ E.changes = D.changes /\ E.tools = D.tools
      /\ E.opens = D.opens /\ E.sends = D.sends /\ E.msg = D.msg
      /\ E.edits = D.edits /\ E.pending = D.pending
      /\ E.lastSent = D.lastSent /\ E.finalized = D.finalized
  BY DEF Draft!DraftStates
<1> SUFFICES /\ E \in Draft!DraftStates /\ DraftOK(E, d, B, f) /\ ~E.armed
             /\ E.opens = D.opens /\ E.edits = D.edits /\ E.opens + 1 <= E.changes
             /\ Draft!Ended(E) = Draft!Ended(D)
  OBVIOUS
<1> HIDE DEF E
<1>2. D.opens \in Nat /\ D.changes \in Nat
  BY DEF Draft!DraftStates
<1>3. D.opens + 1 <= D.changes
  BY <1>2 DEF DraftOK, Core, SendsCounted
<1>4. Cap(E) = Cap(D) /\ Ends(E) /\ Latest(E, Cap(E)) /\ Draft!Ended(E) = Draft!Ended(D)
  BY <1>1 DEF DraftOK, Cap, Ends, Draft!Returned, Latest, Draft!Ended, Draft!Busy
<1>5. Core(E, d, B, Cap(D), f)
  BY <1>1, <1>2, <1>3 DEF DraftOK, Core, Wired, SendsCounted, Ordered, Exact, Draft!Busy
<1> QED
  BY <1>1, <1>3, <1>4, <1>5 DEF DraftOK

(* A send is over: D1 is the session then, in B1 is the new message if     *)
(* there is one.                                                           *)
Sent(D, d, B, f, x, D1, B1, g) ==
  /\ D1.changes = D.changes /\ D1.tools = D.tools /\ D1.armed = D.armed
  /\ D1.opens = D.opens /\ D1.sends = D.sends \ {x} /\ D1.edits = D.edits
  /\ D1.pending = D.pending /\ D1.finalized = D.finalized
  /\ D1.abandoned = D.abandoned /\ D1.waits = D.waits
  /\ DOMAIN B \subseteq DOMAIN B1
  /\ \A b \in DOMAIN B : B1[b] = B[b]
  /\ g = 0 => f = 0
  /\ \/ D1.msg = D.msg /\ D1.lastSent = D.lastSent
     \/ /\ D1.msg # 0 /\ D1.msg \in DOMAIN B1 /\ D1.lastSent = x.text
        /\ B1[D1.msg].draft = d /\ B1[D1.msg].text = x.text

(* What follows a send tells the changes that came meanwhile.              *)
LEMMA SentKeeps ==
  ASSUME NEW D \in Draft!DraftStates, NEW d, NEW B, NEW f, NEW x \in D.sends,
         NEW D1 \in Draft!DraftStates, NEW B1, NEW g,
         DraftOK(D, d, B, f), Sent(D, d, B, f, x, D1, B1, g)
  PROVE  LET E == Draft!AfterSend(D1, x.nth) IN
         /\ E \in Draft!DraftStates /\ DraftOK(E, d, B1, g)
         /\ E.opens = D.opens
         /\ D.abandoned => E.edits = D.edits
<1> DEFINE F == Draft!EnqueueEdit(D1, D1.changes)
           E == IF F.waits /\ x.nth = F.opens THEN Draft!Release(F) ELSE F
<1>1. Draft!AfterSend(D1, x.nth) = E
  BY DEF Draft!AfterSend
<1>2. /\ x.nth \in Nat /\ 1 <= x.nth /\ x.nth <= D.opens /\ x.text <= D.changes
      /\ x.text \in Draft!Texts /\ x.text \in Nat /\ x.text # Draft!Nothing
  <2>1. x.nth \in 1..MaxChanges /\ x.text \in Draft!Texts
    BY DEF Draft!DraftStates
  <2>2. x.text \in Nat /\ x.text # Draft!Nothing
    BY <2>1, SummaryIsText
  <2>3. x.nth <= D.opens /\ x.text <= D.changes
    BY DEF DraftOK, Core, SendsCounted
  <2> QED
    BY <2>1, <2>2, <2>3
<1>3. /\ D.opens \in Nat /\ D.changes \in Nat /\ D.waits \in BOOLEAN /\ D.finalized \in BOOLEAN
      /\ D.changes \in Draft!Texts
  BY CapIsText DEF Draft!DraftStates
(* Of a draft sent once, this was the send.                                *)
<1>4. D.opens <= 1 =>
        /\ D.opens = 1 /\ x.nth = 1 /\ D.msg = 0 /\ D.edits = {} /\ D.pending = Draft!Nothing
        /\ D1.sends = {} /\ (D.finalized => D.waits)
  <2>1. SUFFICES ASSUME D.opens <= 1
                 PROVE  /\ D.opens = 1 /\ x.nth = 1 /\ D.msg = 0 /\ D.edits = {}
                        /\ D.pending = Draft!Nothing
                        /\ D1.sends = {} /\ (D.finalized => D.waits)
    OBVIOUS
  <2>2. D.opens = 1 /\ x.nth = 1
    BY <1>2, <1>3, <2>1
  <2>3. D.msg = 0 /\ (D.finalized => D.waits)
    BY <2>1 DEF DraftOK, Ends, Draft!Returned
  <2>4. D.edits = {} /\ D.pending = Draft!Nothing
    BY <2>3 DEF DraftOK, Core, Wired
  <2>5. \A y \in D.sends : y.nth = 1
    <3>1. \A y \in D.sends : y.nth \in Nat /\ 1 <= y.nth /\ y.nth <= D.opens
      BY DEF DraftOK, Core, SendsCounted, Draft!DraftStates
    <3> QED
      BY <2>2, <3>1
  <2>6. \A y \in D.sends : y = x
    BY <2>2, <2>5 DEF DraftOK, Core, SendsCounted
  <2> QED
    BY <2>2, <2>3, <2>4, <2>6 DEF Sent
<1>5. Wired(D1, d, B1)
  <2>1. \A e \in D1.edits : e.msg \in DOMAIN B1 /\ B1[e.msg].draft = d
    BY DEF DraftOK, Core, Wired, Sent
  <2>2. D1.msg # 0 => D1.msg \in DOMAIN B1 /\ B1[D1.msg].draft = d
    BY DEF DraftOK, Core, Wired, Sent
  <2>3. /\ \A e, y \in D1.edits : e = y
        /\ D1.msg = 0 => D1.edits = {} /\ D1.pending = Draft!Nothing
        /\ D1.pending # Draft!Nothing => D1.abandoned \/ Draft!Busy(D1)
    BY DEF DraftOK, Core, Wired, Sent, Draft!Busy
  <2> QED
    BY <2>1, <2>2, <2>3 DEF Wired
<1>6. SendsCounted(D1)
  BY DEF DraftOK, Core, SendsCounted, Sent
<1>7. Ordered(D1, B1, D1.changes) /\ Exact(D1, B1, g)
  <2>1. SUFFICES ASSUME D1.opens <= 1, D1.msg # 0
                 PROVE  Ordered(D1, B1, D1.changes) /\ Exact(D1, B1, g)
    BY DEF Ordered, Exact
  <2>2. D1.edits = {} /\ D1.pending = Draft!Nothing /\ D.msg = 0
    BY <1>4, <2>1 DEF Sent
  <2>3. D1.lastSent = x.text /\ B1[D1.msg].text = x.text /\ D1.changes = D.changes
    BY <2>1, <2>2 DEF Sent
  <2> QED
    BY <1>2, <2>2, <2>3 DEF Ordered, Exact
<1>8. Core(D1, d, B1, D1.changes, g) /\ D1.changes \in Draft!Texts
  BY <1>3, <1>5, <1>6, <1>7 DEF Core, Sent
<1>9. /\ F \in Draft!DraftStates /\ Same(D1, F)
      /\ Core(F, d, B1, D1.changes, g) /\ Latest(F, D1.changes)
  BY <1>8, EnqueueKeeps
<1>10. D.abandoned => F.edits = D.edits
  BY DEF Draft!EnqueueEdit, Sent
<1> HIDE DEF F
<1>11. /\ F.opens = D.opens /\ F.sends = D.sends \ {x} /\ F.msg = D1.msg
       /\ F.changes = D.changes /\ D1.changes = D.changes
       /\ F.finalized = D.finalized /\ F.waits = D.waits /\ F.abandoned = D.abandoned
  BY <1>9 DEF Same, Sent
<1>12. CASE F.waits /\ x.nth = F.opens
  <2> DEFINE L == [F EXCEPT !.waits = FALSE]
  <2>1. /\ ~L.waits /\ L.opens = F.opens /\ L.sends = F.sends /\ L.msg = F.msg
        /\ L.finalized = F.finalized
    BY <1>9 DEF Draft!DraftStates
  <2>2. F.finalized
    BY <1>11, <1>12 DEF DraftOK, Ends
  <2> HIDE DEF L
  <2>3. Ends(L)
    BY <1>4, <1>11, <2>1 DEF Ends, Sent
  <2>4. Ends([F EXCEPT !.waits = FALSE])
    BY <2>3 DEF L
  <2> DEFINE G == Draft!Release(F)
  <2>5. /\ G \in Draft!DraftStates /\ DraftOK(G, d, B1, g) /\ G.opens = F.opens
        /\ F.abandoned => G.edits = F.edits
    BY <1>8, <1>9, <2>2, <2>4, ReleaseKeeps
  <2> HIDE DEF G
  <2>6. E = G
    BY <1>12 DEF G
  <2> QED
    BY <1>1, <1>10, <1>11, <2>5, <2>6
<1>13. CASE ~(F.waits /\ x.nth = F.opens)
  <2>1. E = F
    BY <1>13
  <2>2. F.opens <= 1 => ~F.finalized /\ Cap(F) = F.changes
    BY <1>4, <1>11, <1>13 DEF Cap, Draft!Returned
  <2>3. Core(F, d, B1, Cap(F), g) /\ Latest(F, Cap(F))
    BY <1>9, <1>11, <2>2 DEF Core, Ordered, Latest
  <2>4. Ends(F)
    <3>1. F.waits => F.finalized
      BY <1>11 DEF DraftOK, Ends
    <3> QED
      BY <1>4, <1>11, <2>2, <3>1 DEF Ends, Draft!Returned, Sent
  <2> QED
    BY <1>1, <1>9, <1>10, <1>11, <2>1, <2>3, <2>4 DEF DraftOK
<1> QED
  BY <1>12, <1>13

(* An edit is over.                                                        *)
(* Edit e is over, what was B before is B1 then.                            *)
Edited(B, e, B1, g) ==
  /\ DOMAIN B \subseteq DOMAIN B1 /\ B[e.msg].text \in Nat
  /\ \A b \in DOMAIN B : B1[b].draft = B[b].draft
  /\ \/ B1[e.msg].text = e.text
     \/ B1[e.msg].text = B[e.msg].text /\ g # 0

(* What follows an edit is the newest text, or rest.                       *)
LEMMA EditedKeeps ==
  ASSUME NEW D \in Draft!DraftStates, NEW d, NEW B, NEW f, NEW e \in D.edits, NEW B1, NEW g,
         DraftOK(D, d, B, f), Edited(B, e, B1, g)
  PROVE  LET E == Draft!DrainEdits([D EXCEPT !.edits = D.edits \ {e}, !.lastSent = e.text]) IN
         /\ E \in Draft!DraftStates /\ DraftOK(E, d, B1, g) /\ E.opens = D.opens
         /\ D.abandoned => E.edits \subseteq D.edits
         /\ D.opens <= 1 => B[e.msg].text <= e.text
<1> DEFINE F == [D EXCEPT !.edits = D.edits \ {e}, !.lastSent = e.text]
           E == Draft!DrainEdits(F)
<1>0. /\ DOMAIN B \subseteq DOMAIN B1 /\ B[e.msg].text \in Nat
      /\ \A b \in DOMAIN B : B1[b].draft = B[b].draft
      /\ B1[e.msg].text = e.text \/ (B1[e.msg].text = B[e.msg].text /\ g # 0)
  BY DEF Edited
<1>1. /\ e.text \in Draft!Texts /\ e.msg \in Nat /\ e.text \in Nat /\ e.text # Draft!Nothing
      /\ D.edits = {e} /\ D.msg # 0
  <2>1. e.text \in Draft!Texts /\ e.msg \in Nat
    BY DEF Draft!DraftStates
  <2>2. D.edits = {e} /\ D.msg # 0
    BY DEF DraftOK, Core, Wired
  <2> QED
    BY <2>1, <2>2, SummaryIsText
<1>2. /\ F \in Draft!DraftStates /\ F.edits = {} /\ F.lastSent = e.text /\ F.pending = D.pending
      /\ F.changes = D.changes /\ F.tools = D.tools /\ F.armed = D.armed
      /\ F.opens = D.opens /\ F.sends = D.sends /\ F.msg = D.msg
      /\ F.finalized = D.finalized /\ F.abandoned = D.abandoned /\ F.waits = D.waits
  <2>1. D.edits \ {e} = {} /\ e.text \in Draft!Texts \cup {Draft!Nothing}
    BY <1>1
  <2> QED
    BY <2>1 DEF Draft!DraftStates
<1> HIDE DEF F
<1>3. /\ E \in Draft!DraftStates /\ Same(F, E)
      /\ \/ E = F /\ (F.pending = Draft!Nothing \/ F.abandoned)
         \/ /\ E.pending = Draft!Nothing /\ ~F.abandoned /\ F.pending # Draft!Nothing
            /\ \/ E.edits = {} /\ F.pending = F.lastSent
               \/ E.edits = {[msg |-> F.msg, text |-> F.pending]}
  BY <1>2, DrainIs
<1> SUFFICES /\ DraftOK(E, d, B1, g) /\ E.opens = D.opens
             /\ D.abandoned => E.edits \subseteq D.edits
             /\ D.opens <= 1 => B[e.msg].text <= e.text
  BY <1>3 DEF F
<1> HIDE DEF E
<1>4. /\ E.lastSent = e.text
      /\ E.changes = D.changes /\ E.tools = D.tools /\ E.armed = D.armed
      /\ E.opens = D.opens /\ E.sends = D.sends /\ E.msg = D.msg
      /\ E.finalized = D.finalized /\ E.abandoned = D.abandoned /\ E.waits = D.waits
  BY <1>2, <1>3 DEF Same
<1>5. \/ E.edits = {} /\ E.pending = D.pending /\ (D.pending = Draft!Nothing \/ D.abandoned)
      \/ /\ E.pending = Draft!Nothing /\ ~D.abandoned /\ D.pending # Draft!Nothing
         /\ \/ E.edits = {} /\ D.pending = e.text
            \/ E.edits = {[msg |-> D.msg, text |-> D.pending]}
  BY <1>2, <1>3
<1>6. SendsCounted(E) /\ Ends(E) /\ Cap(E) = Cap(D)
  BY <1>4 DEF DraftOK, Core, SendsCounted, Ends, Cap, Draft!Returned
<1>7. Wired(E, d, B1)
  <2>1. D.msg \in DOMAIN B1 /\ B1[D.msg].draft = d
    BY <1>0, <1>1 DEF DraftOK, Core, Wired
  <2> QED
    BY <1>1, <1>4, <1>5, <2>1 DEF Wired, Draft!Busy
<1>8. D.opens <= 1 =>
        /\ e.msg = D.msg /\ B[e.msg].text <= D.lastSent /\ D.lastSent <= e.text
        /\ e.text <= Cap(D)
        /\ D.pending # Draft!Nothing => e.text <= D.pending /\ D.pending <= Cap(D)
        /\ ~D.abandoned /\ D.pending = Draft!Nothing => e.text = Cap(D)
        /\ ~D.abandoned /\ D.pending # Draft!Nothing => D.pending = Cap(D)
  BY <1>1 DEF DraftOK, Core, Ordered, Latest, Draft!Busy
<1>9. Cap(D) \in Nat /\ (D.pending # Draft!Nothing => D.pending \in Nat)
      /\ (D.opens <= 1 => D.lastSent \in Nat)
  <2>1. Cap(D) \in Draft!Texts /\ (D.pending # Draft!Nothing => D.pending \in Draft!Texts)
    BY CapIsText DEF Draft!DraftStates
  <2>2. D.opens <= 1 => D.lastSent \in Draft!Texts
    BY <1>1 DEF DraftOK, Core, Ordered, Draft!DraftStates
  <2> QED
    BY <2>1, <2>2, SummaryIsText
<1>10. D.opens <= 1 => B[e.msg].text <= e.text
  BY <1>0, <1>1, <1>8, <1>9
<1>11. Ordered(E, B1, Cap(D)) /\ Exact(E, B1, g)
  <2>1. SUFFICES ASSUME D.opens <= 1
                 PROVE  Ordered(E, B1, Cap(D)) /\ Exact(E, B1, g)
    BY <1>4 DEF Ordered, Exact
  <2>2. B1[E.msg].text <= E.lastSent /\ Exact(E, B1, g)
    BY <1>0, <1>1, <1>4, <1>8, <1>10, <2>1 DEF Exact
  <2>3. \A y \in E.edits : y.msg = E.msg /\ E.lastSent <= y.text /\ y.text <= Cap(D)
    BY <1>1, <1>4, <1>5, <1>8, <2>1
  <2>4. E.pending # Draft!Nothing =>
          E.edits = {} /\ E.lastSent <= E.pending /\ E.pending <= Cap(D)
    BY <1>1, <1>4, <1>5, <1>8, <2>1
  <2> QED
    BY <1>1, <1>4, <1>8, <2>1, <2>2, <2>3, <2>4 DEF Ordered
<1>12. Latest(E, Cap(D))
  <2>1. SUFFICES ASSUME D.opens <= 1, ~D.abandoned
                 PROVE  /\ E.pending = Draft!Nothing
                        /\ IF Draft!Busy(E) THEN \A y \in E.edits : y.text = Cap(D)
                           ELSE E.lastSent = Cap(D)
    BY <1>4 DEF Latest
  <2>2. CASE E.edits = {} /\ E.pending = D.pending /\ D.pending = Draft!Nothing
    BY <1>4, <1>8, <2>1, <2>2 DEF Draft!Busy
  <2>3. CASE /\ E.pending = Draft!Nothing /\ D.pending # Draft!Nothing
             /\ E.edits = {} /\ D.pending = e.text
    BY <1>4, <1>8, <2>1, <2>3 DEF Draft!Busy
  <2>4. CASE /\ E.pending = Draft!Nothing /\ D.pending # Draft!Nothing
             /\ E.edits = {[msg |-> D.msg, text |-> D.pending]}
    BY <1>8, <2>1, <2>4 DEF Draft!Busy
  <2> QED
    BY <1>5, <2>1, <2>2, <2>3, <2>4
<1>13. D.abandoned => E.edits \subseteq D.edits
  BY <1>5
<1> QED
  BY <1>4, <1>6, <1>7, <1>10, <1>11, <1>12, <1>13 DEF DraftOK, Core

DraftRest ==
  /\ draftAgent \in [ query : 1..MaxQueries, piped : 0..(MaxQueries - 1),
                      at : {"working", "read", "waiting", "dead"}, delivering : BOOLEAN ]
  /\ draftTurn \in [boundary : BOOLEAN, ahead : BOOLEAN]
  /\ tail \in {"none", "running", "over"}
  /\ draftFaults \in 0..MaxFaults

(* What NeverBack says of a step.                                          *)
Forward ==
  /\ \A b \in DOMAIN bubbles :
       Draft!SentOnce(bubbles[b].draft) => bubbles'[b].text >= bubbles[b].text
  /\ \A d \in Draft!Drafts :
       /\ Draft!Ended(drafts[d]) => drafts'[d].opens = drafts[d].opens
       /\ drafts[d].abandoned => drafts'[d].edits \subseteq drafts[d].edits

(* What the types say of drafts and bubbles.                               *)
LEMMA SequenceFacts ==
  ASSUME Draft!TypeOK
  PROVE  /\ drafts \in Seq(Draft!DraftStates) /\ Len(drafts) \in Nat
         /\ DOMAIN drafts = 1..Len(drafts)
         /\ \A d \in DOMAIN drafts : drafts[d] \in Draft!DraftStates
         /\ DOMAIN bubbles = 1..Len(bubbles) /\ Len(bubbles) \in Nat
         /\ \A b \in DOMAIN bubbles : /\ bubbles[b].draft \in DOMAIN drafts
                                      /\ bubbles[b].text \in Nat
                                      /\ bubbles[b] \in [draft : DOMAIN drafts, text : Draft!Texts]
         /\ DraftRest
<1>1. /\ drafts \in Seq(Draft!DraftStates) /\ Len(drafts) \in Nat
      /\ DOMAIN drafts = 1..Len(drafts)
      /\ \A d \in DOMAIN drafts : drafts[d] \in Draft!DraftStates
  BY DEF Draft!TypeOK
<1>2. DOMAIN bubbles = 1..Len(bubbles) /\ Len(bubbles) \in Nat
      /\ \A b \in DOMAIN bubbles : bubbles[b] \in [draft : 1..Len(drafts), text : Draft!Texts]
  <2> DEFINE S == [draft : 1..Len(drafts), text : Draft!Texts]
  <2>1. bubbles \in Seq(S)
    BY DEF Draft!TypeOK
  <2> HIDE DEF S
  <2>2. DOMAIN bubbles = 1..Len(bubbles) /\ Len(bubbles) \in Nat
        /\ \A b \in DOMAIN bubbles : bubbles[b] \in S
    BY <2>1
  <2> QED
    BY <2>2 DEF S
<1>3. \A b \in DOMAIN bubbles : bubbles[b].text \in Nat
  BY <1>2, SummaryIsText
<1>4. DraftRest
  BY DEF Draft!TypeOK, DraftRest
<1> QED
  BY <1>1, <1>2, <1>3, <1>4

(* A step of one draft, to E.                                              *)
LEMMA OneDraft ==
  ASSUME DraftInv, NEW d \in DOMAIN drafts, NEW E \in Draft!DraftStates,
         drafts' = [drafts EXCEPT ![d] = E],
         bubbles' \in Seq([draft : DOMAIN drafts, text : Draft!Texts]),
         DOMAIN bubbles \subseteq DOMAIN bubbles',
         \A b \in DOMAIN bubbles :
           /\ bubbles'[b].draft = bubbles[b].draft
           /\ bubbles[b].draft # d => bubbles'[b] = bubbles[b]
           /\ drafts[d].opens <= 1 => bubbles[b].text <= bubbles'[b].text,
         DraftRest', draftFaults' = 0 => draftFaults = 0,
         progressDraft' \in {0, progressDraft},
         DraftOK(E, d, bubbles', draftFaults'),
         Draft!Ended(drafts[d]) => E.opens = drafts[d].opens,
         drafts[d].abandoned => E.edits \subseteq drafts[d].edits
  PROVE  DraftInv' /\ Forward
<1>1. Draft!TypeOK
  BY DEF DraftInv
<1>2. drafts' \in Seq(Draft!DraftStates) /\ DOMAIN drafts' = DOMAIN drafts /\ Len(drafts') = Len(drafts)
  BY <1>1, SequenceFacts
<1>3. drafts'[d] = E /\ \A c \in DOMAIN drafts : c # d => drafts'[c] = drafts[c]
  BY <1>1, SequenceFacts
<1>4. Draft!TypeOK'
  <2>1. progressDraft' \in 0..Len(drafts')
    BY <1>1, <1>2, SequenceFacts DEF Draft!TypeOK
  <2>2. bubbles' \in Seq([draft : 1..Len(drafts'), text : Draft!Texts])
    BY <1>1, <1>2, SequenceFacts
  <2> QED
    BY <1>2, <2>1, <2>2 DEF DraftRest, Draft!TypeOK, Draft!Texts, Draft!DraftStates, Draft!Nothing,
       Draft!Summary
<1>5. ASSUME NEW c \in DOMAIN drafts, c # d
      PROVE  DraftOK(drafts[c], c, bubbles', draftFaults')
  <2> DEFINE C == drafts[c]
  <2>1. DraftOK(C, c, bubbles, draftFaults)
    BY DEF DraftInv
  <2> HIDE DEF C
  <2>2. Wired(C, c, bubbles')
    BY <2>1 DEF DraftOK, Core, Wired
  <2>3. C.msg # 0 => C.msg \in DOMAIN bubbles /\ bubbles'[C.msg] = bubbles[C.msg]
    BY <1>5, <2>1 DEF DraftOK, Core, Wired
  <2>4. Ordered(C, bubbles', Cap(C)) /\ Exact(C, bubbles', draftFaults')
    BY <2>1, <2>3 DEF DraftOK, Core, Ordered, Exact
  <2>5. DraftOK(C, c, bubbles', draftFaults')
    BY <2>1, <2>2, <2>4 DEF DraftOK, Core
  <2> QED
    BY <2>5 DEF C
<1>6. DraftInv'
  BY <1>2, <1>3, <1>4, <1>5 DEF DraftInv
<1>7. Forward
  <2>1. ASSUME NEW b \in DOMAIN bubbles, Draft!SentOnce(bubbles[b].draft)
        PROVE  bubbles'[b].text >= bubbles[b].text
    <3>1. bubbles[b].text \in Nat
      BY <1>1, SequenceFacts
    <3>2. CASE bubbles[b].draft = d
      BY <2>1, <3>1, <3>2 DEF Draft!SentOnce
    <3>3. CASE bubbles[b].draft # d
      BY <3>1, <3>3
    <3> QED
      BY <3>2, <3>3
  <2>2. \A c \in DOMAIN drafts :
          /\ Draft!Ended(drafts[c]) => drafts'[c].opens = drafts[c].opens
          /\ drafts[c].abandoned => drafts'[c].edits \subseteq drafts[c].edits
    BY <1>3
  <2> QED
    BY <2>1, <2>2 DEF Forward, Draft!Drafts
<1> QED
  BY <1>6, <1>7

(* A step that writes no bubble.                                           *)
LEMMA QuietDraft ==
  ASSUME DraftInv, NEW d \in DOMAIN drafts, NEW E \in Draft!DraftStates,
         drafts' = [drafts EXCEPT ![d] = E], UNCHANGED bubbles, DraftRest',
         draftFaults' = 0 => draftFaults = 0, progressDraft' \in {0, progressDraft},
         DraftOK(E, d, bubbles, draftFaults'),
         Draft!Ended(drafts[d]) => E.opens = drafts[d].opens,
         drafts[d].abandoned => E.edits \subseteq drafts[d].edits
  PROVE  DraftInv' /\ Forward
<1>1. Draft!TypeOK
  BY DEF DraftInv
<1>2. /\ bubbles' \in Seq([draft : DOMAIN drafts, text : Draft!Texts])
      /\ \A b \in DOMAIN bubbles : bubbles[b].text \in Nat
  BY <1>1, SequenceFacts DEF Draft!TypeOK
<1>3. \A b \in DOMAIN bubbles :
        /\ bubbles'[b].draft = bubbles[b].draft
        /\ bubbles[b].draft # d => bubbles'[b] = bubbles[b]
        /\ drafts[d].opens <= 1 => bubbles[b].text <= bubbles'[b].text
  BY <1>2
<1>4. DOMAIN bubbles \subseteq DOMAIN bubbles' /\ DraftOK(E, d, bubbles', draftFaults')
  OBVIOUS
<1> QED
  BY <1>2, <1>3, <1>4, OneDraft

(* A step that leaves the drafts alone.                                    *)
LEMMA NoDraft ==
  ASSUME DraftInv, UNCHANGED <<drafts, bubbles>>, DraftRest',
         draftFaults' = 0 => draftFaults = 0, progressDraft' \in {0, progressDraft}
  PROVE  DraftInv' /\ Forward
<1>1. Draft!TypeOK
  BY DEF DraftInv
<1>2. Draft!TypeOK'
  <2>1. progressDraft' \in 0..Len(drafts')
    BY <1>1, SequenceFacts DEF Draft!TypeOK
  <2>2. bubbles' \in Seq([draft : 1..Len(drafts'), text : Draft!Texts])
    BY <1>1 DEF Draft!TypeOK
  <2>3. drafts' \in Seq(Draft!DraftStates)
    BY <1>1 DEF Draft!TypeOK
  <2> QED
    BY <2>1, <2>2, <2>3 DEF DraftRest, Draft!TypeOK, Draft!Texts, Draft!DraftStates,
       Draft!Nothing, Draft!Summary
<1>3. \A d \in DOMAIN drafts : DraftOK(drafts[d], d, bubbles', draftFaults')
  BY DEF DraftInv, DraftOK, Core, Exact
<1>4. Forward
  BY <1>1, SequenceFacts DEF Forward
<1> QED
  BY <1>2, <1>3, <1>4 DEF DraftInv

(* A failure shows in the count.                                           *)
LEMMA FaultCounts ==
  ASSUME Draft!TypeOK, Draft!Fault
  PROVE  draftFaults' \in 0..MaxFaults /\ draftFaults' # 0
BY LanesAssumption DEF Draft!TypeOK, Draft!Fault

\* src/progress-draft.ts: scheduleOpen
LEMMA TimerFiresStep ==
  ASSUME DraftInv, NEW d \in DOMAIN drafts, Draft!TimerFires(d)
  PROVE  DraftInv' /\ Forward
<1> DEFINE D == drafts[d]
           L == [D EXCEPT !.armed = FALSE]
           E == Draft!OpenDraftNow(L)
<1>1. D \in Draft!DraftStates /\ DraftOK(D, d, bubbles, draftFaults) /\ D.armed /\ DraftRest'
  BY SequenceFacts DEF DraftInv, Draft!TimerFires, DraftRest
<1>2. drafts' = [drafts EXCEPT ![d] = E] /\ UNCHANGED <<bubbles, progressDraft, draftFaults>>
  BY DEF Draft!TimerFires
<1> HIDE DEF D
<1>3. /\ L \in Draft!DraftStates /\ DraftOK(L, d, bubbles, draftFaults) /\ ~L.armed
      /\ L.opens = D.opens /\ L.edits = D.edits /\ L.opens + 1 <= L.changes
      /\ Draft!Ended(L) = Draft!Ended(D)
  BY <1>1, DisarmedKeeps
<1> HIDE DEF L
<1>4. /\ E \in Draft!DraftStates /\ DraftOK(E, d, bubbles, draftFaults)
      /\ E.edits = L.edits /\ (Draft!Ended(L) => E.opens = L.opens)
  BY <1>3, OpenKeeps
<1> HIDE DEF E
<1>5. /\ Draft!Ended(drafts[d]) => E.opens = drafts[d].opens
      /\ drafts[d].abandoned => E.edits \subseteq drafts[d].edits
  BY <1>3, <1>4 DEF D
<1> QED
  BY <1>1, <1>2, <1>4, <1>5, QuietDraft

\* src/progress-draft-transport.ts: sendDraft
LEMMA SendDraftReturnsStep ==
  ASSUME DraftInv, NEW d \in DOMAIN drafts, Draft!SendDraftReturns(d)
  PROVE  DraftInv' /\ Forward
<1>1. Draft!TypeOK
  BY DEF DraftInv
<1>2. PICK x \in drafts[d].sends :
        LET D == [drafts[d] EXCEPT !.sends = @ \ {x}] IN
        /\ \/ /\ bubbles' = Append(bubbles, [draft |-> d, text |-> x.text])
              /\ drafts' = [drafts EXCEPT ![d] =
                   Draft!AfterSend([D EXCEPT !.msg = Len(bubbles) + 1, !.lastSent = x.text], x.nth)]
              /\ UNCHANGED draftFaults
           \/ /\ Draft!Fault
              /\ drafts' = [drafts EXCEPT ![d] = Draft!AfterSend(D, x.nth)]
              /\ UNCHANGED bubbles
        /\ Draft!Forget(d)
        /\ UNCHANGED <<draftAgent, draftTurn, tail>>
  BY DEF Draft!SendDraftReturns
<1> DEFINE D == drafts[d]
           L == [D EXCEPT !.sends = @ \ {x}]
           M == [L EXCEPT !.msg = Len(bubbles) + 1, !.lastSent = x.text]
<1>3. /\ D \in Draft!DraftStates /\ DraftOK(D, d, bubbles, draftFaults)
      /\ progressDraft' \in {0, progressDraft}
  BY <1>1, <1>2, SequenceFacts DEF DraftInv, Draft!Forget
<1>4. /\ Len(bubbles) \in Nat /\ DOMAIN bubbles = 1..Len(bubbles)
      /\ x.text \in Draft!Texts /\ x.text \in Nat
  <2>1. x.text \in Draft!Texts
    BY <1>3 DEF Draft!DraftStates
  <2> QED
    BY <1>1, <2>1, SequenceFacts, SummaryIsText
<1>5. /\ L \in Draft!DraftStates
      /\ L.changes = D.changes /\ L.tools = D.tools /\ L.armed = D.armed
      /\ L.opens = D.opens /\ L.sends = D.sends \ {x} /\ L.edits = D.edits
      /\ L.pending = D.pending /\ L.finalized = D.finalized
      /\ L.abandoned = D.abandoned /\ L.waits = D.waits
      /\ L.msg = D.msg /\ L.lastSent = D.lastSent
  BY <1>3 DEF Draft!DraftStates
<1>6. /\ M \in Draft!DraftStates /\ M.msg = Len(bubbles) + 1 /\ M.lastSent = x.text
      /\ M.changes = D.changes /\ M.tools = D.tools /\ M.armed = D.armed
      /\ M.opens = D.opens /\ M.sends = D.sends \ {x} /\ M.edits = D.edits
      /\ M.pending = D.pending /\ M.finalized = D.finalized
      /\ M.abandoned = D.abandoned /\ M.waits = D.waits
  <2>1. Len(bubbles) + 1 \in Nat /\ x.text \in Draft!Texts \cup {Draft!Nothing}
    BY <1>4
  <2>2. M = [L EXCEPT !.msg = Len(bubbles) + 1, !.lastSent = x.text]
    OBVIOUS
  <2> HIDE DEF L, M
  <2> QED
    BY <1>5, <2>1, <2>2 DEF Draft!DraftStates
<1>7. CASE /\ bubbles' = Append(bubbles, [draft |-> d, text |-> x.text])
           /\ drafts' = [drafts EXCEPT ![d] = Draft!AfterSend(M, x.nth)]
           /\ UNCHANGED draftFaults
  <2> DEFINE E == Draft!AfterSend(M, x.nth)
  <2>1. /\ bubbles' \in Seq([draft : DOMAIN drafts, text : Draft!Texts])
        /\ DOMAIN bubbles \subseteq DOMAIN bubbles'
        /\ \A b \in DOMAIN bubbles : bubbles'[b] = bubbles[b]
        /\ Len(bubbles) + 1 \in DOMAIN bubbles'
        /\ bubbles'[Len(bubbles) + 1] = [draft |-> d, text |-> x.text]
    <3> DEFINE S == [draft : DOMAIN drafts, text : Draft!Texts]
    <3>1. bubbles \in Seq(S) /\ [draft |-> d, text |-> x.text] \in S
      BY <1>1, <1>4, SequenceFacts DEF Draft!TypeOK
    <3> HIDE DEF S
    <3>2. /\ bubbles' \in Seq(S)
          /\ DOMAIN bubbles \subseteq DOMAIN bubbles'
          /\ \A b \in DOMAIN bubbles : bubbles'[b] = bubbles[b]
          /\ Len(bubbles) + 1 \in DOMAIN bubbles'
          /\ bubbles'[Len(bubbles) + 1] = [draft |-> d, text |-> x.text]
      BY <1>7, <3>1
    <3> QED
      BY <3>2 DEF S
  <2>2. /\ M.msg # 0 /\ M.msg \in DOMAIN bubbles'
        /\ bubbles'[M.msg].draft = d /\ bubbles'[M.msg].text = x.text
    BY <1>4, <1>6, <2>1
  <2> HIDE DEF D, L, M
  <2>3. Sent(D, d, bubbles, draftFaults, x, M, bubbles', draftFaults')
    BY <1>6, <1>7, <2>1, <2>2 DEF Sent
  <2>4. x \in D.sends
    BY DEF D
  <2>5. /\ E \in Draft!DraftStates /\ DraftOK(E, d, bubbles', draftFaults')
        /\ E.opens = D.opens /\ (D.abandoned => E.edits = D.edits)
    BY <1>3, <1>6, <2>3, <2>4, SentKeeps
  <2> HIDE DEF E
  <2>6. \A b \in DOMAIN bubbles :
          /\ bubbles'[b].draft = bubbles[b].draft
          /\ bubbles[b].draft # d => bubbles'[b] = bubbles[b]
          /\ drafts[d].opens <= 1 => bubbles[b].text <= bubbles'[b].text
    BY <1>1, <2>1, SequenceFacts
  <2>7. DraftRest' /\ (draftFaults' = 0 => draftFaults = 0)
    BY <1>1, <1>2, <1>7, SequenceFacts DEF DraftRest
  <2>8. /\ Draft!Ended(drafts[d]) => E.opens = drafts[d].opens
        /\ drafts[d].abandoned => E.edits \subseteq drafts[d].edits
    BY <2>5 DEF D
  <2>9. drafts' = [drafts EXCEPT ![d] = E]
    BY <1>7 DEF E
  <2> QED
    BY <1>3, <2>1, <2>5, <2>6, <2>7, <2>8, <2>9, OneDraft
<1>8. CASE /\ Draft!Fault
           /\ drafts' = [drafts EXCEPT ![d] = Draft!AfterSend(L, x.nth)]
           /\ UNCHANGED bubbles
  <2> DEFINE E == Draft!AfterSend(L, x.nth)
  <2> HIDE DEF D, L, M
  <2>1. DraftRest' /\ draftFaults' # 0
    BY <1>1, <1>2, <1>8, FaultCounts, SequenceFacts DEF DraftRest
  <2>2. Sent(D, d, bubbles, draftFaults, x, L, bubbles, draftFaults')
    BY <1>5, <2>1 DEF Sent
  <2>3. x \in D.sends
    BY DEF D
  <2>4. /\ E \in Draft!DraftStates /\ DraftOK(E, d, bubbles, draftFaults')
        /\ E.opens = D.opens /\ (D.abandoned => E.edits = D.edits)
    BY <1>3, <1>5, <2>2, <2>3, SentKeeps
  <2> HIDE DEF E
  <2>5. /\ Draft!Ended(drafts[d]) => E.opens = drafts[d].opens
        /\ drafts[d].abandoned => E.edits \subseteq drafts[d].edits
    BY <2>4 DEF D
  <2>6. drafts' = [drafts EXCEPT ![d] = E]
    BY <1>8 DEF E
  <2> QED
    BY <1>3, <1>8, <2>1, <2>4, <2>5, <2>6, QuietDraft
<1> QED
  BY <1>2, <1>7, <1>8

\* src/progress-draft-transport.ts: editDraft
LEMMA EditDraftReturnsStep ==
  ASSUME DraftInv, NEW d \in DOMAIN drafts, Draft!EditDraftReturns(d)
  PROVE  DraftInv' /\ Forward
<1>1. Draft!TypeOK
  BY DEF DraftInv
<1>2. PICK e \in drafts[d].edits :
        /\ \/ bubbles' = [bubbles EXCEPT ![e.msg].text = e.text] /\ UNCHANGED draftFaults
           \/ /\ Draft!Fault
              /\ bubbles' \in {bubbles, Append(bubbles, [draft |-> d, text |-> e.text])}
        /\ LET D == [drafts[d] EXCEPT !.edits = @ \ {e}, !.lastSent = e.text] IN
           drafts' = [drafts EXCEPT ![d] = Draft!DrainEdits(D)]
        /\ UNCHANGED <<progressDraft, draftAgent, draftTurn, tail>>
  BY DEF Draft!EditDraftReturns
<1> DEFINE D == drafts[d]
           E == Draft!DrainEdits([D EXCEPT !.edits = D.edits \ {e}, !.lastSent = e.text])
           S == [draft : DOMAIN drafts, text : Draft!Texts]
<1>3. D \in Draft!DraftStates /\ DraftOK(D, d, bubbles, draftFaults) /\ e \in D.edits
  BY <1>1, SequenceFacts DEF DraftInv
<1>4. /\ bubbles \in Seq(S) /\ e.text \in Draft!Texts
      /\ [draft |-> d, text |-> e.text] \in S
      /\ \A b \in DOMAIN bubbles : bubbles[b] \in S
  <2>1. e.text \in Draft!Texts
    BY <1>3 DEF Draft!DraftStates
  <2> QED
    BY <1>1, <2>1, SequenceFacts DEF Draft!TypeOK
<1>5. /\ e.msg \in DOMAIN bubbles /\ bubbles[e.msg].draft = d /\ bubbles[e.msg].text \in Nat
  BY <1>1, <1>3, SequenceFacts DEF DraftOK, Core, Wired
<1>6. drafts' = [drafts EXCEPT ![d] = E]
  BY <1>2
<1>7. /\ bubbles' \in Seq(S) /\ DOMAIN bubbles \subseteq DOMAIN bubbles'
      /\ \A b \in DOMAIN bubbles :
           /\ bubbles'[b].draft = bubbles[b].draft
           /\ b # e.msg => bubbles'[b] = bubbles[b]
      /\ \/ bubbles'[e.msg].text = e.text /\ draftFaults' = draftFaults
         \/ bubbles'[e.msg].text = bubbles[e.msg].text /\ draftFaults' # 0
  <2>1. CASE bubbles' = [bubbles EXCEPT ![e.msg].text = e.text] /\ UNCHANGED draftFaults
    <3> DEFINE y == [bubbles[e.msg] EXCEPT !.text = e.text]
    <3>1. bubbles' = [bubbles EXCEPT ![e.msg] = y]
      BY <2>1
    <3>2. y \in S /\ y.draft = bubbles[e.msg].draft /\ y.text = e.text
      BY <1>4, <1>5
    <3> HIDE DEF y, S
    <3>3. /\ bubbles' \in Seq(S) /\ DOMAIN bubbles' = DOMAIN bubbles
          /\ bubbles'[e.msg] = y
          /\ \A b \in DOMAIN bubbles : b # e.msg => bubbles'[b] = bubbles[b]
      BY <1>4, <1>5, <3>1, <3>2
    <3> QED
      BY <2>1, <3>2, <3>3
  <2>2. CASE Draft!Fault /\ bubbles' \in {bubbles, Append(bubbles, [draft |-> d, text |-> e.text])}
    <3> HIDE DEF S
    <3>1. draftFaults' # 0
      BY <1>1, <2>2, FaultCounts
    <3>2. CASE bubbles' = bubbles
      BY <1>4, <3>1, <3>2
    <3>3. CASE bubbles' = Append(bubbles, [draft |-> d, text |-> e.text])
      <4>1. /\ bubbles' \in Seq(S) /\ DOMAIN bubbles \subseteq DOMAIN bubbles'
            /\ \A b \in DOMAIN bubbles : bubbles'[b] = bubbles[b]
        BY <1>4, <3>3
      <4> QED
        BY <1>5, <3>1, <4>1
    <3> QED
      BY <2>2, <3>2, <3>3
  <2> QED
    BY <1>2, <2>1, <2>2
<1>8. DraftRest' /\ (draftFaults' = 0 => draftFaults = 0)
  BY <1>1, <1>2, FaultCounts, SequenceFacts DEF DraftRest
<1> HIDE DEF D, S
<1>9. /\ E \in Draft!DraftStates /\ DraftOK(E, d, bubbles', draftFaults') /\ E.opens = D.opens
      /\ D.abandoned => E.edits \subseteq D.edits
      /\ D.opens <= 1 => bubbles[e.msg].text <= e.text
  <2>1. Edited(bubbles, e, bubbles', draftFaults')
    BY <1>5, <1>7 DEF Edited
  <2> QED
    BY <1>3, <2>1, EditedKeeps
<1> HIDE DEF E
<1>10. /\ Draft!Ended(drafts[d]) => E.opens = drafts[d].opens
       /\ drafts[d].abandoned => E.edits \subseteq drafts[d].edits
       /\ drafts[d].opens <= 1 => bubbles[e.msg].text <= e.text
  BY <1>9 DEF D
<1>11. \A b \in DOMAIN bubbles :
         /\ bubbles'[b].draft = bubbles[b].draft
         /\ bubbles[b].draft # d => bubbles'[b] = bubbles[b]
         /\ drafts[d].opens <= 1 => bubbles[b].text <= bubbles'[b].text
  <2>1. \A b \in DOMAIN bubbles : bubbles[b].text \in Nat
    BY <1>1, SequenceFacts
  <2> QED
    BY <1>5, <1>7, <1>10, <2>1
<1>12. bubbles' \in Seq([draft : DOMAIN drafts, text : Draft!Texts])
  BY <1>7 DEF S
<1> QED
  BY <1>2, <1>6, <1>7, <1>8, <1>9, <1>10, <1>11, <1>12, OneDraft

(* A new session has nothing to say.                                       *)
LEMMA NewDraftOK ==
  ASSUME NEW q \in 1..MaxQueries, NEW d, NEW B, NEW f
  PROVE  LET D == Draft!NewDraft(q) IN
         D \in Draft!DraftStates /\ DraftOK(D, d, B, f) /\ D.changes < MaxChanges
<1> DEFINE D == Draft!NewDraft(q)
<1>1. /\ D.changes = 0 /\ D.tools = 0 /\ ~D.armed /\ D.opens = 0 /\ D.sends = {} /\ D.msg = 0
      /\ D.lastSent = Draft!Nothing /\ D.pending = Draft!Nothing /\ D.edits = {}
      /\ ~D.finalized /\ ~D.abandoned /\ ~D.waits
  BY DEF Draft!NewDraft
<1>2. D \in Draft!DraftStates /\ 0 < MaxChanges
  BY LanesAssumption DEF Draft!NewDraft, Draft!DraftStates
<1> HIDE DEF D
<1>3. DraftOK(D, d, B, f)
  BY <1>1 DEF DraftOK, Core, Wired, SendsCounted, Ordered, Exact, Latest, Ends, Draft!Returned,
     Draft!Busy
<1> QED
  BY <1>1, <1>2, <1>3 DEF D

\* src/index.ts: ensureProgressDraft
LEMMA NewDraftStep ==
  ASSUME DraftInv, Draft!ToolStart, progressDraft = 0
  PROVE  DraftInv' /\ Forward
<1> DEFINE E == Draft!ApplyStart(Draft!NewDraft(draftAgent.query))
           n == Len(drafts) + 1
<1>1. Draft!TypeOK /\ DraftRest /\ draftAgent.query \in 1..MaxQueries
  BY SequenceFacts DEF DraftInv, DraftRest
<1>2. /\ drafts' = Append(drafts, E) /\ progressDraft' = n
      /\ UNCHANGED <<bubbles, draftAgent, draftTurn, tail, draftFaults>>
  BY DEF Draft!ToolStart
<1>3. E \in Draft!DraftStates /\ DraftOK(E, n, bubbles, draftFaults)
  BY <1>1, NewDraftOK, ApplyStartKeeps
<1> HIDE DEF E
<1>4. /\ drafts' \in Seq(Draft!DraftStates) /\ Len(drafts') = n /\ n \in Nat
      /\ DOMAIN drafts' = DOMAIN drafts \cup {n} /\ drafts'[n] = E
      /\ \A d \in DOMAIN drafts : d # n /\ drafts'[d] = drafts[d]
      /\ 1..Len(drafts) \subseteq 1..n
  BY <1>1, <1>2, <1>3, SequenceFacts
<1>5. Draft!TypeOK'
  <2>1. bubbles' \in Seq([draft : 1..Len(drafts'), text : Draft!Texts])
    <3> DEFINE S == [draft : 1..Len(drafts), text : Draft!Texts]
               T == [draft : 1..Len(drafts'), text : Draft!Texts]
    <3>1. bubbles' \in Seq(S) /\ S \subseteq T
      BY <1>1, <1>2, <1>4 DEF Draft!TypeOK
    <3> HIDE DEF S, T
    <3>2. bubbles' \in Seq(T)
      BY <3>1
    <3> QED
      BY <3>2 DEF T
  <2>2. DraftRest' /\ progressDraft' \in 0..Len(drafts')
    BY <1>1, <1>2, <1>4 DEF DraftRest
  <2> QED
    BY <1>4, <2>1, <2>2 DEF DraftRest, Draft!TypeOK, Draft!Texts, Draft!DraftStates,
       Draft!Nothing, Draft!Summary
<1>6. \A d \in DOMAIN drafts' : DraftOK(drafts'[d], d, bubbles', draftFaults')
  BY <1>2, <1>3, <1>4 DEF DraftInv
<1>7. Forward
  BY <1>1, <1>2, <1>4, SequenceFacts DEF Forward, Draft!Drafts
<1> QED
  BY <1>5, <1>6, <1>7 DEF DraftInv

\* src/index.ts: abandonProgressDraft
LEMMA AbandonStep ==
  ASSUME DraftInv, Draft!AbandonProgressDraft, UNCHANGED <<bubbles, draftFaults>>, DraftRest'
  PROVE  DraftInv' /\ Forward
<1>1. CASE progressDraft = 0
  BY <1>1, NoDraft DEF Draft!AbandonProgressDraft
<1>2. CASE progressDraft # 0
  <2> DEFINE d == progressDraft
             D == drafts[d]
             E == Draft!Abandon(D)
  <2>1. d \in DOMAIN drafts
    BY <1>2, SequenceFacts DEF DraftInv, Draft!TypeOK
  <2>2. D \in Draft!DraftStates /\ DraftOK(D, d, bubbles, draftFaults)
    BY <2>1, SequenceFacts DEF DraftInv
  <2>3. /\ E \in Draft!DraftStates /\ DraftOK(E, d, bubbles, draftFaults)
        /\ E.opens = drafts[d].opens /\ E.edits = drafts[d].edits
    BY <2>2, AbandonKeeps
  <2>4. drafts' = [drafts EXCEPT ![d] = E] /\ progressDraft' = 0
    BY <1>2 DEF Draft!AbandonProgressDraft
  <2> HIDE DEF D, E
  <2> QED
    BY <2>1, <2>3, <2>4, QuietDraft
<1> QED
  BY <1>1, <1>2

(* What a tool says to the draft there is.                                 *)
LEMMA ToolStep ==
  ASSUME DraftInv, progressDraft # 0, Draft!ToolStart \/ Draft!ToolChange
  PROVE  DraftInv' /\ Forward
<1> DEFINE d == progressDraft
           D == drafts[d]
<1>1. d \in DOMAIN drafts
  BY SequenceFacts DEF DraftInv, Draft!TypeOK
<1>2. D \in Draft!DraftStates /\ DraftOK(D, d, bubbles, draftFaults) /\ DraftRest
  BY <1>1, SequenceFacts DEF DraftInv
<1>3. /\ UNCHANGED <<progressDraft, bubbles, draftAgent, draftTurn, tail, draftFaults>>
      /\ D.changes < MaxChanges
  BY DEF Draft!ToolStart, Draft!ToolChange
<1>4. DraftRest'
  BY <1>2, <1>3 DEF DraftRest
<1>5. PICK E \in {Draft!ApplyStart(D), Draft!ApplyChange(D)} : drafts' = [drafts EXCEPT ![d] = E]
  BY DEF Draft!ToolStart, Draft!ToolChange
<1>6. /\ E \in Draft!DraftStates /\ DraftOK(E, d, bubbles, draftFaults)
      /\ Draft!Ended(D) => E = D
  BY <1>2, <1>3, <1>5, ApplyStartKeeps, ApplyChangeKeeps
<1>7. /\ Draft!Ended(drafts[d]) => E.opens = drafts[d].opens
      /\ drafts[d].abandoned => E.edits \subseteq drafts[d].edits
  BY <1>6 DEF Draft!Ended
<1> QED
  BY <1>1, <1>3, <1>4, <1>5, <1>6, <1>7, QuietDraft

\* src/index.ts: finalizeProgressDraft
LEMMA FinalDeliveredStep ==
  ASSUME DraftInv, Draft!FinalDelivered
  PROVE  DraftInv' /\ Forward
<1>1. DraftRest
  BY SequenceFacts DEF DraftInv
<1>2. DraftRest' /\ UNCHANGED <<bubbles, draftFaults>>
  BY <1>1 DEF DraftRest, Draft!FinalDelivered
<1>3. CASE progressDraft = 0
  BY <1>2, <1>3, NoDraft DEF Draft!FinalDelivered
<1>4. CASE progressDraft # 0
  <2> DEFINE d == progressDraft
             D == drafts[d]
             E == Draft!Finalize(D)
  <2>1. d \in DOMAIN drafts
    BY <1>4, SequenceFacts DEF DraftInv, Draft!TypeOK
  <2>2. D \in Draft!DraftStates /\ DraftOK(D, d, bubbles, draftFaults)
    BY <2>1, SequenceFacts DEF DraftInv
  <2>3. /\ E \in Draft!DraftStates /\ DraftOK(E, d, bubbles, draftFaults)
        /\ E.opens = drafts[d].opens /\ (drafts[d].abandoned => E.edits = drafts[d].edits)
    BY <2>2, FinalizeKeeps
  <2>4. drafts' = [drafts EXCEPT ![d] = E] /\ progressDraft' \in {0, progressDraft}
    BY <1>4 DEF Draft!FinalDelivered
  <2> HIDE DEF D, E
  <2> QED
    BY <1>2, <2>1, <2>3, <2>4, QuietDraft
<1> QED
  BY <1>3, <1>4

(* The agent, the users and the tail.                                      *)
LEMMA OtherDraftStep ==
  ASSUME DraftInv,
         \/ \E final \in BOOLEAN : Draft!Result(final)
         \/ Draft!FinalFails \/ Draft!QueryComplete \/ Draft!HandleComplete \/ Draft!Dies
         \/ Draft!Pipe \/ Draft!NextQuery \/ Draft!FinallyGuard
  PROVE  DraftInv' /\ Forward
<1>1. Draft!TypeOK /\ DraftRest
  BY SequenceFacts DEF DraftInv
<1>2. ASSUME NEW final \in BOOLEAN, Draft!Result(final)
      PROVE  DraftInv' /\ Forward
  <2>1. DraftRest' /\ UNCHANGED <<bubbles, draftFaults>>
    BY <1>1, <1>2 DEF DraftRest, Draft!Result
  <2>2. Draft!AbandonProgressDraft \/ UNCHANGED <<drafts, progressDraft>>
    BY <1>2 DEF Draft!Result
  <2> QED
    BY <2>1, <2>2, AbandonStep, NoDraft
<1>3. CASE Draft!FinalFails
  <2>1. DraftRest' /\ draftFaults' # 0 /\ UNCHANGED <<drafts, bubbles, progressDraft>>
    BY <1>1, <1>3, FaultCounts DEF DraftRest, Draft!FinalFails
  <2> QED
    BY <2>1, NoDraft
<1>4. CASE Draft!QueryComplete \/ Draft!HandleComplete \/ Draft!Dies \/ Draft!Pipe \/ Draft!NextQuery
  <2>1. UNCHANGED <<drafts, bubbles, progressDraft, draftFaults>>
    BY <1>4 DEF Draft!QueryComplete, Draft!HandleComplete, Draft!Dies, Draft!Pipe, Draft!NextQuery
  <2>2. tail' \in {"none", "running", "over"} /\ draftTurn' \in [boundary : BOOLEAN, ahead : BOOLEAN]
    BY <1>1, <1>4 DEF DraftRest, Draft!QueryComplete, Draft!HandleComplete, Draft!Dies, Draft!Pipe,
       Draft!NextQuery
  <2>3. draftAgent' \in [ query : 1..MaxQueries, piped : 0..(MaxQueries - 1),
                          at : {"working", "read", "waiting", "dead"}, delivering : BOOLEAN ]
    <3>1. CASE Draft!QueryComplete \/ Draft!HandleComplete \/ Draft!Dies
      BY <1>1, <3>1 DEF DraftRest, Draft!QueryComplete, Draft!HandleComplete, Draft!Dies
    <3>2. CASE Draft!Pipe
      <4>1. draftAgent.piped + 1 \in 0..(MaxQueries - 1)
        BY <1>1, <3>2, LanesAssumption DEF DraftRest, Draft!Pipe
      <4> QED
        BY <1>1, <3>2, <4>1 DEF DraftRest, Draft!Pipe
    <3>3. CASE Draft!NextQuery
      <4>1. draftAgent.query < MaxQueries
        BY <1>1, <3>3, LanesAssumption DEF DraftRest, Draft!NextQuery
      <4>2. draftAgent.query + 1 \in 1..MaxQueries
        BY <1>1, <4>1, LanesAssumption DEF DraftRest
      <4> QED
        BY <1>1, <3>3, <4>2 DEF DraftRest, Draft!NextQuery
    <3> QED
      BY <1>4, <3>1, <3>2, <3>3
  <2>4. DraftRest'
    BY <1>1, <2>1, <2>2, <2>3 DEF DraftRest
  <2> QED
    BY <2>1, <2>4, NoDraft
<1>5. CASE Draft!FinallyGuard
  <2>1. DraftRest' /\ UNCHANGED <<bubbles, draftFaults>> /\ Draft!AbandonProgressDraft
    BY <1>1, <1>5 DEF DraftRest, Draft!FinallyGuard
  <2> QED
    BY <2>1, AbandonStep
<1> QED
  BY <1>2, <1>3, <1>4, <1>5

(* The invariant of the drafts is inductive, and a step goes forward.      *)
LEMMA DraftStep == DraftInv /\ [Draft!Next]_draftVars => DraftInv' /\ Forward
<1> SUFFICES ASSUME DraftInv, [Draft!Next]_draftVars
             PROVE  DraftInv' /\ Forward
  OBVIOUS
<1>1. CASE UNCHANGED draftVars
  <2>1. DraftRest'
    BY <1>1, SequenceFacts DEF DraftInv, DraftRest, draftVars
  <2> QED
    BY <1>1, <2>1, NoDraft DEF draftVars
<1>2. CASE Draft!Platform
  BY <1>2, SendDraftReturnsStep, EditDraftReturnsStep DEF Draft!Platform, Draft!Drafts
<1>3. CASE \E d \in Draft!Drafts : Draft!TimerFires(d)
  BY <1>3, TimerFiresStep DEF Draft!Drafts
<1>4. CASE Draft!ToolStart \/ Draft!ToolChange
  <2>1. Draft!ToolChange => progressDraft # 0
    BY DEF Draft!ToolChange
  <2> QED
    BY <1>4, <2>1, NewDraftStep, ToolStep
<1>5. CASE Draft!FinalDelivered
  BY <1>5, FinalDeliveredStep
<1>6. CASE \/ \E final \in BOOLEAN : Draft!Result(final)
           \/ Draft!FinalFails \/ Draft!QueryComplete \/ Draft!HandleComplete \/ Draft!Dies
           \/ Draft!Pipe \/ Draft!NextQuery \/ Draft!FinallyGuard
  BY <1>6, OtherDraftStep
<1> QED
  BY <1>1, <1>2, <1>3, <1>4, <1>5, <1>6 DEF Draft!Next

(* It holds at first.                                                      *)
LEMMA DraftInitially == Draft!Init => DraftInv
<1> SUFFICES ASSUME Draft!Init
             PROVE  DraftInv
  OBVIOUS
<1>1. DOMAIN drafts = {} /\ Draft!TypeOK
  BY LanesAssumption DEF Draft!Init, Draft!TypeOK
<1> QED
  BY <1>1 DEF DraftInv

(* Once a draft is at rest, its bubble says what it last had to say.       *)
LEMMA RestIsUpToDate == DraftInv => BubbleUpToDate
<1> SUFFICES ASSUME DraftInv, NEW d \in DOMAIN drafts,
                    drafts[d].msg # 0, drafts[d].opens <= 1, ~Draft!Busy(drafts[d]),
                    ~drafts[d].abandoned, draftFaults = 0
             PROVE  bubbles[drafts[d].msg].text = Cap(drafts[d])
  BY DEF BubbleUpToDate, Draft!BubbleUpToDate, Draft!Drafts, Draft!SentOnce, Cap
<1> DEFINE D == drafts[d]
<1>1. DraftOK(D, d, bubbles, draftFaults)
  BY DEF DraftInv
<1>2. D.pending = Draft!Nothing /\ D.lastSent = Cap(D)
  BY <1>1 DEF DraftOK, Core, Wired, Latest
<1> QED
  BY <1>1, <1>2 DEF DraftOK, Core, Exact

(* Whatever order tools report in, sends and edits are answered in, and    *)
(* the answer, the tail or another query end the draft in: when nothing    *)
(* failed, a bubble at rest says what its session last had to say; no diff *)
(* is lost behind a send, none waits behind an edit.                       *)
THEOREM BubblesUpToDate == Draft!Spec => []BubbleUpToDate
<1>1. Draft!Init => DraftInv
  BY DraftInitially
<1>2. DraftInv /\ [Draft!Next]_(Draft!vars) => DraftInv'
  BY DraftStep DEF draftVars, Draft!vars
<1>3. DraftInv => BubbleUpToDate
  BY RestIsUpToDate
<1> QED
  BY <1>1, <1>2, <1>3, PTL DEF Draft!Spec

(* A bubble that was sent once never goes back to an older text; a draft   *)
(* that was ended is not sent, one that was abandoned is not edited.       *)
THEOREM BubblesNeverBack == Draft!Spec => NeverBack
<1>1. Draft!Init => DraftInv
  BY DraftInitially
<1>2. DraftInv /\ [Draft!Next]_(Draft!vars) => DraftInv'
  BY DraftStep DEF draftVars, Draft!vars
<1>3. DraftInv /\ [Draft!Next]_(Draft!vars) => [Forward]_(Draft!vars)
  BY DraftStep DEF draftVars, Draft!vars
<1>4. Draft!Spec => [][Forward]_(Draft!vars)
  BY <1>1, <1>2, <1>3, PTL DEF Draft!Spec
<1> QED
  BY <1>4 DEF NeverBack, Draft!NeverBack, Forward

(***************************************************************************)
(* ThinkingLane                                                            *)
(***************************************************************************)

Preview == [text : Thinking!Texts, gone : BOOLEAN, query : Thinking!Queries]
LaneStates(n) ==
  [thinkingMsgId : 0..n, rendered : Thinking!Texts, dismissed : BOOLEAN,
   dismissedIn : 0..MaxQueries]
ChainStates(n) ==
  [at : {"free", "opening", "draining", "deleting", "delivering"}, text : Thinking!Texts,
   slot : 0..n, final : BOOLEAN]
AgentStates ==
  [query : Thinking!Queries, piped : 0..(MaxQueries - 1), working : BOOLEAN,
   deltas : Thinking!Texts, answered : SUBSET Thinking!Queries,
   mixed : SUBSET Thinking!Queries]
TurnStates == [thinking : BOOLEAN, result : BOOLEAN, ahead : BOOLEAN, finalized : BOOLEAN]

LaneTyped ==
  /\ slots \in Seq(Thinking!SlotStates) /\ previews \in Seq(Preview)
  /\ lane \in LaneStates(Len(previews)) /\ chain \in ChainStates(Len(slots))
  /\ laneAgent \in AgentStates /\ laneTurn \in TurnStates /\ laneFaults \in 0..MaxFaults

(* A message has one slot at most.                                         *)
Apart ==
  /\ \A k \in DOMAIN slots : slots[k].msg \in DOMAIN previews
  /\ \A j, k \in DOMAIN slots : slots[j].msg = slots[k].msg => j = k

(* The preview that is shown is there, and its slot is in the queue until  *)
(* it was drained.                                                         *)
PreviewShown(id) == id # 0 =>
  /\ ~previews[id].gone
  /\ chain.at # "deleting" => \A k \in DOMAIN slots : slots[k].msg = id => slots[k].listed
  /\ chain.at = "deleting" => \A k \in DOMAIN slots : slots[k].msg = id => slots[k].at = "idle"
  /\ chain.at = "draining" => \A k \in DOMAIN slots : slots[k].msg = id => k = chain.slot

(* Nobody edits an orphan, nor shows it.                                   *)
Slotted ==
  \A k \in DOMAIN slots :
    /\ slots[k].at = "editing" => ~previews[slots[k].msg].gone
    /\ slots[k].at = "deleting" =>
         /\ slots[k].orphan \in DOMAIN previews /\ slots[k].orphan # lane.thinkingMsgId
         /\ \A j \in DOMAIN slots : slots[j].msg # slots[k].orphan

Past ==
  /\ \A q \in laneAgent.answered \cup laneAgent.mixed : q <= laneAgent.query
  /\ \A b \in DOMAIN previews : previews[b].query <= laneAgent.query
  /\ ~Thinking!Free => laneAgent.working

(* As long as no call has failed.                                          *)
Calm ==
  /\ Thinking!LastDeltaShown /\ Thinking!PreviewGone
  /\ \A k \in DOMAIN slots : slots[k].at # "deleting"
  /\ lane.dismissed => lane.thinkingMsgId = 0 /\ chain.at \in {"free", "delivering"}
  /\ chain.at \in {"opening", "delivering"} => lane.thinkingMsgId = 0

(* As long as no message was piped into the query, too: there is no        *)
(* preview of it but the one shown, none before the turn's boundary was    *)
(* crossed, and none is opened behind the answer.                          *)
Unmixed ==
  LET q == laneAgent.query IN
  /\ \A b \in DOMAIN previews :
       previews[b].query = q => previews[b].gone \/ b = lane.thinkingMsgId
  /\ laneAgent.working /\ (laneTurn.ahead \/ laneTurn.thinking) /\ ~lane.dismissed =>
       \A b \in DOMAIN previews : previews[b].query # q
  /\ laneAgent.working /\ q \in laneAgent.answered => laneTurn.finalized /\ ~laneTurn.ahead
  /\ ~Thinking!Free => ~laneTurn.ahead
  /\ chain.at = "opening" => ~laneTurn.thinking /\ q \notin laneAgent.answered

LaneInv ==
  /\ LaneTyped /\ Apart /\ PreviewShown(lane.thinkingMsgId) /\ Slotted /\ Past
  /\ laneFaults = 0 => Calm /\ (laneAgent.query \notin laneAgent.mixed => Unmixed)

(* A sequence but for one element, ...                                     *)
LEMMA SequenceChanged ==
  ASSUME NEW S, NEW s \in Seq(S), NEW k \in DOMAIN s, NEW e \in S
  PROVE  LET t == [s EXCEPT ![k] = e] IN
         /\ t \in Seq(S) /\ DOMAIN t = DOMAIN s /\ Len(t) = Len(s) /\ t[k] = e
         /\ \A j \in DOMAIN s : j # k => t[j] = s[j]
OBVIOUS

(* ... with one more, ...                                                  *)
LEMMA SequenceLonger ==
  ASSUME NEW S, NEW s \in Seq(S), NEW e \in S
  PROVE  LET t == Append(s, e)
             n == Len(s) + 1 IN
         /\ t \in Seq(S) /\ DOMAIN t = DOMAIN s \cup {n} /\ Len(t) = n /\ t[n] = e
         /\ \A j \in DOMAIN s : j # n /\ t[j] = s[j]
         /\ n # 0 /\ n \in Nat
OBVIOUS

(* ... and with all of them changed.                                       *)
LEMMA SequenceMapped ==
  ASSUME NEW S, NEW s \in Seq(S), NEW t \in [DOMAIN s -> S]
  PROVE  t \in Seq(S) /\ DOMAIN t = DOMAIN s /\ Len(t) = Len(s)
<1>1. Len(s) \in Nat /\ DOMAIN s = 1..Len(s)
  OBVIOUS
<1>2. t \in Seq(S)
  BY <1>1
<1>3. Len(t) \in Nat /\ DOMAIN t = 1..Len(t) /\ 1..Len(t) = 1..Len(s)
  BY <1>1, <1>2
<1>4. Len(t) = Len(s)
  BY <1>1, <1>3
<1> QED
  BY <1>2, <1>3, <1>4

(* What the types say of slots and previews.                               *)
LEMMA LaneFacts ==
  ASSUME LaneTyped
  PROVE  /\ Len(slots) \in Nat /\ DOMAIN slots = 1..Len(slots)
         /\ \A k \in DOMAIN slots : slots[k] \in Thinking!SlotStates
         /\ Len(previews) \in Nat /\ DOMAIN previews = 1..Len(previews)
         /\ \A b \in DOMAIN previews : previews[b] \in Preview
BY DEF LaneTyped

(* A failure shows in the count.                                           *)
LEMMA LaneFaultCounts ==
  ASSUME laneFaults \in 0..MaxFaults, Thinking!Fault
  PROVE  laneFaults' \in 0..MaxFaults /\ laneFaults' # 0
BY LanesAssumption DEF Thinking!Fault

(* drain() and onOrphan take the slots of a message out of the queue, ...  *)
LEMMA UnlistIs ==
  ASSUME NEW s \in Seq(Thinking!SlotStates), NEW m
  PROVE  LET t == Thinking!Unlist(s, m) IN
         /\ t \in Seq(Thinking!SlotStates) /\ DOMAIN t = DOMAIN s /\ Len(t) = Len(s)
         /\ \A k \in DOMAIN s :
              /\ t[k].msg = s[k].msg /\ t[k].latest = s[k].latest /\ t[k].at = s[k].at
              /\ t[k].orphan = s[k].orphan /\ (t[k].listed => s[k].listed)
              /\ t[k].listed => s[k].msg # m
              /\ s[k].msg # m => t[k] = s[k]
<1> DEFINE t == Thinking!Unlist(s, m)
<1>1. t = [k \in DOMAIN s |-> IF s[k].msg = m THEN [s[k] EXCEPT !.listed = FALSE] ELSE s[k]]
  BY DEF Thinking!Unlist
<1>2. \A k \in DOMAIN s :
        /\ t[k] \in Thinking!SlotStates
        /\ t[k].msg = s[k].msg /\ t[k].latest = s[k].latest /\ t[k].at = s[k].at
        /\ t[k].orphan = s[k].orphan /\ (t[k].listed => s[k].listed)
        /\ t[k].listed => s[k].msg # m
        /\ s[k].msg # m => t[k] = s[k]
  <2> SUFFICES ASSUME NEW k \in DOMAIN s
               PROVE  /\ t[k] \in Thinking!SlotStates
                      /\ t[k].msg = s[k].msg /\ t[k].latest = s[k].latest /\ t[k].at = s[k].at
                      /\ t[k].orphan = s[k].orphan /\ (t[k].listed => s[k].listed)
                      /\ t[k].listed => s[k].msg # m
                      /\ s[k].msg # m => t[k] = s[k]
    OBVIOUS
  <2>1. s[k] \in Thinking!SlotStates
    OBVIOUS
  <2>2. CASE s[k].msg = m
    <3>1. t[k] = [s[k] EXCEPT !.listed = FALSE]
      BY <1>1, <2>2
    <3> HIDE DEF t
    <3> QED
      BY <2>1, <2>2, <3>1 DEF Thinking!SlotStates
  <2>3. CASE s[k].msg # m
    <3>1. t[k] = s[k]
      BY <1>1, <2>3
    <3> HIDE DEF t
    <3> QED
      BY <2>1, <2>3, <3>1
  <2> QED
    BY <2>2, <2>3
<1>3. t \in [DOMAIN s -> Thinking!SlotStates]
  BY <1>1, <1>2
<1> HIDE DEF t
<1>4. t \in Seq(Thinking!SlotStates) /\ DOMAIN t = DOMAIN s /\ Len(t) = Len(s)
  BY <1>3, SequenceMapped
<1>5. /\ t \in Seq(Thinking!SlotStates) /\ DOMAIN t = DOMAIN s /\ Len(t) = Len(s)
      /\ \A k \in DOMAIN s :
           /\ t[k].msg = s[k].msg /\ t[k].latest = s[k].latest /\ t[k].at = s[k].at
           /\ t[k].orphan = s[k].orphan /\ (t[k].listed => s[k].listed)
           /\ t[k].listed => s[k].msg # m
           /\ s[k].msg # m => t[k] = s[k]
  BY <1>2, <1>4
<1> QED
  BY <1>5 DEF t

(* ... clear() all of them.                                                *)
LEMMA ClearIs ==
  ASSUME NEW s \in Seq(Thinking!SlotStates)
  PROVE  LET t == Thinking!Clear(s) IN
         /\ t \in Seq(Thinking!SlotStates) /\ DOMAIN t = DOMAIN s /\ Len(t) = Len(s)
         /\ \A k \in DOMAIN s :
              /\ t[k].msg = s[k].msg /\ t[k].latest = s[k].latest /\ t[k].at = s[k].at
              /\ t[k].orphan = s[k].orphan /\ ~t[k].listed
<1> DEFINE t == Thinking!Clear(s)
<1>1. t = [k \in DOMAIN s |-> [s[k] EXCEPT !.listed = FALSE]]
  BY DEF Thinking!Clear
<1>2. \A k \in DOMAIN s :
        /\ t[k] \in Thinking!SlotStates
        /\ t[k].msg = s[k].msg /\ t[k].latest = s[k].latest /\ t[k].at = s[k].at
        /\ t[k].orphan = s[k].orphan /\ ~t[k].listed
  <2> SUFFICES ASSUME NEW k \in DOMAIN s
               PROVE  /\ t[k] \in Thinking!SlotStates
                      /\ t[k].msg = s[k].msg /\ t[k].latest = s[k].latest /\ t[k].at = s[k].at
                      /\ t[k].orphan = s[k].orphan /\ ~t[k].listed
    OBVIOUS
  <2>1. s[k] \in Thinking!SlotStates /\ t[k] = [s[k] EXCEPT !.listed = FALSE]
    BY <1>1
  <2> HIDE DEF t
  <2> QED
    BY <2>1 DEF Thinking!SlotStates
<1>3. t \in [DOMAIN s -> Thinking!SlotStates]
  BY <1>1, <1>2
<1> HIDE DEF t
<1>4. t \in Seq(Thinking!SlotStates) /\ DOMAIN t = DOMAIN s /\ Len(t) = Len(s)
  BY <1>3, SequenceMapped
<1>5. /\ t \in Seq(Thinking!SlotStates) /\ DOMAIN t = DOMAIN s /\ Len(t) = Len(s)
      /\ \A k \in DOMAIN s :
           /\ t[k].msg = s[k].msg /\ t[k].latest = s[k].latest /\ t[k].at = s[k].at
           /\ t[k].orphan = s[k].orphan /\ ~t[k].listed
  BY <1>2, <1>4
<1> QED
  BY <1>5 DEF t

(* What a settled edit leaves the slot to do.                              *)
LEMMA GoOnIs ==
  ASSUME NEW S \in Thinking!SlotStates
  PROVE  LET E == Thinking!GoOn(S) IN
         /\ E \in Thinking!SlotStates
         /\ E.msg = S.msg /\ E.latest = S.latest /\ E.orphan = S.orphan /\ E.listed = S.listed
         /\ E.at \in {"idle", "editing"}
         /\ E.at = "idle" => S.latest = S.snapshot
<1>1. CASE S.latest = S.snapshot
  <2>1. Thinking!GoOn(S) = [S EXCEPT !.at = "idle"]
    BY <1>1 DEF Thinking!GoOn
  <2> QED
    BY <1>1, <2>1 DEF Thinking!SlotStates
<1>2. CASE S.latest # S.snapshot
  <2>1. Thinking!GoOn(S) = [S EXCEPT !.latest = S.latest, !.snapshot = S.latest, !.at = "editing"]
    BY <1>2 DEF Thinking!GoOn, Thinking!Edits
  <2> QED
    BY <1>2, <2>1 DEF Thinking!SlotStates
<1> QED
  BY <1>1, <1>2

\* src/flash-edit-coalescer.ts: the worker
LEMMA EditSettlesStep ==
  ASSUME LaneInv, NEW k \in DOMAIN slots, Thinking!EditSettles(k)
  PROVE  LaneInv'
<1> DEFINE S == slots[k]
           E == Thinking!GoOn(S)
<1>1. LaneTyped /\ Apart /\ PreviewShown(lane.thinkingMsgId) /\ Slotted /\ Past
  BY DEF LaneInv
<1>2. /\ S.at = "editing" /\ slots' = [slots EXCEPT ![k] = E]
      /\ UNCHANGED <<lane, chain, laneAgent, laneTurn>>
      /\ \/ /\ previews' = [previews EXCEPT ![S.msg].text = S.snapshot]
            /\ ~previews[S.msg].gone /\ UNCHANGED laneFaults
         \/ Thinking!Fault /\ UNCHANGED previews
  BY DEF Thinking!EditSettles
<1>3. S \in Thinking!SlotStates /\ S.msg \in DOMAIN previews
  BY <1>1, LaneFacts DEF Apart
<1>4. /\ E \in Thinking!SlotStates
      /\ E.msg = S.msg /\ E.latest = S.latest /\ E.orphan = S.orphan /\ E.listed = S.listed
      /\ E.at \in {"idle", "editing"}
      /\ E.at = "idle" => S.latest = S.snapshot
  BY <1>3, GoOnIs
<1> HIDE DEF E
<1>5. /\ slots' \in Seq(Thinking!SlotStates) /\ DOMAIN slots' = DOMAIN slots
      /\ Len(slots') = Len(slots) /\ slots'[k] = E
      /\ \A j \in DOMAIN slots : j # k => slots'[j] = slots[j]
  BY <1>1, <1>2, <1>4, SequenceChanged DEF LaneTyped
<1>6. /\ previews' \in Seq(Preview) /\ DOMAIN previews' = DOMAIN previews
      /\ Len(previews') = Len(previews)
      /\ \A b \in DOMAIN previews :
           /\ previews'[b].gone = previews[b].gone /\ previews'[b].query = previews[b].query
           /\ b # S.msg => previews'[b] = previews[b]
      /\ laneFaults' \in 0..MaxFaults
      /\ laneFaults' = 0 => laneFaults = 0 /\ previews'[S.msg].text = S.snapshot
  <2>1. CASE previews' = [previews EXCEPT ![S.msg].text = S.snapshot] /\ UNCHANGED laneFaults
    <3> DEFINE y == [previews[S.msg] EXCEPT !.text = S.snapshot]
    <3>1. previews' = [previews EXCEPT ![S.msg] = y]
      BY <2>1
    <3>2. /\ y \in Preview /\ y.gone = previews[S.msg].gone /\ y.query = previews[S.msg].query
          /\ y.text = S.snapshot
      <4>1. previews[S.msg] \in Preview /\ S.snapshot \in Thinking!Texts
        BY <1>1, <1>3, LaneFacts DEF Thinking!SlotStates
      <4> QED
        BY <4>1 DEF Preview
    <3> HIDE DEF y, S
    <3>3. /\ previews' \in Seq(Preview) /\ DOMAIN previews' = DOMAIN previews
          /\ Len(previews') = Len(previews) /\ previews'[S.msg] = y
          /\ \A b \in DOMAIN previews : b # S.msg => previews'[b] = previews[b]
      BY <1>1, <1>3, <3>1, <3>2, SequenceChanged DEF LaneTyped
    <3> QED
      BY <1>1, <2>1, <3>2, <3>3 DEF LaneTyped
  <2>2. CASE Thinking!Fault /\ UNCHANGED previews
    BY <1>1, <2>2, LaneFaultCounts DEF LaneTyped
  <2> QED
    BY <1>2, <2>1, <2>2
<1> HIDE DEF S
<1>7. LaneTyped'
  BY <1>1, <1>2, <1>5, <1>6 DEF LaneTyped, Preview, Thinking!SlotStates, Thinking!Texts,
     Thinking!Queries, LaneStates, ChainStates, AgentStates, TurnStates
<1>8. \A j \in DOMAIN slots : slots'[j].msg = slots[j].msg /\ slots'[j].listed = slots[j].listed
                              /\ slots'[j].orphan = slots[j].orphan
                              /\ (slots'[j].at = "idle" \/ slots'[j].at = slots[j].at)
                              /\ (slots[j].at = "idle" => slots'[j].at = "idle")
  BY <1>2, <1>4, <1>5 DEF S
<1>9. Apart'
  BY <1>1, <1>5, <1>6, <1>8 DEF Apart
<1>10. PreviewShown(lane.thinkingMsgId)'
  BY <1>1, <1>2, <1>5, <1>6, <1>8, LaneFacts DEF PreviewShown, LaneTyped, LaneStates
<1>11. Slotted'
  BY <1>1, <1>2, <1>5, <1>6, <1>8 DEF Slotted, Apart
<1>12. Past'
  BY <1>1, <1>2, <1>6 DEF Past, Thinking!Free
<1>13. ASSUME laneFaults' = 0
       PROVE  Calm' /\ ((laneAgent.query \notin laneAgent.mixed)' => Unmixed')
  <2>1. Calm /\ (laneAgent.query \notin laneAgent.mixed => Unmixed)
    BY <1>6, <1>13 DEF LaneInv
  <2>2. Thinking!LastDeltaShown'
    <3> SUFFICES ASSUME NEW j \in DOMAIN slots, slots'[j].listed, slots'[j].at = "idle"
                 PROVE  previews'[slots'[j].msg].text = slots'[j].latest
      BY <1>5 DEF Thinking!LastDeltaShown
    <3>1. CASE j = k
      BY <1>4, <1>5, <1>6, <1>13, <3>1 DEF S
    <3>2. CASE j # k
      BY <1>1, <1>5, <1>6, <2>1, <3>2 DEF S, Apart, Calm, Thinking!LastDeltaShown
    <3> QED
      BY <3>1, <3>2
  <2>3. Calm'
    <3>1. Thinking!PreviewGone'
      BY <1>2, <1>6, <2>1 DEF Calm, Thinking!PreviewGone
    <3>2. \A j \in DOMAIN slots' : slots'[j].at # "deleting"
      BY <1>5, <1>8, <2>1 DEF Calm
    <3> QED
      BY <1>2, <2>1, <2>2, <3>1, <3>2 DEF Calm
  <2>4. laneAgent.query \notin laneAgent.mixed => Unmixed'
    BY <1>2, <1>6, <2>1 DEF Unmixed, Thinking!Free
  <2> QED
    BY <1>2, <2>3, <2>4
<1> QED
  BY <1>7, <1>9, <1>10, <1>11, <1>12, <1>13 DEF LaneInv

\* src/channels/telegram.ts: editMessage
LEMMA EditFallsBackStep ==
  ASSUME LaneInv, NEW k \in DOMAIN slots, Thinking!EditFallsBack(k)
  PROVE  LaneInv'
<1> DEFINE S == slots[k]
           n == Len(previews) + 1
           E == [S EXCEPT !.at = "deleting", !.orphan = n]
           y == [text |-> S.snapshot, gone |-> FALSE, query |-> previews[S.msg].query]
<1>1. LaneTyped /\ Apart /\ PreviewShown(lane.thinkingMsgId) /\ Slotted /\ Past
  BY DEF LaneInv
<1>2. S \in Thinking!SlotStates /\ S.msg \in DOMAIN previews /\ previews[S.msg] \in Preview
  BY <1>1, LaneFacts DEF Apart
<1>3. /\ S.at = "editing" /\ slots' = [slots EXCEPT ![k] = E] /\ previews' = Append(previews, y)
      /\ UNCHANGED <<lane, chain, laneAgent, laneTurn>>
      /\ IF previews[S.msg].gone THEN UNCHANGED laneFaults ELSE Thinking!Fault
  BY DEF Thinking!EditFallsBack
<1>4. laneFaults' \in 0..MaxFaults /\ laneFaults' # 0
  BY <1>1, <1>3, LaneFaultCounts DEF Slotted, LaneTyped
<1>5. y \in Preview /\ y.query = previews[S.msg].query
  BY <1>2 DEF Preview, Thinking!SlotStates
<1> HIDE DEF y
<1>6. /\ previews' \in Seq(Preview) /\ DOMAIN previews' = DOMAIN previews \cup {n}
      /\ Len(previews') = n /\ previews'[n] = y /\ n \in Nat /\ n # 0
      /\ \A b \in DOMAIN previews : b # n /\ previews'[b] = previews[b]
  BY <1>1, <1>3, <1>5, SequenceLonger DEF LaneTyped
<1>7. /\ E \in Thinking!SlotStates /\ E.msg = S.msg /\ E.listed = S.listed
      /\ E.at = "deleting" /\ E.orphan = n
  BY <1>2, <1>6 DEF Thinking!SlotStates
<1> HIDE DEF E
<1>8. /\ slots' \in Seq(Thinking!SlotStates) /\ DOMAIN slots' = DOMAIN slots
      /\ Len(slots') = Len(slots) /\ slots'[k] = E
      /\ \A j \in DOMAIN slots : j # k => slots'[j] = slots[j]
  BY <1>1, <1>3, <1>7, SequenceChanged DEF LaneTyped
<1>9. /\ lane' \in LaneStates(n) /\ lane.thinkingMsgId # n
      /\ lane.thinkingMsgId # 0 => lane.thinkingMsgId \in DOMAIN previews
  BY <1>1, <1>3, <1>6, LaneFacts DEF LaneTyped, LaneStates
<1> HIDE DEF n
<1>10. LaneTyped'
  BY <1>1, <1>3, <1>4, <1>6, <1>8, <1>9 DEF LaneTyped, Preview, Thinking!SlotStates,
     Thinking!Texts, Thinking!Queries, LaneStates, ChainStates, AgentStates, TurnStates
<1>11. \A j \in DOMAIN slots : slots'[j].msg = slots[j].msg /\ slots'[j].listed = slots[j].listed
  BY <1>7, <1>8
<1> HIDE DEF S
<1>12. Apart'
  BY <1>1, <1>6, <1>8, <1>11 DEF Apart
<1>13. PreviewShown(lane.thinkingMsgId)'
  BY <1>1, <1>3, <1>6, <1>8, <1>9, <1>11 DEF PreviewShown, S
<1>14. Slotted'
  BY <1>1, <1>3, <1>6, <1>7, <1>8, <1>9, <1>11 DEF Slotted, Apart
<1>15. Past'
  BY <1>1, <1>2, <1>3, <1>5, <1>6 DEF Past, Thinking!Free
<1> QED
  BY <1>4, <1>10, <1>12, <1>13, <1>14, <1>15 DEF LaneInv

\* src/flash-edit-coalescer.ts: onOrphan
LEMMA OrphanDeletedStep ==
  ASSUME LaneInv, NEW k \in DOMAIN slots, Thinking!OrphanDeleted(k)
  PROVE  LaneInv'
<1> DEFINE S == slots[k]
           E == [S EXCEPT !.at = "idle", !.orphan = 0]
           T == [slots EXCEPT ![k] = E]
           o == S.orphan
<1>1. LaneTyped /\ Apart /\ PreviewShown(lane.thinkingMsgId) /\ Slotted /\ Past
  BY DEF LaneInv
<1>2. S \in Thinking!SlotStates /\ S.msg \in DOMAIN previews
  BY <1>1, LaneFacts DEF Apart
<1>3. /\ S.at = "deleting" /\ slots' = Thinking!Unlist(T, S.msg)
      /\ UNCHANGED <<chain, laneAgent, laneTurn>>
      /\ lane' = [lane EXCEPT !.thinkingMsgId = 0, !.dismissed = TRUE,
                    !.dismissedIn = IF lane.dismissed THEN lane.dismissedIn ELSE laneAgent.query]
      /\ \/ previews' = [previews EXCEPT ![o].gone = TRUE] /\ UNCHANGED laneFaults
         \/ Thinking!Fault /\ UNCHANGED previews
  BY DEF Thinking!OrphanDeleted
<1>4. /\ laneFaults # 0 /\ laneFaults' # 0 /\ laneFaults' \in 0..MaxFaults
      /\ o \in DOMAIN previews /\ \A j \in DOMAIN slots : slots[j].msg # o
  <2>1. laneFaults # 0
    BY <1>3 DEF LaneInv, Calm
  <2> QED
    BY <1>1, <1>3, <2>1, LaneFaultCounts DEF Slotted, LaneTyped
<1>5. E \in Thinking!SlotStates /\ E.msg = S.msg /\ E.at = "idle"
  BY <1>2 DEF Thinking!SlotStates
<1> HIDE DEF E
<1>6. /\ T \in Seq(Thinking!SlotStates) /\ DOMAIN T = DOMAIN slots /\ Len(T) = Len(slots)
      /\ T[k] = E /\ \A j \in DOMAIN slots : j # k => T[j] = slots[j]
  BY <1>1, <1>5, SequenceChanged DEF LaneTyped
<1> HIDE DEF T, S
<1>7. /\ slots' \in Seq(Thinking!SlotStates) /\ DOMAIN slots' = DOMAIN T /\ Len(slots') = Len(T)
      /\ \A j \in DOMAIN T : slots'[j].msg = T[j].msg /\ slots'[j].at = T[j].at
                             /\ slots'[j].orphan = T[j].orphan
  BY <1>3, <1>6, UnlistIs
<1>8. /\ previews' \in Seq(Preview) /\ DOMAIN previews' = DOMAIN previews
      /\ Len(previews') = Len(previews)
      /\ \A b \in DOMAIN previews :
           previews'[b].query = previews[b].query /\ (b # o => previews'[b] = previews[b])
  <2>1. CASE previews' = [previews EXCEPT ![o].gone = TRUE]
    <3> DEFINE y == [previews[o] EXCEPT !.gone = TRUE]
    <3>1. previews' = [previews EXCEPT ![o] = y]
      BY <2>1
    <3>2. y \in Preview /\ y.query = previews[o].query
      BY <1>1, <1>4, LaneFacts DEF Preview
    <3> HIDE DEF y, o
    <3> QED
      BY <1>1, <1>4, <3>1, <3>2, SequenceChanged DEF LaneTyped
  <2>2. CASE UNCHANGED previews
    BY <1>1, <2>2 DEF LaneTyped
  <2> QED
    BY <1>3, <2>1, <2>2
<1>9. lane'.thinkingMsgId = 0 /\ lane' \in LaneStates(Len(previews'))
  <2>1. laneAgent.query \in 0..MaxQueries
    BY <1>1, LanesAssumption DEF LaneTyped, AgentStates, Thinking!Queries
  <2>2. 0 \in 0..Len(previews) /\ lane \in LaneStates(Len(previews))
    BY <1>1, LaneFacts DEF LaneTyped
  <2> DEFINE v == IF lane.dismissed THEN lane.dismissedIn ELSE laneAgent.query
  <2>3. v \in 0..MaxQueries
    BY <2>1, <2>2 DEF LaneStates
  <2>4. lane' = [lane EXCEPT !.thinkingMsgId = 0, !.dismissed = TRUE, !.dismissedIn = v]
    BY <1>3
  <2> HIDE DEF v
  <2> QED
    BY <1>8, <2>2, <2>3, <2>4 DEF LaneStates
<1>10. LaneTyped'
  BY <1>1, <1>3, <1>4, <1>6, <1>7, <1>8, <1>9 DEF LaneTyped, Preview, Thinking!SlotStates,
     Thinking!Texts, Thinking!Queries, LaneStates, ChainStates, AgentStates, TurnStates
<1>11. \A j \in DOMAIN slots : /\ slots'[j].msg = slots[j].msg
                               /\ j # k => slots'[j].at = slots[j].at /\ slots'[j].orphan = slots[j].orphan
                               /\ j = k => slots'[j].at = "idle"
  BY <1>5, <1>6, <1>7 DEF S
<1>12. DOMAIN slots' = DOMAIN slots
  BY <1>6, <1>7
<1>13. Apart' /\ PreviewShown(lane.thinkingMsgId)'
  BY <1>1, <1>8, <1>9, <1>11, <1>12 DEF Apart, PreviewShown
<1>14. Slotted'
  <2> SUFFICES ASSUME NEW j \in DOMAIN slots, j # k
               PROVE  /\ slots[j].at = "editing" => ~previews'[slots[j].msg].gone
                      /\ slots[j].at = "deleting" =>
                           /\ slots[j].orphan \in DOMAIN previews /\ slots[j].orphan # 0
                           /\ \A i \in DOMAIN slots : slots[i].msg # slots[j].orphan
    BY <1>8, <1>9, <1>11, <1>12 DEF Slotted
  <2>1. slots[j].msg \in DOMAIN previews /\ slots[j].msg # o
    BY <1>1, <1>4 DEF Apart
  <2>2. 0 \notin DOMAIN previews
    BY <1>1, LaneFacts
  <2> QED
    BY <1>1, <1>8, <2>1, <2>2 DEF Slotted
<1>15. Past'
  BY <1>1, <1>3, <1>8 DEF Past, Thinking!Free
<1> QED
  BY <1>4, <1>10, <1>13, <1>14, <1>15 DEF LaneInv

(* What a delta does to the slots: the one of the preview, if there is any *)
(* is busy or starts an edit; if there is none there is one then.          *)
Enqueued(s, t, id) ==
  /\ t \in Seq(Thinking!SlotStates) /\ Len(s) <= Len(t) /\ DOMAIN s \subseteq DOMAIN t
  /\ \A k \in DOMAIN s :
       /\ t[k].msg = s[k].msg /\ t[k].orphan = s[k].orphan /\ t[k].listed = s[k].listed
       /\ s[k].msg # id => t[k] = s[k]
       /\ s[k].msg = id => t[k].at = (IF s[k].at = "idle" THEN "editing" ELSE s[k].at)
  /\ \A k \in DOMAIN t \ DOMAIN s :
       /\ t[k].msg = id /\ t[k].at = "editing" /\ t[k].listed
       /\ \A j \in DOMAIN s : s[j].msg # id
       /\ \A j \in DOMAIN t \ DOMAIN s : j = k

(* An edit starts.                                                         *)
LEMMA EditsIs ==
  ASSUME NEW S \in Thinking!SlotStates, NEW text \in Thinking!Texts
  PROVE  LET E == Thinking!Edits(S, text) IN
         /\ E \in Thinking!SlotStates /\ E.at = "editing"
         /\ E.msg = S.msg /\ E.orphan = S.orphan /\ E.listed = S.listed
<1>1. Thinking!Edits(S, text) = [S EXCEPT !.latest = text, !.snapshot = text, !.at = "editing"]
  BY DEF Thinking!Edits
<1> QED
  BY <1>1 DEF Thinking!SlotStates

\* src/flash-edit-coalescer.ts: enqueue
LEMMA EnqueueSlots ==
  ASSUME LaneTyped, NEW id \in DOMAIN previews, NEW text \in Thinking!Texts,
         \A k \in DOMAIN slots : slots[k].msg = id => slots[k].listed,
         Thinking!Enqueue(id, text)
  PROVE  Enqueued(slots, slots', id)
<1>0. 0 \in Thinking!Texts /\ id \in Nat
  BY LaneFacts, LanesAssumption DEF Thinking!Texts
<1>1. CASE Thinking!SlotOf(id) = {}
  <2> DEFINE N == [msg |-> id, latest |-> 0, snapshot |-> 0, at |-> "idle", orphan |-> 0,
                   listed |-> TRUE]
             E == Thinking!Edits(N, text)
             n == Len(slots) + 1
  <2>1. slots' = Append(slots, E)
    BY <1>1 DEF Thinking!Enqueue
  <2>2. N \in Thinking!SlotStates /\ N.msg = id /\ N.listed
    BY <1>0 DEF Thinking!SlotStates
  <2> HIDE DEF N
  <2>3. E \in Thinking!SlotStates /\ E.at = "editing" /\ E.msg = id /\ E.listed
    BY <2>2, EditsIs
  <2> HIDE DEF E
  <2>4. /\ slots' \in Seq(Thinking!SlotStates) /\ DOMAIN slots' = DOMAIN slots \cup {n}
        /\ Len(slots') = n /\ slots'[n] = E
        /\ \A j \in DOMAIN slots : j # n /\ slots'[j] = slots[j]
    BY <2>1, <2>3, SequenceLonger DEF LaneTyped
  <2>5. \A j \in DOMAIN slots : slots[j].msg # id
    BY <1>1 DEF Thinking!SlotOf
  <2>6. Len(slots) <= Len(slots')
    BY <2>4, LaneFacts
  <2> QED
    BY <2>3, <2>4, <2>5, <2>6 DEF Enqueued
<1>2. CASE Thinking!SlotOf(id) # {}
  <2>1. \A k \in DOMAIN slots : k \in Thinking!SlotOf(id) <=> slots[k].msg = id
    BY DEF Thinking!SlotOf
  <2>2. slots' = [k \in DOMAIN slots |->
                    CASE k \notin Thinking!SlotOf(id) -> slots[k]
                      [] k \in Thinking!SlotOf(id) /\ slots[k].at = "idle"
                           -> Thinking!Edits(slots[k], text)
                      [] OTHER -> [slots[k] EXCEPT !.latest = text]]
    BY <1>2 DEF Thinking!Enqueue
  <2>3. ASSUME NEW k \in DOMAIN slots
        PROVE  /\ slots'[k] \in Thinking!SlotStates
               /\ slots'[k].msg = slots[k].msg /\ slots'[k].orphan = slots[k].orphan
               /\ slots'[k].listed = slots[k].listed
               /\ slots[k].msg # id => slots'[k] = slots[k]
               /\ slots[k].msg = id =>
                    slots'[k].at = (IF slots[k].at = "idle" THEN "editing" ELSE slots[k].at)
    <3> DEFINE S == slots[k]
    <3>0. S \in Thinking!SlotStates
      BY LaneFacts
    <3>1. CASE S.msg # id
      <4>1. slots'[k] = S
        BY <2>1, <2>2, <3>1
      <4> HIDE DEF S
      <4> QED
        BY <3>0, <3>1, <4>1 DEF S
    <3>2. CASE S.msg = id /\ S.at = "idle"
      <4>1. slots'[k] = Thinking!Edits(S, text)
        BY <2>1, <2>2, <3>2
      <4> QED
        BY <3>0, <3>2, <4>1, EditsIs
    <3>3. CASE S.msg = id /\ S.at # "idle"
      <4>1. slots'[k] = [S EXCEPT !.latest = text]
        BY <2>1, <2>2, <3>3
      <4>2. /\ [S EXCEPT !.latest = text] \in Thinking!SlotStates
            /\ [S EXCEPT !.latest = text].msg = S.msg
            /\ [S EXCEPT !.latest = text].orphan = S.orphan
            /\ [S EXCEPT !.latest = text].listed = S.listed
            /\ [S EXCEPT !.latest = text].at = S.at
        BY <3>0 DEF Thinking!SlotStates
      <4> QED
        BY <3>3, <4>1, <4>2
    <3> QED
      BY <3>1, <3>2, <3>3
  <2>4. slots' \in [DOMAIN slots -> Thinking!SlotStates]
    BY <2>2, <2>3
  <2>5. slots' \in Seq(Thinking!SlotStates) /\ DOMAIN slots' = DOMAIN slots /\ Len(slots') = Len(slots)
    BY <2>4, SequenceMapped DEF LaneTyped
  <2>6. Len(slots) <= Len(slots')
    BY <2>5, LaneFacts
  <2> QED
    BY <2>3, <2>5, <2>6 DEF Enqueued
<1> QED
  BY <1>1, <1>2

\* src/index.ts: the turn's number and its boundaries
LEMMA SeenIs ==
  ASSUME laneTurn \in TurnStates
  PROVE  LET s == Thinking!Seen IN
         /\ s \in TurnStates /\ [s EXCEPT !.thinking = FALSE] \in TurnStates
         /\ [s EXCEPT !.result = FALSE] \in TurnStates
         /\ ~s.ahead /\ (s.thinking <=> laneTurn.thinking \/ laneTurn.ahead)
         /\ ~laneTurn.ahead => s.finalized = laneTurn.finalized
         /\ ~[s EXCEPT !.thinking = FALSE].ahead /\ ~[s EXCEPT !.thinking = FALSE].thinking
         /\ [s EXCEPT !.thinking = FALSE].finalized = s.finalized
         /\ ~[s EXCEPT !.result = FALSE].ahead
         /\ [s EXCEPT !.result = FALSE].thinking = s.thinking
         /\ [s EXCEPT !.result = FALSE].finalized = s.finalized
<1>1. CASE laneTurn.ahead
  <2>1. Thinking!Seen = [thinking |-> TRUE, result |-> TRUE, ahead |-> FALSE, finalized |-> FALSE]
    BY <1>1 DEF Thinking!Seen
  <2> QED
    BY <1>1, <2>1 DEF TurnStates
<1>2. CASE ~laneTurn.ahead
  <2>1. Thinking!Seen = laneTurn
    BY <1>2 DEF Thinking!Seen
  <2> QED
    BY <1>2, <2>1 DEF TurnStates
<1> QED
  BY <1>1, <1>2

(* A delta that shows nothing.                                             *)
LEMMA SilentDelta ==
  ASSUME LaneInv, laneTurn' \in TurnStates, laneAgent' \in AgentStates, Thinking!Free,
         UNCHANGED <<lane, slots, previews, chain, laneFaults>>,
         laneAgent'.query = laneAgent.query, laneAgent'.working = laneAgent.working,
         laneAgent'.answered = laneAgent.answered, laneAgent'.mixed = laneAgent.mixed,
         laneTurn' = laneTurn \/ (lane.dismissed /\ laneTurn' = Thinking!Seen),
         lane.dismissed => ~(laneTurn.finalized /\ ~laneTurn.ahead) \/ laneTurn' = laneTurn
  PROVE  LaneInv'
<1>1. LaneTyped /\ Apart /\ PreviewShown(lane.thinkingMsgId) /\ Slotted /\ Past
  BY DEF LaneInv
<1>2. LaneTyped'
  BY <1>1 DEF LaneTyped, Preview, Thinking!SlotStates, Thinking!Texts, Thinking!Queries,
     LaneStates, ChainStates, AgentStates, TurnStates
<1>3. Apart' /\ PreviewShown(lane.thinkingMsgId)' /\ Slotted' /\ Past'
  BY <1>1 DEF Apart, PreviewShown, Slotted, Past, Thinking!Free
<1>4. ASSUME laneFaults = 0
      PROVE  Calm' /\ (laneAgent.query \notin laneAgent.mixed => Unmixed')
  <2>1. Calm /\ (laneAgent.query \notin laneAgent.mixed => Unmixed)
    BY <1>4 DEF LaneInv
  <2>2. Calm'
    BY <2>1 DEF Calm, Thinking!LastDeltaShown, Thinking!PreviewGone
  <2>3. ASSUME laneAgent.query \notin laneAgent.mixed
        PROVE  Unmixed'
    <3>1. CASE laneTurn' = laneTurn
      BY <2>1, <2>3, <3>1 DEF Unmixed, Thinking!Free
    <3>2. CASE lane.dismissed /\ laneTurn' = Thinking!Seen /\ ~(laneTurn.finalized /\ ~laneTurn.ahead)
      <4>1. ~(laneAgent.working /\ laneAgent.query \in laneAgent.answered)
        BY <2>1, <2>3, <3>2 DEF Unmixed
      <4> QED
        BY <2>1, <2>3, <3>2, <4>1 DEF Unmixed, Thinking!Free
    <3> QED
      BY <3>1, <3>2
  <2> QED
    BY <2>2, <2>3
<1> QED
  BY <1>2, <1>3, <1>4 DEF LaneInv

(* A delta that opens a preview.                                           *)
LEMMA OpeningDelta ==
  ASSUME LaneInv, Thinking!Free, laneAgent.working, laneTurn' \in TurnStates,
         laneAgent' \in AgentStates,
         laneAgent'.query = laneAgent.query, laneAgent'.working = laneAgent.working,
         laneAgent'.answered = laneAgent.answered, laneAgent'.mixed = laneAgent.mixed,
         UNCHANGED <<previews, laneFaults>>, NEW text \in Thinking!Texts,
         chain' = [at |-> "opening", text |-> text, slot |-> 0, final |-> FALSE],
         ~lane.dismissed, ~(laneTurn.finalized /\ ~laneTurn.ahead),
         ~laneTurn'.ahead, ~laneTurn'.thinking,
         \/ lane' = lane /\ slots' = slots /\ lane.thinkingMsgId = 0
         \/ /\ lane' = Thinking!Fresh /\ slots' = Thinking!Clear(slots)
            /\ laneTurn.ahead \/ laneTurn.thinking
  PROVE  LaneInv'
<1>1. LaneTyped /\ Apart /\ PreviewShown(lane.thinkingMsgId) /\ Slotted /\ Past
  BY DEF LaneInv
<1>2. /\ lane' \in LaneStates(Len(previews)) /\ lane'.thinkingMsgId = 0
      /\ lane'.dismissed = lane.dismissed
  <2>1. 0 \in 0..Len(previews) /\ 0 \in Thinking!Texts /\ lane \in LaneStates(Len(previews))
    BY <1>1, LaneFacts, LanesAssumption DEF LaneTyped, Thinking!Texts
  <2>2. Thinking!Fresh = [lane EXCEPT !.thinkingMsgId = 0, !.rendered = 0]
    BY DEF Thinking!Fresh
  <2>3. /\ Thinking!Fresh \in LaneStates(Len(previews)) /\ Thinking!Fresh.thinkingMsgId = 0
        /\ Thinking!Fresh.dismissed = lane.dismissed
    BY <2>1, <2>2 DEF LaneStates
  <2> QED
    BY <2>1, <2>3
<1>3. /\ slots' \in Seq(Thinking!SlotStates) /\ DOMAIN slots' = DOMAIN slots
      /\ Len(slots') = Len(slots)
      /\ \A k \in DOMAIN slots :
           /\ slots'[k].msg = slots[k].msg /\ slots'[k].at = slots[k].at
           /\ slots'[k].latest = slots[k].latest
           /\ slots'[k].orphan = slots[k].orphan /\ (slots'[k].listed => slots[k].listed)
  <2>1. slots \in Seq(Thinking!SlotStates)
    BY <1>1 DEF LaneTyped
  <2> QED
    BY <2>1, ClearIs
<1>4. chain' \in ChainStates(Len(slots')) /\ chain'.at = "opening"
  <2>1. 0 \in 0..Len(slots')
    BY <1>1, <1>3, LaneFacts
  <2> QED
    BY <2>1 DEF ChainStates
<1>5. LaneTyped'
  BY <1>1, <1>2, <1>3, <1>4 DEF LaneTyped, Preview, Thinking!SlotStates, Thinking!Texts,
     Thinking!Queries, LaneStates, ChainStates, AgentStates, TurnStates
<1>6. 0 \notin DOMAIN previews
  BY <1>1, LaneFacts
<1>7. Apart' /\ PreviewShown(lane.thinkingMsgId)'
  BY <1>1, <1>2, <1>3 DEF Apart, PreviewShown
<1>8. Slotted'
  BY <1>1, <1>2, <1>3, <1>6 DEF Slotted
<1>9. Past'
  BY <1>1 DEF Past
<1>10. ASSUME laneFaults = 0
       PROVE  Calm' /\ (laneAgent.query \notin laneAgent.mixed => Unmixed')
  <2>1. Calm /\ (laneAgent.query \notin laneAgent.mixed => Unmixed)
    BY <1>10 DEF LaneInv
  <2>2. Thinking!LastDeltaShown' /\ Thinking!PreviewGone'
    BY <1>3, <2>1 DEF Calm, Thinking!LastDeltaShown, Thinking!PreviewGone
  <2>3. Calm'
    BY <1>2, <1>3, <2>1, <2>2 DEF Calm
  <2>4. ASSUME laneAgent.query \notin laneAgent.mixed
        PROVE  Unmixed'
    <3>1. laneAgent.query \notin laneAgent.answered
      BY <2>1, <2>4 DEF Unmixed
    <3>2. \A b \in DOMAIN previews :
            previews[b].query = laneAgent.query => previews[b].gone \/ b = 0
      BY <2>1, <2>4 DEF Unmixed
    <3> QED
      BY <1>2, <3>1, <3>2 DEF Unmixed
  <2> QED
    BY <2>3, <2>4
<1> QED
  BY <1>5, <1>7, <1>8, <1>9, <1>10 DEF LaneInv

(* A delta of a preview that is shown.                                     *)
LEMMA EditingDelta ==
  ASSUME LaneInv, Thinking!Free, laneAgent.working, laneTurn' \in TurnStates,
         laneAgent' \in AgentStates,
         laneAgent'.query = laneAgent.query, laneAgent'.working = laneAgent.working,
         laneAgent'.answered = laneAgent.answered, laneAgent'.mixed = laneAgent.mixed,
         UNCHANGED <<previews, laneFaults, chain>>, NEW text \in Thinking!Texts,
         lane.thinkingMsgId # 0, lane' = [lane EXCEPT !.rendered = text],
         ~lane.dismissed, ~(laneTurn.finalized /\ ~laneTurn.ahead),
         ~laneTurn'.ahead, ~laneTurn'.thinking,
         slots' = slots \/ Thinking!Enqueue(lane.thinkingMsgId, text)
  PROVE  LaneInv'
<1> DEFINE id == lane.thinkingMsgId
<1>1. LaneTyped /\ Apart /\ PreviewShown(id) /\ Slotted /\ Past
  BY DEF LaneInv
<1>2. /\ lane' \in LaneStates(Len(previews)) /\ lane'.thinkingMsgId = id
      /\ lane'.dismissed = lane.dismissed
  BY <1>1 DEF LaneTyped, LaneStates
<1>3. id \in DOMAIN previews
  BY <1>1, LaneFacts DEF LaneTyped, LaneStates
<1>4. /\ \A k \in DOMAIN slots : slots[k].msg = id => slots[k].listed
      /\ ~previews[id].gone
  BY <1>1 DEF PreviewShown, Thinking!Free
<1> HIDE DEF id
<1>5. CASE slots' = slots
  <2>1. LaneTyped'
    BY <1>1, <1>2, <1>5 DEF LaneTyped, Preview, Thinking!SlotStates, Thinking!Texts,
       Thinking!Queries, LaneStates, ChainStates, AgentStates, TurnStates
  <2>2. Apart' /\ PreviewShown(lane.thinkingMsgId)' /\ Slotted' /\ Past'
    BY <1>1, <1>2, <1>5 DEF Apart, PreviewShown, Slotted, Past, Thinking!Free, id
  <2>3. ASSUME laneFaults = 0
        PROVE  Calm' /\ (laneAgent.query \notin laneAgent.mixed => Unmixed')
    BY <1>2, <1>5, <2>3 DEF LaneInv, Calm, Unmixed, Thinking!LastDeltaShown,
       Thinking!PreviewGone, Thinking!Free, id
  <2> QED
    BY <2>1, <2>2, <2>3 DEF LaneInv
<1>6. CASE Thinking!Enqueue(id, text)
  <2>1. Enqueued(slots, slots', id)
    BY <1>1, <1>3, <1>4, <1>6, EnqueueSlots
  <2>2. chain' \in ChainStates(Len(slots'))
    <3>1. Len(slots) \in Nat /\ Len(slots') \in Nat /\ Len(slots) <= Len(slots')
      BY <1>1, <2>1, LaneFacts DEF Enqueued
    <3>2. 0..Len(slots) \subseteq 0..Len(slots')
      BY <3>1
    <3> QED
      BY <1>1, <3>2 DEF LaneTyped, ChainStates
  <2>3. LaneTyped'
    BY <1>1, <1>2, <2>1, <2>2 DEF Enqueued, LaneTyped, Preview, Thinking!SlotStates,
       Thinking!Texts, Thinking!Queries, LaneStates, ChainStates, AgentStates, TurnStates
  <2>4. Apart'
    BY <1>1, <1>3, <2>1 DEF Apart, Enqueued
  <2>5. PreviewShown(lane.thinkingMsgId)'
    BY <1>2, <1>4, <2>1 DEF PreviewShown, Enqueued, Thinking!Free
  <2>6. Slotted'
    <3> SUFFICES ASSUME NEW k \in DOMAIN slots'
                 PROVE  /\ slots'[k].at = "editing" => ~previews[slots'[k].msg].gone
                        /\ slots'[k].at = "deleting" =>
                             /\ slots'[k].orphan \in DOMAIN previews /\ slots'[k].orphan # id
                             /\ \A j \in DOMAIN slots' : slots'[j].msg # slots'[k].orphan
      BY <1>2 DEF Slotted
    <3>1. CASE k \in DOMAIN slots /\ slots[k].msg # id
      BY <1>1, <2>1, <3>1 DEF Slotted, Enqueued, id
    <3>2. CASE k \in DOMAIN slots /\ slots[k].msg = id
      <4>1. slots'[k].at = "deleting" => slots[k].at = "deleting"
        BY <2>1, <3>2 DEF Enqueued
      <4> QED
        BY <1>1, <1>4, <2>1, <3>2, <4>1 DEF Slotted, Enqueued, id
    <3>3. CASE k \notin DOMAIN slots
      BY <1>4, <2>1, <3>3 DEF Enqueued
    <3> QED
      BY <3>1, <3>2, <3>3
  <2>7. Past'
    BY <1>1 DEF Past, Thinking!Free
  <2>8. ASSUME laneFaults = 0
        PROVE  Calm' /\ (laneAgent.query \notin laneAgent.mixed => Unmixed')
    <3>1. Calm /\ (laneAgent.query \notin laneAgent.mixed => Unmixed)
      BY <2>8 DEF LaneInv
    <3>2. Thinking!LastDeltaShown'
      <4> SUFFICES ASSUME NEW k \in DOMAIN slots', slots'[k].listed, slots'[k].at = "idle"
                   PROVE  previews[slots'[k].msg].text = slots'[k].latest
        BY DEF Thinking!LastDeltaShown
      <4>1. k \in DOMAIN slots /\ slots'[k] = slots[k]
        BY <2>1 DEF Enqueued
      <4> QED
        BY <3>1, <4>1 DEF Calm, Thinking!LastDeltaShown
    <3>3. \A k \in DOMAIN slots' : slots'[k].at # "deleting"
      BY <2>1, <3>1 DEF Calm, Enqueued
    <3>4. Calm'
      BY <1>2, <3>1, <3>2, <3>3 DEF Calm, Thinking!PreviewGone, Thinking!Free, id
    <3>5. laneAgent.query \notin laneAgent.mixed => Unmixed'
      BY <1>2, <3>1 DEF Unmixed, Thinking!Free, id
    <3> QED
      BY <3>4, <3>5
  <2> QED
    BY <2>3, <2>4, <2>5, <2>6, <2>7, <2>8 DEF LaneInv
<1> QED
  BY <1>5, <1>6 DEF id

\* src/index.ts: reasoning_delta
LEMMA ThinkingStep ==
  ASSUME LaneInv, NEW text \in Thinking!Texts, Thinking!Thinking(text)
  PROVE  LaneInv'
<1>1. LaneTyped /\ laneTurn \in TurnStates /\ laneAgent \in AgentStates
  BY DEF LaneInv, LaneTyped
<1>2. /\ Thinking!Free /\ laneAgent.working /\ laneAgent' = [laneAgent EXCEPT !.deltas = text]
      /\ UNCHANGED <<previews, laneFaults>>
  BY DEF Thinking!Thinking, Thinking!Handles
<1>3. /\ laneAgent' \in AgentStates
      /\ laneAgent'.query = laneAgent.query /\ laneAgent'.working = laneAgent.working
      /\ laneAgent'.answered = laneAgent.answered /\ laneAgent'.mixed = laneAgent.mixed
  BY <1>1, <1>2 DEF AgentStates
<1>4. CASE laneTurn.finalized /\ ~laneTurn.ahead
  <2>1. UNCHANGED <<laneTurn, lane, slots, chain>>
    BY <1>4 DEF Thinking!Thinking
  <2> QED
    BY <1>1, <1>2, <1>3, <2>1, SilentDelta
<1>5. CASE ~(laneTurn.finalized /\ ~laneTurn.ahead) /\ lane.dismissed
  <2>1. laneTurn' = Thinking!Seen /\ UNCHANGED <<lane, slots, chain>>
    BY <1>5 DEF Thinking!Thinking
  <2>2. laneTurn' \in TurnStates
    BY <1>1, <2>1, SeenIs
  <2> QED
    BY <1>2, <1>3, <1>5, <2>1, <2>2, SilentDelta
<1>6. CASE ~(laneTurn.finalized /\ ~laneTurn.ahead) /\ ~lane.dismissed
  <2>1. /\ laneTurn' = [Thinking!Seen EXCEPT !.thinking = FALSE]
        /\ IF Thinking!Seen.thinking THEN Thinking!Show(Thinking!Fresh, Thinking!Clear(slots), text)
           ELSE Thinking!Show(lane, slots, text)
    BY <1>6 DEF Thinking!Thinking
  <2>2. laneTurn' \in TurnStates /\ ~laneTurn'.ahead /\ ~laneTurn'.thinking
    BY <1>1, <2>1, SeenIs
  <2>3. CASE Thinking!Seen.thinking
    <3>1. laneTurn.ahead \/ laneTurn.thinking
      BY <1>1, <2>3, SeenIs
    <3>2. Thinking!Fresh.thinkingMsgId = 0
      <4>1. lane \in LaneStates(Len(previews))
        BY <1>1 DEF LaneTyped
      <4> QED
        BY <4>1 DEF Thinking!Fresh, LaneStates
    <3>3. /\ chain' = [at |-> "opening", text |-> text, slot |-> 0, final |-> FALSE]
          /\ lane' = Thinking!Fresh /\ slots' = Thinking!Clear(slots)
      BY <2>1, <2>3, <3>2 DEF Thinking!Show, Thinking!Waits
    <3> QED
      BY <1>2, <1>3, <1>6, <2>2, <3>1, <3>3, OpeningDelta
  <2>4. CASE ~Thinking!Seen.thinking /\ lane.thinkingMsgId = 0
    <3>1. /\ chain' = [at |-> "opening", text |-> text, slot |-> 0, final |-> FALSE]
          /\ lane' = lane /\ slots' = slots
      BY <2>1, <2>4 DEF Thinking!Show, Thinking!Waits
    <3> QED
      BY <1>2, <1>3, <1>6, <2>2, <2>4, <3>1, OpeningDelta
  <2>5. CASE ~Thinking!Seen.thinking /\ lane.thinkingMsgId # 0
    <3>1. /\ lane' = [lane EXCEPT !.rendered = text] /\ UNCHANGED chain
          /\ slots' = slots \/ Thinking!Enqueue(lane.thinkingMsgId, text)
      BY <2>1, <2>5 DEF Thinking!Show
    <3> QED
      BY <1>2, <1>3, <1>6, <2>2, <2>5, <3>1, EditingDelta
  <2> QED
    BY <2>3, <2>4, <2>5
<1> QED
  BY <1>4, <1>5, <1>6

\* src/index.ts: openOnce
LEMMA OpenedStep ==
  ASSUME LaneInv, Thinking!Opened
  PROVE  LaneInv'
<1> DEFINE n == Len(previews) + 1
           y == [text |-> chain.text, gone |-> FALSE, query |-> laneAgent.query]
<1>1. LaneTyped /\ Apart /\ PreviewShown(lane.thinkingMsgId) /\ Slotted /\ Past
  BY DEF LaneInv
<1>2. /\ chain.at = "opening"
      /\ chain' = [at |-> "free", text |-> 0, slot |-> 0, final |-> FALSE]
      /\ UNCHANGED <<slots, laneAgent, laneTurn>>
      /\ \/ /\ previews' = Append(previews, y) /\ UNCHANGED laneFaults
            /\ lane' = [lane EXCEPT !.thinkingMsgId = n, !.rendered = chain.text]
         \/ /\ Thinking!Fault /\ UNCHANGED previews
            /\ lane' = [lane EXCEPT !.rendered = chain.text]
  BY DEF Thinking!Opened, Thinking!Done, Thinking!Waits
<1>3. /\ chain' \in ChainStates(Len(slots)) /\ chain'.at = "free" /\ chain.text \in Thinking!Texts
      /\ lane \in LaneStates(Len(previews)) /\ laneAgent.query \in Thinking!Queries
  <2>1. 0 \in 0..Len(slots) /\ 0 \in Thinking!Texts
    BY <1>1, LaneFacts, LanesAssumption DEF Thinking!Texts
  <2> QED
    BY <1>1, <1>2, <2>1 DEF LaneTyped, LaneStates, ChainStates, AgentStates
<1>4. CASE /\ previews' = Append(previews, y) /\ UNCHANGED laneFaults
           /\ lane' = [lane EXCEPT !.thinkingMsgId = n, !.rendered = chain.text]
  <2>1. y \in Preview /\ ~y.gone /\ y.query = laneAgent.query
    BY <1>3 DEF Preview
  <2> HIDE DEF y
  <2>2. /\ previews' \in Seq(Preview) /\ DOMAIN previews' = DOMAIN previews \cup {n}
        /\ Len(previews') = n /\ previews'[n] = y /\ n # 0 /\ n \in Nat
        /\ \A b \in DOMAIN previews : b # n /\ previews'[b] = previews[b]
    BY <1>1, <1>4, <2>1, SequenceLonger DEF LaneTyped
  <2>3. n \in 0..n
    BY <2>2
  <2> HIDE DEF n
  <2>4. lane' \in LaneStates(n) /\ lane'.thinkingMsgId = n /\ lane'.dismissed = lane.dismissed
    BY <1>3, <1>4, <2>3 DEF LaneStates
  <2>5. LaneTyped'
    BY <1>1, <1>2, <1>3, <1>4, <2>2, <2>4 DEF LaneTyped, Preview, Thinking!SlotStates,
       Thinking!Texts, Thinking!Queries, LaneStates, ChainStates, AgentStates, TurnStates
  <2>6. Apart' /\ PreviewShown(lane.thinkingMsgId)'
    BY <1>1, <1>2, <2>1, <2>2, <2>4 DEF Apart, PreviewShown
  <2>7. Slotted'
    BY <1>1, <1>2, <2>2, <2>4 DEF Slotted, Apart
  <2>8. Past'
    <3>1. laneAgent.query <= laneAgent.query
      BY <1>3 DEF Thinking!Queries
    <3> QED
      BY <1>1, <1>2, <1>3, <2>1, <2>2, <3>1 DEF Past, Thinking!Free
  <2>9. ASSUME laneFaults' = 0
        PROVE  Calm' /\ ((laneAgent.query \notin laneAgent.mixed)' => Unmixed')
    <3>1. Calm /\ (laneAgent.query \notin laneAgent.mixed => Unmixed)
      BY <1>4, <2>9 DEF LaneInv
    <3>2. Thinking!LastDeltaShown'
      BY <1>1, <1>2, <2>2, <3>1 DEF Calm, Thinking!LastDeltaShown, Apart
    <3>3. laneAgent.query \in laneAgent.answered => laneAgent.query \in laneAgent.mixed
      BY <1>2, <3>1 DEF Unmixed
    <3>4. Thinking!PreviewGone'
      BY <1>2, <2>1, <2>2, <3>1, <3>3 DEF Calm, Thinking!PreviewGone
    <3>5. Calm'
      BY <1>2, <1>3, <2>4, <3>1, <3>2, <3>4 DEF Calm
    <3>6. ASSUME laneAgent.query \notin laneAgent.mixed
          PROVE  Unmixed'
      <4>1. \A b \in DOMAIN previews :
              previews[b].query = laneAgent.query => previews[b].gone
        <5>1. lane.thinkingMsgId = 0 /\ 0 \notin DOMAIN previews
          BY <1>1, <1>2, <3>1, LaneFacts DEF Calm
        <5> QED
          BY <3>1, <3>6, <5>1 DEF Unmixed
      <4>2. ~laneTurn.ahead /\ ~laneTurn.thinking
        BY <1>2, <3>1, <3>6 DEF Unmixed, Thinking!Free
      <4> QED
        BY <1>2, <1>3, <2>2, <2>4, <3>1, <3>6, <4>1, <4>2 DEF Unmixed, Thinking!Free
    <3> QED
      BY <1>2, <3>5, <3>6
  <2> QED
    BY <2>5, <2>6, <2>7, <2>8, <2>9 DEF LaneInv
<1>5. CASE /\ Thinking!Fault /\ UNCHANGED previews
           /\ lane' = [lane EXCEPT !.rendered = chain.text]
  <2>1. laneFaults' \in 0..MaxFaults /\ laneFaults' # 0
    BY <1>1, <1>5, LaneFaultCounts DEF LaneTyped
  <2>2. /\ lane' \in LaneStates(Len(previews)) /\ lane'.thinkingMsgId = lane.thinkingMsgId
    BY <1>3, <1>5 DEF LaneStates
  <2>3. LaneTyped'
    BY <1>1, <1>2, <1>3, <1>5, <2>1, <2>2 DEF LaneTyped, Preview, Thinking!SlotStates,
       Thinking!Texts, Thinking!Queries, LaneStates, ChainStates, AgentStates, TurnStates
  <2>4. Apart' /\ PreviewShown(lane.thinkingMsgId)' /\ Slotted' /\ Past'
    BY <1>1, <1>2, <1>3, <1>5, <2>2 DEF Apart, PreviewShown, Slotted, Past, Thinking!Free
  <2> QED
    BY <2>1, <2>3, <2>4 DEF LaneInv
<1> QED
  BY <1>2, <1>4, <1>5

\* src/index.ts: an answer
LEMMA ResultStep ==
  ASSUME LaneInv, NEW final \in BOOLEAN, Thinking!Result(final)
  PROVE  LaneInv'
<1>1. LaneTyped /\ Apart /\ PreviewShown(lane.thinkingMsgId) /\ Slotted /\ Past
  BY DEF LaneInv
<1>2. /\ Thinking!Free /\ laneAgent.working
      /\ laneTurn' = [Thinking!Seen EXCEPT !.result = FALSE]
      /\ UNCHANGED <<lane, slots, previews, laneAgent, laneFaults>>
  BY DEF Thinking!Result, Thinking!Handles
<1>3. /\ laneTurn' \in TurnStates /\ ~laneTurn'.ahead
      /\ (laneTurn'.thinking => laneTurn.thinking \/ laneTurn.ahead)
      /\ ~laneTurn.ahead => laneTurn'.finalized = laneTurn.finalized
  BY <1>1, <1>2, SeenIs DEF LaneTyped
<1>4. \/ /\ chain'.at = "draining" /\ chain' \in ChainStates(Len(slots))
         /\ lane.thinkingMsgId # 0 /\ ~lane.dismissed
         /\ \A k \in DOMAIN slots : slots[k].msg = lane.thinkingMsgId => k = chain'.slot
      \/ /\ chain'.at = "delivering" /\ chain' \in ChainStates(Len(slots))
         /\ lane.thinkingMsgId = 0 \/ lane.dismissed
  <2>1. 0 \in 0..Len(slots) /\ 0 \in Thinking!Texts
    BY <1>1, LaneFacts, LanesAssumption DEF Thinking!Texts
  <2>2. CASE lane.thinkingMsgId # 0 /\ ~lane.dismissed
    <3>1. PICK k \in 0..Len(slots) :
            /\ IF Thinking!SlotOf(lane.thinkingMsgId) = {} THEN k = 0
               ELSE k \in Thinking!SlotOf(lane.thinkingMsgId)
            /\ Thinking!Waits("draining", 0, k, final)
      BY <2>2 DEF Thinking!Result
    <3>2. chain' = [at |-> "draining", text |-> 0, slot |-> k, final |-> final]
      BY <3>1 DEF Thinking!Waits
    <3>3. \A j \in DOMAIN slots : slots[j].msg = lane.thinkingMsgId => j = k
      <4>1. \A j \in DOMAIN slots :
              slots[j].msg = lane.thinkingMsgId => j \in Thinking!SlotOf(lane.thinkingMsgId)
        BY <1>1, <1>2, <2>2 DEF PreviewShown, Thinking!Free, Thinking!SlotOf
      <4> QED
        BY <1>1, <3>1, <4>1 DEF Apart, Thinking!SlotOf
    <3> QED
      BY <2>1, <2>2, <3>2, <3>3 DEF ChainStates
  <2>3. CASE lane.thinkingMsgId = 0 \/ lane.dismissed
    <3>1. chain' = [at |-> "delivering", text |-> 0, slot |-> 0, final |-> final]
      BY <2>3 DEF Thinking!Result, Thinking!Waits
    <3> QED
      BY <2>1, <2>3, <3>1 DEF ChainStates
  <2> QED
    BY <2>2, <2>3
<1>5. LaneTyped'
  BY <1>1, <1>2, <1>3, <1>4 DEF LaneTyped, Preview, Thinking!SlotStates, Thinking!Texts,
     Thinking!Queries, LaneStates, ChainStates, AgentStates, TurnStates
<1>6. PreviewShown(lane.thinkingMsgId)'
  BY <1>1, <1>2, <1>4 DEF PreviewShown, Thinking!Free
<1>7. Apart' /\ Slotted' /\ Past'
  BY <1>1, <1>2 DEF Apart, Slotted, Past
<1>8. ASSUME laneFaults = 0
      PROVE  Calm' /\ (laneAgent.query \notin laneAgent.mixed => Unmixed')
  <2>1. Calm /\ (laneAgent.query \notin laneAgent.mixed => Unmixed)
    BY <1>8 DEF LaneInv
  <2>2. Calm'
    BY <1>2, <1>4, <2>1 DEF Calm, Thinking!LastDeltaShown, Thinking!PreviewGone
  <2>3. laneAgent.query \notin laneAgent.mixed => Unmixed'
    BY <1>2, <1>3, <1>4, <2>1 DEF Unmixed, Thinking!Free
  <2> QED
    BY <2>2, <2>3
<1> QED
  BY <1>2, <1>5, <1>6, <1>7, <1>8 DEF LaneInv

\* src/flash-edit-coalescer.ts: drain
LEMMA DrainedStep ==
  ASSUME LaneInv, Thinking!Drained
  PROVE  LaneInv'
<1>1. LaneTyped /\ Apart /\ PreviewShown(lane.thinkingMsgId) /\ Slotted /\ Past
  BY DEF LaneInv
<1>2. /\ chain.at = "draining" /\ (chain.slot # 0 => slots[chain.slot].at = "idle")
      /\ slots' = IF chain.slot = 0 THEN slots ELSE Thinking!Unlist(slots, slots[chain.slot].msg)
      /\ chain' = [at |-> "deleting", text |-> 0, slot |-> 0, final |-> chain.final]
      /\ UNCHANGED <<lane, previews, laneAgent, laneTurn, laneFaults>>
  BY DEF Thinking!Drained, Thinking!Waits
<1>3. /\ slots' \in Seq(Thinking!SlotStates) /\ DOMAIN slots' = DOMAIN slots
      /\ Len(slots') = Len(slots)
      /\ \A k \in DOMAIN slots :
           /\ slots'[k].msg = slots[k].msg /\ slots'[k].at = slots[k].at
           /\ slots'[k].latest = slots[k].latest
           /\ slots'[k].orphan = slots[k].orphan /\ (slots'[k].listed => slots[k].listed)
  <2>1. slots \in Seq(Thinking!SlotStates)
    BY <1>1 DEF LaneTyped
  <2>2. CASE chain.slot = 0
    BY <1>2, <2>1, <2>2
  <2>3. CASE chain.slot # 0
    <3>1. slots' = Thinking!Unlist(slots, slots[chain.slot].msg)
      BY <1>2, <2>3
    <3> QED
      BY <2>1, <3>1, UnlistIs
  <2> QED
    BY <2>2, <2>3
<1>4. chain' \in ChainStates(Len(slots)) /\ chain'.at = "deleting"
  <2>1. 0 \in 0..Len(slots) /\ 0 \in Thinking!Texts
    BY <1>1, LaneFacts, LanesAssumption DEF Thinking!Texts
  <2> QED
    BY <1>1, <1>2, <2>1 DEF LaneTyped, ChainStates
<1>5. LaneTyped'
  BY <1>1, <1>2, <1>3, <1>4 DEF LaneTyped, Preview, Thinking!SlotStates, Thinking!Texts,
     Thinking!Queries, LaneStates, ChainStates, AgentStates, TurnStates
<1>6. Apart'
  BY <1>1, <1>2, <1>3 DEF Apart
<1>7. PreviewShown(lane.thinkingMsgId)'
  <2> SUFFICES ASSUME lane.thinkingMsgId # 0, NEW k \in DOMAIN slots,
                      slots[k].msg = lane.thinkingMsgId
               PROVE  slots[k].at = "idle"
    BY <1>1, <1>2, <1>3, <1>4 DEF PreviewShown
  <2>1. k = chain.slot /\ k # 0
    BY <1>1, <1>2, LaneFacts DEF PreviewShown
  <2> QED
    BY <1>2, <2>1
<1>8. Slotted' /\ Past'
  <2>1. Slotted'
    BY <1>1, <1>2, <1>3 DEF Slotted
  <2>2. Past'
    BY <1>1, <1>2 DEF Past, Thinking!Free
  <2> QED
    BY <2>1, <2>2
<1>9. ASSUME laneFaults = 0
      PROVE  Calm' /\ (laneAgent.query \notin laneAgent.mixed => Unmixed')
  <2>1. Calm /\ (laneAgent.query \notin laneAgent.mixed => Unmixed)
    BY <1>9 DEF LaneInv
  <2>2. Calm'
    <3>1. Thinking!LastDeltaShown'
      BY <1>2, <1>3, <2>1 DEF Calm, Thinking!LastDeltaShown
    <3>2. Thinking!PreviewGone'
      BY <1>2, <2>1 DEF Calm, Thinking!PreviewGone
    <3>3. \A k \in DOMAIN slots' : slots'[k].at # "deleting"
      BY <1>3, <2>1 DEF Calm
    <3> QED
      BY <1>2, <1>4, <2>1, <3>1, <3>2, <3>3 DEF Calm
  <2>3. laneAgent.query \notin laneAgent.mixed => Unmixed'
    BY <1>2, <1>4, <2>1 DEF Unmixed, Thinking!Free
  <2> QED
    BY <2>2, <2>3
<1> QED
  BY <1>2, <1>5, <1>6, <1>7, <1>8, <1>9 DEF LaneInv

\* src/index.ts: the preview goes before the answer
LEMMA PreviewDeletedStep ==
  ASSUME LaneInv, Thinking!PreviewDeleted
  PROVE  LaneInv'
<1> DEFINE id == lane.thinkingMsgId
           v == IF lane.dismissed THEN lane.dismissedIn ELSE laneAgent.query
<1>1. LaneTyped /\ Apart /\ PreviewShown(id) /\ Slotted /\ Past
  BY DEF LaneInv
<1>2. /\ chain.at = "deleting"
      /\ chain' = [at |-> "delivering", text |-> 0, slot |-> 0, final |-> chain.final]
      /\ lane' = [lane EXCEPT !.thinkingMsgId = 0, !.dismissed = TRUE, !.dismissedIn = v]
      /\ UNCHANGED <<slots, laneAgent, laneTurn>>
      /\ \/ /\ previews' = IF id = 0 THEN previews ELSE [previews EXCEPT ![id].gone = TRUE]
            /\ UNCHANGED laneFaults
         \/ Thinking!Fault /\ UNCHANGED previews
  BY DEF Thinking!PreviewDeleted, Thinking!Waits
<1>3. chain' \in ChainStates(Len(slots)) /\ chain'.at = "delivering"
  <2>1. 0 \in 0..Len(slots) /\ 0 \in Thinking!Texts
    BY <1>1, LaneFacts, LanesAssumption DEF Thinking!Texts
  <2> QED
    BY <1>1, <1>2, <2>1 DEF LaneTyped, ChainStates
<1>4. lane' \in LaneStates(Len(previews)) /\ lane'.thinkingMsgId = 0 /\ lane'.dismissed
  <2>1. laneAgent.query \in 0..MaxQueries
    BY <1>1, LanesAssumption DEF LaneTyped, AgentStates, Thinking!Queries
  <2>2. 0 \in 0..Len(previews) /\ lane \in LaneStates(Len(previews))
    BY <1>1, LaneFacts DEF LaneTyped
  <2>3. v \in 0..MaxQueries
    BY <2>1, <2>2 DEF LaneStates
  <2> HIDE DEF v
  <2> QED
    BY <1>2, <2>2, <2>3 DEF LaneStates
<1>5. id # 0 => id \in DOMAIN previews
  BY <1>1, LaneFacts DEF LaneTyped, LaneStates
<1> HIDE DEF id, v
<1>6. /\ previews' \in Seq(Preview) /\ DOMAIN previews' = DOMAIN previews
      /\ Len(previews') = Len(previews)
      /\ \A b \in DOMAIN previews :
           /\ previews'[b].query = previews[b].query /\ previews'[b].text = previews[b].text
           /\ previews[b].gone => previews'[b].gone
           /\ b # id => previews'[b] = previews[b]
      /\ laneFaults' \in 0..MaxFaults
      /\ laneFaults' = 0 => laneFaults = 0 /\ (id # 0 => previews'[id].gone)
  <2>1. CASE id # 0 /\ previews' = [previews EXCEPT ![id].gone = TRUE] /\ UNCHANGED laneFaults
    <3> DEFINE y == [previews[id] EXCEPT !.gone = TRUE]
    <3>1. previews' = [previews EXCEPT ![id] = y]
      BY <2>1
    <3>2. y \in Preview /\ y.query = previews[id].query /\ y.text = previews[id].text /\ y.gone
      BY <1>1, <1>5, <2>1, LaneFacts DEF Preview
    <3> HIDE DEF y
    <3>3. /\ previews' \in Seq(Preview) /\ DOMAIN previews' = DOMAIN previews
          /\ Len(previews') = Len(previews) /\ previews'[id] = y
          /\ \A b \in DOMAIN previews : b # id => previews'[b] = previews[b]
      <4>1. id \in DOMAIN previews /\ previews \in Seq(Preview) /\ y \in Preview
        BY <1>1, <1>5, <2>1, <3>2 DEF LaneTyped
      <4> QED
        BY <3>1, <4>1, SequenceChanged
    <3> QED
      BY <1>1, <2>1, <3>2, <3>3 DEF LaneTyped
  <2>2. CASE id = 0 /\ UNCHANGED <<previews, laneFaults>>
    BY <1>1, <2>2 DEF LaneTyped
  <2>3. CASE Thinking!Fault /\ UNCHANGED previews
    BY <1>1, <2>3, LaneFaultCounts DEF LaneTyped
  <2> QED
    BY <1>2, <2>1, <2>2, <2>3
<1>7. LaneTyped'
  BY <1>1, <1>2, <1>3, <1>4, <1>6 DEF LaneTyped, Preview, Thinking!SlotStates, Thinking!Texts,
     Thinking!Queries, LaneStates, ChainStates, AgentStates, TurnStates
<1>8. Apart' /\ PreviewShown(lane.thinkingMsgId)'
  BY <1>1, <1>2, <1>4, <1>6 DEF Apart, PreviewShown
<1>9. Slotted'
  <2> SUFFICES ASSUME NEW k \in DOMAIN slots
               PROVE  /\ slots[k].at = "editing" => ~previews'[slots[k].msg].gone
                      /\ slots[k].at = "deleting" => slots[k].orphan # 0
    BY <1>1, <1>2, <1>4, <1>6 DEF Slotted
  <2>1. slots[k].at = "editing" => slots[k].msg # id
    <3>1. slots[k].msg # 0
      BY <1>1, LaneFacts DEF Apart
    <3> QED
      BY <1>1, <1>2, <3>1 DEF PreviewShown
  <2>2. slots[k].msg \in DOMAIN previews /\ 0 \notin DOMAIN previews
    BY <1>1, LaneFacts DEF Apart
  <2> QED
    BY <1>1, <1>6, <2>1, <2>2 DEF Slotted
<1>10. Past'
  BY <1>1, <1>2, <1>6 DEF Past, Thinking!Free
<1>11. ASSUME laneFaults' = 0
       PROVE  Calm' /\ ((laneAgent.query \notin laneAgent.mixed)' => Unmixed')
  <2>1. Calm /\ (laneAgent.query \notin laneAgent.mixed => Unmixed)
    BY <1>6, <1>11 DEF LaneInv
  <2>2. Thinking!LastDeltaShown'
    BY <1>1, <1>2, <1>6, <2>1 DEF Calm, Thinking!LastDeltaShown, Apart
  <2>3. Thinking!PreviewGone'
    BY <1>2, <1>6, <2>1 DEF Calm, Thinking!PreviewGone
  <2>4. Calm'
    BY <1>2, <1>3, <1>4, <2>1, <2>2, <2>3 DEF Calm
  <2>5. ASSUME laneAgent.query \notin laneAgent.mixed
        PROVE  Unmixed'
    <3>1. \A b \in DOMAIN previews :
            previews[b].query = laneAgent.query => previews'[b].gone
      <4>1. 0 \notin DOMAIN previews
        BY <1>1, LaneFacts
      <4> QED
        BY <1>6, <1>11, <2>1, <2>5, <4>1 DEF Unmixed, id
    <3> QED
      BY <1>2, <1>3, <1>4, <1>6, <2>1, <2>5, <3>1 DEF Unmixed, Thinking!Free
  <2> QED
    BY <1>2, <2>4, <2>5
<1> QED
  BY <1>7, <1>8, <1>9, <1>10, <1>11 DEF LaneInv

\* src/index.ts: the answer is in the chat
LEMMA DeliveredStep ==
  ASSUME LaneInv, Thinking!Delivered
  PROVE  LaneInv'
<1> DEFINE q == laneAgent.query
           A == IF chain.final THEN laneAgent.answered \cup {q} ELSE laneAgent.answered
           z == laneTurn.finalized \/ chain.final
<1>1. LaneTyped /\ Apart /\ PreviewShown(lane.thinkingMsgId) /\ Slotted /\ Past
  BY DEF LaneInv
<1>2. /\ chain.at = "delivering"
      /\ chain' = [at |-> "free", text |-> 0, slot |-> 0, final |-> FALSE]
      /\ laneTurn' = [laneTurn EXCEPT !.finalized = z]
      /\ laneAgent' = [laneAgent EXCEPT !.answered = A]
      /\ UNCHANGED <<lane, slots, previews, laneFaults>>
  BY DEF Thinking!Delivered, Thinking!Done, Thinking!Waits
<1>3. chain' \in ChainStates(Len(slots)) /\ chain'.at = "free"
  <2>1. 0 \in 0..Len(slots) /\ 0 \in Thinking!Texts
    BY <1>1, LaneFacts, LanesAssumption DEF Thinking!Texts
  <2> QED
    BY <1>2, <2>1 DEF ChainStates
<1>4. laneTurn \in TurnStates /\ laneAgent \in AgentStates /\ chain \in ChainStates(Len(slots))
  BY <1>1 DEF LaneTyped
<1>5. z \in BOOLEAN /\ A \in SUBSET Thinking!Queries
  BY <1>4 DEF TurnStates, ChainStates, AgentStates
<1>6. /\ laneAgent.answered \subseteq A /\ A \subseteq laneAgent.answered \cup {q}
      /\ q \in A => q \in laneAgent.answered \/ z
      /\ laneTurn.finalized => z
      /\ q \in Nat
  BY <1>4, LanesAssumption DEF AgentStates, Thinking!Queries
<1> HIDE DEF A, z
<1>7. /\ laneTurn' \in TurnStates /\ laneTurn'.finalized = z /\ laneTurn'.ahead = laneTurn.ahead
      /\ laneTurn'.thinking = laneTurn.thinking
  BY <1>2, <1>4, <1>5 DEF TurnStates
<1>8. /\ laneAgent' \in AgentStates /\ laneAgent'.query = q /\ laneAgent'.answered = A
      /\ laneAgent'.mixed = laneAgent.mixed /\ laneAgent'.working = laneAgent.working
  BY <1>2, <1>4, <1>5 DEF AgentStates
<1> HIDE DEF q
<1>9. LaneTyped'
  BY <1>1, <1>2, <1>3, <1>7, <1>8 DEF LaneTyped, Preview, Thinking!SlotStates, Thinking!Texts,
     Thinking!Queries, LaneStates, ChainStates, AgentStates, TurnStates
<1>10. Apart' /\ PreviewShown(lane.thinkingMsgId)' /\ Slotted'
  BY <1>1, <1>2, <1>3 DEF Apart, PreviewShown, Slotted
<1>11. Past'
  <2>1. \A p \in A \cup laneAgent.mixed : p <= q
    BY <1>1, <1>6 DEF Past, q
  <2> QED
    BY <1>1, <1>2, <1>3, <1>8, <2>1 DEF Past, Thinking!Free, q
<1>12. ASSUME laneFaults = 0
       PROVE  Calm' /\ (q \notin laneAgent.mixed => Unmixed')
  <2>1. Calm /\ (q \notin laneAgent.mixed => Unmixed)
    BY <1>12 DEF LaneInv, q
  <2>2. q \notin laneAgent.mixed =>
          \A b \in DOMAIN previews : previews[b].query = q => previews[b].gone
    <3>1. lane.thinkingMsgId = 0 /\ 0 \notin DOMAIN previews
      BY <1>1, <1>2, <2>1, LaneFacts DEF Calm
    <3> QED
      BY <2>1, <3>1 DEF Unmixed, q
  <2>3. Thinking!PreviewGone'
    BY <1>2, <1>6, <1>8, <2>1, <2>2 DEF Calm, Thinking!PreviewGone
  <2>4. Thinking!LastDeltaShown'
    BY <1>2, <2>1 DEF Calm, Thinking!LastDeltaShown
  <2>5. Calm'
    BY <1>2, <1>3, <2>1, <2>3, <2>4 DEF Calm
  <2>6. ASSUME q \notin laneAgent.mixed
        PROVE  Unmixed'
    <3>1. ~laneTurn.ahead
      BY <1>2, <2>1, <2>6 DEF Unmixed, Thinking!Free, q
    <3>2. q \in A => z
      BY <1>1, <1>2, <1>6, <2>1, <2>6 DEF Unmixed, Past, Thinking!Free, q
    <3> QED
      BY <1>2, <1>3, <1>7, <1>8, <2>1, <2>6, <3>1, <3>2 DEF Unmixed, Thinking!Free, q
  <2> QED
    BY <2>5, <2>6
<1> QED
  BY <1>2, <1>8, <1>9, <1>10, <1>11, <1>12 DEF LaneInv

(* The agent and the users.                                                *)
LEMMA OutsideStep ==
  ASSUME LaneInv, Thinking!QueryComplete \/ Thinking!Pipe \/ Thinking!NextQuery
  PROVE  LaneInv'
<1> DEFINE q == laneAgent.query
<1>1. LaneTyped /\ Apart /\ PreviewShown(lane.thinkingMsgId) /\ Slotted /\ Past
  BY DEF LaneInv
<1>2. UNCHANGED <<lane, slots, previews, chain, laneFaults>>
  BY DEF Thinking!QueryComplete, Thinking!Pipe, Thinking!NextQuery
<1>3. Apart' /\ PreviewShown(lane.thinkingMsgId)' /\ Slotted'
  BY <1>1, <1>2 DEF Apart, PreviewShown, Slotted
<1>4. laneTurn \in TurnStates /\ laneAgent \in AgentStates
  BY <1>1 DEF LaneTyped
<1>5. ASSUME laneFaults = 0
      PROVE  Calm /\ (q \notin laneAgent.mixed => Unmixed)
  BY <1>5 DEF LaneInv
<1>6. ASSUME laneAgent' \in AgentStates, laneTurn' \in TurnStates
      PROVE  LaneTyped'
  BY <1>1, <1>2, <1>6 DEF LaneTyped, Preview, Thinking!SlotStates, Thinking!Texts,
     Thinking!Queries, LaneStates, ChainStates, AgentStates, TurnStates
<1>7. CASE Thinking!QueryComplete
  <2>1. /\ Thinking!Free /\ laneAgent' = [laneAgent EXCEPT !.working = FALSE]
        /\ laneTurn' = [laneTurn EXCEPT !.thinking = TRUE, !.result = TRUE]
    BY <1>7 DEF Thinking!QueryComplete, Thinking!Handles
  <2>2. /\ laneAgent' \in AgentStates /\ laneTurn' \in TurnStates
        /\ laneAgent'.query = q /\ laneAgent'.answered = laneAgent.answered
        /\ laneAgent'.mixed = laneAgent.mixed /\ ~laneAgent'.working
    BY <1>4, <2>1 DEF AgentStates, TurnStates
  <2>3. LaneTyped'
    BY <1>6, <2>2
  <2>4. Past'
    BY <1>1, <1>2, <2>1, <2>2 DEF Past, Thinking!Free
  <2>5. ASSUME laneFaults = 0
        PROVE  Calm' /\ (q \notin laneAgent.mixed => Unmixed')
    <3>1. Calm'
      BY <1>2, <1>5, <2>2, <2>5 DEF Calm, Thinking!LastDeltaShown, Thinking!PreviewGone
    <3>2. q \notin laneAgent.mixed => Unmixed'
      BY <1>2, <1>5, <2>1, <2>2, <2>5 DEF Unmixed, Thinking!Free
    <3> QED
      BY <3>1, <3>2
  <2> QED
    BY <1>2, <1>3, <2>2, <2>3, <2>4, <2>5 DEF LaneInv
<1>8. CASE Thinking!Pipe
  <2> DEFINE M == IF laneAgent.working THEN laneAgent.mixed \cup {q} ELSE laneAgent.mixed
             n == laneAgent.piped + 1
  <2>1. /\ laneAgent.piped < MaxQueries - 1
        /\ laneAgent' = [laneAgent EXCEPT !.piped = n, !.mixed = M]
        /\ laneTurn' = [laneTurn EXCEPT !.ahead = TRUE]
    BY <1>8 DEF Thinking!Pipe
  <2>2. /\ n \in 0..(MaxQueries - 1) /\ M \in SUBSET Thinking!Queries
        /\ laneAgent.mixed \subseteq M /\ M \subseteq laneAgent.mixed \cup {q} /\ q \in Nat
        /\ laneAgent.working => q \in M
    BY <1>4, <2>1, LanesAssumption DEF AgentStates, Thinking!Queries
  <2> HIDE DEF n, M
  <2>3. /\ laneAgent' \in AgentStates /\ laneTurn' \in TurnStates
        /\ laneAgent'.query = q /\ laneAgent'.answered = laneAgent.answered
        /\ laneAgent'.mixed = M /\ laneAgent'.working = laneAgent.working
    BY <1>4, <2>1, <2>2 DEF AgentStates, TurnStates
  <2>4. LaneTyped'
    BY <1>6, <2>3
  <2>5. Past'
    <3>1. \A p \in laneAgent.answered \cup M : p <= q
      BY <1>1, <2>2 DEF Past
    <3> QED
      BY <1>1, <1>2, <2>3, <3>1 DEF Past, Thinking!Free
  <2>6. ASSUME laneFaults = 0
        PROVE  Calm' /\ (q \notin M => Unmixed')
    <3>1. Calm'
      BY <1>2, <1>5, <2>2, <2>3, <2>6 DEF Calm, Thinking!LastDeltaShown, Thinking!PreviewGone
    <3>2. ASSUME q \notin M
          PROVE  Unmixed'
      <4>1. ~laneAgent.working /\ Thinking!Free /\ Unmixed
        BY <1>1, <1>5, <2>2, <2>6, <3>2 DEF Past
      <4> QED
        BY <1>2, <2>3, <4>1 DEF Unmixed, Thinking!Free
    <3> QED
      BY <3>1, <3>2
  <2> QED
    BY <1>2, <1>3, <2>3, <2>4, <2>5, <2>6 DEF LaneInv
<1>9. CASE Thinking!NextQuery
  <2>1. /\ ~laneAgent.working /\ Thinking!Free /\ q <= laneAgent.piped
        /\ laneAgent' = [laneAgent EXCEPT !.working = TRUE, !.query = q + 1]
        /\ laneTurn' = laneTurn
    BY <1>9 DEF Thinking!NextQuery
  <2>2. q + 1 \in Thinking!Queries /\ q \in Nat
    BY <1>4, <2>1, LanesAssumption DEF AgentStates, Thinking!Queries
  <2>3. /\ laneAgent' \in AgentStates /\ laneTurn' \in TurnStates
        /\ laneAgent'.query = q + 1 /\ laneAgent'.answered = laneAgent.answered
        /\ laneAgent'.mixed = laneAgent.mixed /\ laneAgent'.working
    BY <1>4, <2>1, <2>2 DEF AgentStates, TurnStates
  <2>4. LaneTyped'
    BY <1>6, <2>3
  <2>5. /\ \A p \in laneAgent.answered \cup laneAgent.mixed : p \in Nat /\ p <= q
        /\ \A b \in DOMAIN previews : previews[b].query \in Nat /\ previews[b].query <= q
    BY <1>1, <1>4, LaneFacts DEF Past, AgentStates, Preview, Thinking!Queries
  <2>6. Past'
    BY <1>2, <2>2, <2>3, <2>5 DEF Past
  <2>7. ASSUME laneFaults = 0
        PROVE  Calm' /\ Unmixed'
    <3>1. Calm'
      BY <1>2, <1>5, <2>3, <2>7 DEF Calm, Thinking!LastDeltaShown, Thinking!PreviewGone
    <3>2. /\ q + 1 \notin laneAgent.answered
          /\ \A b \in DOMAIN previews : previews[b].query # q + 1
      BY <2>2, <2>5
    <3> QED
      BY <1>2, <2>1, <2>3, <3>1, <3>2 DEF Unmixed, Thinking!Free
  <2> QED
    BY <1>2, <1>3, <2>4, <2>6, <2>7 DEF LaneInv
<1> QED
  BY <1>7, <1>8, <1>9

(* The invariant of the preview is inductive.                              *)
LEMMA LaneStep == LaneInv /\ [Thinking!Next]_laneVars => LaneInv'
<1> SUFFICES ASSUME LaneInv, [Thinking!Next]_laneVars
             PROVE  LaneInv'
  OBVIOUS
<1>1. CASE UNCHANGED laneVars
  <2>1. UNCHANGED <<lane, slots, previews, chain, laneAgent, laneTurn, laneFaults>>
    BY <1>1 DEF laneVars
  <2>2. LaneTyped'
    BY <2>1 DEF LaneInv, LaneTyped, Preview, Thinking!SlotStates, Thinking!Texts,
       Thinking!Queries, LaneStates, ChainStates, AgentStates, TurnStates
  <2>3. Apart' /\ PreviewShown(lane.thinkingMsgId)' /\ Slotted' /\ Past'
    BY <2>1 DEF LaneInv, Apart, PreviewShown, Slotted, Past, Thinking!Free
  <2>4. laneFaults = 0 => Calm' /\ (laneAgent.query \notin laneAgent.mixed => Unmixed')
    BY <2>1 DEF LaneInv, Calm, Unmixed, Thinking!LastDeltaShown, Thinking!PreviewGone,
       Thinking!Free
  <2> QED
    BY <2>1, <2>2, <2>3, <2>4 DEF LaneInv
<1>2. CASE Thinking!Worker
  BY <1>2, EditSettlesStep, EditFallsBackStep, OrphanDeletedStep DEF Thinking!Worker
<1>3. CASE Thinking!Chain
  BY <1>3, OpenedStep, DrainedStep, PreviewDeletedStep, DeliveredStep DEF Thinking!Chain
<1>4. CASE \E text \in Thinking!Texts : Thinking!Thinking(text)
  BY <1>4, ThinkingStep
<1>5. CASE \E final \in BOOLEAN : Thinking!Result(final)
  BY <1>5, ResultStep
<1>6. CASE Thinking!QueryComplete \/ Thinking!Pipe \/ Thinking!NextQuery
  BY <1>6, OutsideStep
<1> QED
  BY <1>1, <1>2, <1>3, <1>4, <1>5, <1>6 DEF Thinking!Next

(* It holds at first.                                                      *)
LEMMA LaneInitially == Thinking!Init => LaneInv
<1> SUFFICES ASSUME Thinking!Init
             PROVE  LaneInv
  OBVIOUS
<1>1. /\ slots = <<>> /\ previews = <<>> /\ laneFaults = 0
      /\ lane = [thinkingMsgId |-> 0, rendered |-> 0, dismissed |-> FALSE, dismissedIn |-> 0]
      /\ chain = [at |-> "free", text |-> 0, slot |-> 0, final |-> FALSE]
      /\ laneAgent = [query |-> 1, piped |-> 0, working |-> TRUE, deltas |-> 0,
                      answered |-> {}, mixed |-> {}]
      /\ laneTurn = [thinking |-> FALSE, result |-> FALSE, ahead |-> FALSE, finalized |-> FALSE]
  BY DEF Thinking!Init
<1>2. LaneTyped
  <2>1. 0 \in Thinking!Texts /\ 1 \in Thinking!Queries /\ 0 \in 0..(MaxQueries - 1)
        /\ 0 \in 0..MaxQueries /\ 0 \in 0..MaxFaults
    BY LanesAssumption DEF Thinking!Texts, Thinking!Queries
  <2>2. slots \in Seq(Thinking!SlotStates) /\ previews \in Seq(Preview)
        /\ Len(slots) = 0 /\ Len(previews) = 0
    BY <1>1
  <2>3. lane \in LaneStates(0) /\ chain \in ChainStates(0)
    BY <1>1, <2>1 DEF LaneStates, ChainStates
  <2>4. laneAgent \in AgentStates
    BY <1>1, <2>1 DEF AgentStates
  <2> QED
    BY <1>1, <2>1, <2>2, <2>3, <2>4 DEF LaneTyped, TurnStates
<1>3. DOMAIN slots = {} /\ DOMAIN previews = {}
  BY <1>1
<1>4. Apart /\ PreviewShown(lane.thinkingMsgId) /\ Slotted /\ Past
  BY <1>1, <1>3 DEF Apart, PreviewShown, Slotted, Past, Thinking!Free
<1>5. Calm /\ Unmixed
  BY <1>1, <1>3 DEF Calm, Unmixed, Thinking!LastDeltaShown, Thinking!PreviewGone, Thinking!Free
<1> QED
  BY <1>2, <1>4, <1>5 DEF LaneInv

(* It says what the run checks, ...                                        *)
LEMMA LaneIsTrue == LaneInv => PreviewTrue
<1> SUFFICES ASSUME LaneInv
             PROVE  PreviewTrue
  OBVIOUS
<1>1. Thinking!EditsApart
  BY DEF LaneInv, Apart, Slotted, Thinking!EditsApart
<1>2. laneFaults = 0 => Thinking!LastDeltaShown /\ Thinking!PreviewGone
  BY DEF LaneInv, Calm
<1> QED
  BY <1>1, <1>2 DEF PreviewTrue, Thinking!PreviewTrue

(* ... and what the types are.                                             *)
LEMMA LaneTypeOK == LaneInv => Thinking!TypeOK
BY DEF LaneInv, LaneTyped, Thinking!TypeOK, Preview, LaneStates, ChainStates, AgentStates, TurnStates

(* A preview is edited by one call at a time and never once it was         *)
(* deleted; as long as no call fails it says the last that was thought,    *)
(* and with a query's answer it is gone and does not come back.            *)
THEOREM PreviewsTrue == Thinking!Spec => []PreviewTrue
<1>1. Thinking!Init => LaneInv
  BY LaneInitially
<1>2. LaneInv /\ [Thinking!Next]_(Thinking!vars) => LaneInv'
  BY LaneStep DEF laneVars, Thinking!vars
<1>3. LaneInv => PreviewTrue
  BY LaneIsTrue
<1> QED
  BY <1>1, <1>2, <1>3, PTL DEF Thinking!Spec

(* A behaviour of the three lanes is one of each.                          *)
LEMMA LanesAreTheirs ==
  LanesInit /\ [][LanesNext]_allVars =>
    /\ Init /\ [][Next]_vars
    /\ Draft!Init /\ [][Draft!Next]_(Draft!vars)
    /\ Thinking!Init /\ [][Thinking!Next]_(Thinking!vars)
<1>1. LanesInit => Init /\ Draft!Init /\ Thinking!Init
  BY DEF LanesInit
<1>2. [LanesNext]_allVars => [Next]_vars
  BY DEF LanesNext, allVars
<1>3. [LanesNext]_allVars => [Draft!Next]_(Draft!vars)
  BY DEF LanesNext, allVars, draftVars, Draft!vars
<1>4. [LanesNext]_allVars => [Thinking!Next]_(Thinking!vars)
  BY DEF LanesNext, allVars, laneVars, Thinking!vars
<1> QED
  BY <1>1, <1>2, <1>3, <1>4, PTL

(* The lanes keep their types, also side by side.                          *)
THEOREM LanesTyped == LanesSpec => [](TypeOK /\ Draft!TypeOK /\ Thinking!TypeOK)
<1>1. DraftInv /\ [Draft!Next]_(Draft!vars) => DraftInv'
  BY DraftStep DEF draftVars, Draft!vars
<1>2. LaneInv /\ [Thinking!Next]_(Thinking!vars) => LaneInv'
  BY LaneStep DEF laneVars, Thinking!vars
<1>3. IInv /\ [Next]_vars => IInv'
  BY StepGood
<1>4. /\ Init => IInv
      /\ Draft!Init => DraftInv
      /\ Thinking!Init => LaneInv
  BY InitGood, DraftInitially, LaneInitially
<1>5. IInv /\ DraftInv /\ LaneInv => TypeOK /\ Draft!TypeOK /\ Thinking!TypeOK
  BY LaneTypeOK DEF IInv, DraftInv
<1> QED
  BY <1>1, <1>2, <1>3, <1>4, <1>5, LanesAreTheirs, PTL DEF LanesSpec
=============================================================================
