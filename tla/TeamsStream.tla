----------------------------- MODULE TeamsStream -----------------------------
(***************************************************************************)
(* One native streaming session of Teams, src/channels/teams-streaming.ts: *)
(* the dispatcher feeds it cumulative texts, a background drain loop sends *)
(* the latest of them as a frame, one at a time and paced, and end()       *)
(* publishes the reply: as the final frame of the stream, or as a plain    *)
(* message when the stream is of no use.                                   *)
(*                                                                         *)
(* Every send is awaited against a timeout, and end() and cancel() wait    *)
(* for the drain loop against a longer one; time is counted in ticks.      *)
(* end() and cancel() may overlap, because the callback of an output and   *)
(* the tail of processGroupMessages both use the session.  The service     *)
(* behind the sends is external: it acknowledges, rejects or stays silent. *)
(***************************************************************************)
EXTENDS Integers

CONSTANTS
  SendTimeout,   \* SEND_TIMEOUT_MS, in ticks
  Pace,          \* delayInMs
  DrainWait,     \* DRAIN_WAIT_TIMEOUT_MS
  MaxTexts       \* bound: texts the dispatcher feeds

ASSUME TimeAssumption ==
  /\ {SendTimeout, Pace, DrainWait} \subseteq Nat \ {0}
  /\ SendTimeout + Pace < DrainWait
  /\ MaxTexts \in Nat

VARIABLES
  session,       \* the object, its drain loop, and the calls it is in
  wire           \* the service, and the ghosts

vars == <<session, wire>>

(* Texts are numbered as the dispatcher produces them; 0 is the empty one. *)
Texts == 0..MaxTexts

Ticks == 0..DrainWait

Sessions ==
  [ phase          : {"thinking", "answer", "ended"},
    ended          : BOOLEAN,
    cancelled      : BOOLEAN,
    explicitCancel : BOOLEAN,
    userCancelled  : BOOLEAN,
    deliveryFailed : BOOLEAN,
    streaming      : BOOLEAN,                  \* _isStreamingChannel
    streamId       : BOOLEAN,                  \* do we have one?
    bootstrapSent  : BOOLEAN,
    pendingChunk   : BOOLEAN,
    latestText     : Texts,
    lastSent       : Texts,
    drain          : {"off", "sending", "pacing", "over"},
    frame          : Texts,                    \* the text being sent
    drainTime      : Ticks,                    \* since the frame, or the pause
    end            : {"no", "draining", "plain", "final", "fallback", "returned"},
    endTime        : Ticks,                    \* since it waits, or sends
    cancel         : {"no", "settling", "returned"},
    cancelTime     : Ticks ]

Wires ==
  [ bubble   : Texts,          \* what the user sees in the stream
    stopped  : BOOLEAN,        \* the user has pressed Stop
    landed   : BOOLEAN,        \* the reply was acknowledged
    given    : Texts,          \* ghost: texts produced so far
    trailing : SUBSET Texts ]  \* ghost: thinking that came after the answer

Init ==
  /\ session =
       [ phase |-> "thinking", ended |-> FALSE, cancelled |-> FALSE,
         explicitCancel |-> FALSE, userCancelled |-> FALSE,
         deliveryFailed |-> FALSE, streaming |-> TRUE, streamId |-> FALSE,
         bootstrapSent |-> FALSE, pendingChunk |-> FALSE, latestText |-> 0,
         lastSent |-> 0, drain |-> "off", frame |-> 0, drainTime |-> 0,
         end |-> "no", endTime |-> 0, cancel |-> "no", cancelTime |-> 0 ]
  /\ wire = [ bubble |-> 0, stopped |-> FALSE, landed |-> FALSE, given |-> 0,
              trailing |-> {} ]

-----------------------------------------------------------------------------
(* The drain loop.                                                         *)

(* Mutant: the loop goes on after end() was called.                        *)
LoopHeadOn(s) ==
  IF s.pendingChunk /\ ~s.cancelled /\ s.latestText # s.lastSent
  THEN [s EXCEPT !.pendingChunk = FALSE, !.frame = s.latestText,
                 !.drain = "sending", !.drainTime = 0]
  ELSE [s EXCEPT !.drain = "over", !.drainTime = 0]

(* The head of the loop: the latest text goes out, unless there is nothing *)
(* new; a loop that has ended is still in _drain for a moment.             *)
LoopHead(s) ==
  IF ~s.pendingChunk \/ s.cancelled \/ s.ended
  THEN [s EXCEPT !.drain = "over", !.drainTime = 0]
  ELSE IF s.latestText = s.lastSent
  THEN [s EXCEPT !.pendingChunk = FALSE, !.drain = "over", !.drainTime = 0]
  ELSE [s EXCEPT !.pendingChunk = FALSE, !.frame = s.latestText,
                 !.drain = "sending", !.drainTime = 0]

ScheduleChunk(s) ==
  LET p == [s EXCEPT !.pendingChunk = TRUE] IN
  IF s.drain = "off" THEN LoopHead(p) ELSE p

(* chunk(text)                                                             *)
Fed(s, text) ==
  IF s.ended \/ s.cancelled THEN s
  ELSE IF ~s.streaming THEN [s EXCEPT !.latestText = text]
  ELSE ScheduleChunk([s EXCEPT !.latestText = text])

DrainOver ==
  /\ session.drain = "over"
  /\ session' = [session EXCEPT !.drain = "off"]
  /\ UNCHANGED wire

PaceOver ==
  /\ session.drain = "pacing"
  /\ session.drainTime = Pace
  /\ session' = LoopHead(session)
  /\ UNCHANGED wire

(* The frame in flight is acknowledged; the first one must bring the id.   *)
ChunkAcked(hasId) ==
  LET s == [session EXCEPT !.bootstrapSent = TRUE, !.lastSent = session.frame,
                           !.drainTime = 0]
  IN /\ session.drain = "sending"
     /\ ~wire.stopped
     /\ session' =
          IF session.bootstrapSent THEN [s EXCEPT !.drain = "pacing"]
          ELSE IF hasId THEN [s EXCEPT !.drain = "pacing", !.streamId = TRUE]
          ELSE [s EXCEPT !.drain = "over", !.cancelled = TRUE]
     /\ wire' = [wire EXCEPT !.bubble = session.frame]

(* It is rejected: by the user's Stop, because the conversation cannot     *)
(* stream, or for any other reason.                                        *)
ChunkRejected(why) ==
  /\ session.drain = "sending"
  /\ why = "stop" => wire.stopped
  /\ session' = [session EXCEPT !.drain = "over", !.drainTime = 0,
                                !.userCancelled = @ \/ why = "stop",
                                !.streaming = @ /\ why # "disabled",
                                !.cancelled = @ \/ why # "disabled"]
  /\ UNCHANGED wire

ChunkTimedOut ==
  /\ session.drain = "sending"
  /\ session.drainTime = SendTimeout
  /\ session' = [session EXCEPT !.drain = "over", !.drainTime = 0,
                                !.cancelled = TRUE]
  /\ UNCHANGED wire

-----------------------------------------------------------------------------
(* What the dispatcher calls.                                              *)

NewText == wire.given + 1

Chunk ==
  /\ wire.given < MaxTexts
  /\ session' = Fed(session, NewText)
  /\ wire' = [wire EXCEPT !.given = @ + 1]

(* Mutant: thinking is fed whatever the phase.                             *)
AppendThinkingAlways ==
  /\ wire.given < MaxTexts
  /\ session' = Fed(session, NewText)
  /\ wire' = [wire EXCEPT !.given = @ + 1,
                          !.trailing = IF session.phase = "thinking" THEN @
                                       ELSE @ \cup {NewText}]

AppendThinking ==
  /\ wire.given < MaxTexts
  /\ session' = IF session.phase = "thinking" THEN Fed(session, NewText)
                ELSE session
  /\ wire' = [wire EXCEPT !.given = @ + 1,
                          !.trailing = IF session.phase = "thinking" THEN @
                                       ELSE @ \cup {NewText}]

CommitAnswer ==
  /\ session.phase = "thinking"
  /\ session' = [session EXCEPT !.phase = "answer", !.latestText = 0,
                                !.lastSent = 0]
  /\ UNCHANGED wire

Sends(s, how) == [s EXCEPT !.end = how, !.endTime = 0]
Returns(s) == [s EXCEPT !.end = "returned", !.endTime = 0]

Useless(s) == s.cancelled \/ ~s.streaming

(* Mutant: a stream cancelled by the wire is taken for a cancelled turn.   *)
AfterDrainSilent(s) ==
  IF s.cancelled THEN Returns(s)
  ELSE Sends(s, IF s.streaming /\ s.streamId THEN "final" ELSE "plain")

(* end() once the drain loop is over, or is waited for no longer.          *)
AfterDrain(s) ==
  IF s.explicitCancel THEN Returns(s)
  ELSE Sends(s, IF Useless(s) \/ ~s.streamId THEN "plain" ELSE "final")

End ==
  LET s == [session EXCEPT !.ended = TRUE, !.phase = "ended",
                           !.latestText = wire.given]
  IN /\ ~session.ended
     /\ session' =
          IF s.explicitCancel \/ s.userCancelled THEN Returns(s)
          ELSE IF Useless(s) THEN Sends(s, "plain")
          ELSE IF s.drain = "off" THEN AfterDrain(s)
          ELSE Sends(s, "draining")
     /\ UNCHANGED wire

EndDrained ==
  /\ session.end = "draining"
  /\ session.drain = "off" \/ session.endTime = DrainWait
  /\ session' = AfterDrain(session)
  /\ UNCHANGED wire

Sending == session.end \in {"plain", "final", "fallback"}

(* A final frame that fails is followed by a plain message; when that      *)
(* fails the reply is known to be lost.                                    *)
ReplyFailed(s) ==
  IF s.end = "final" THEN Sends(s, "fallback")
  ELSE Returns([s EXCEPT !.deliveryFailed = TRUE])

ReplyAcked ==
  /\ Sending
  /\ session.end = "final" => ~wire.stopped
  /\ session' = Returns(session)
  /\ wire' = [wire EXCEPT !.landed = TRUE]

ReplyRejected ==
  /\ Sending
  /\ session' = ReplyFailed(session)
  /\ UNCHANGED wire

ReplyTimedOut ==
  /\ Sending
  /\ session.endTime = SendTimeout
  /\ session' = ReplyFailed(session)
  /\ UNCHANGED wire

(* cancel() waits for the drain loop first, ...                            *)
Cancel ==
  /\ ~session.ended
  /\ session.cancel = "no"
  /\ session' = [session EXCEPT !.cancel = "settling", !.cancelTime = 0]
  /\ UNCHANGED wire

(* ... and leaves a stream that failed to end().                           *)
CancelSettled ==
  LET s == [session EXCEPT !.cancel = "returned", !.cancelTime = 0] IN
  /\ session.cancel = "settling"
  /\ session.drain = "off" \/ session.cancelTime = DrainWait
  /\ session' = IF Useless(s) THEN s
                ELSE [s EXCEPT !.explicitCancel = TRUE, !.cancelled = TRUE,
                               !.ended = TRUE, !.phase = "ended",
                               !.pendingChunk = FALSE]
  /\ UNCHANGED wire

-----------------------------------------------------------------------------
(* The user, and time.                                                     *)

PressStop ==
  /\ ~wire.stopped
  /\ wire.bubble # 0
  /\ ~wire.landed
  /\ wire' = [wire EXCEPT !.stopped = TRUE]
  /\ UNCHANGED session

Ticking(on, time) == IF on THEN time + 1 ELSE time

(* Time does not pass a timeout, nor while the event loop has work.        *)
Patient ==
  /\ session.drain # "over"
  /\ session.drain = "sending" => session.drainTime < SendTimeout
  /\ session.drain = "pacing" => session.drainTime < Pace
  /\ session.end = "draining" => session.drain # "off" /\ session.endTime < DrainWait
  /\ Sending => session.endTime < SendTimeout
  /\ session.cancel = "settling" =>
       session.drain # "off" /\ session.cancelTime < DrainWait

Tick ==
  /\ Patient
  /\ session' = [session EXCEPT
       !.drainTime = Ticking(session.drain \in {"sending", "pacing"}, @),
       !.endTime = Ticking(session.end = "draining" \/ Sending, @),
       !.cancelTime = Ticking(session.cancel = "settling", @)]
  /\ session' # session
  /\ UNCHANGED wire

(* What happens by itself.                                                 *)
Proceed ==
  \/ DrainOver \/ PaceOver \/ ChunkTimedOut
  \/ EndDrained \/ ReplyTimedOut \/ CancelSettled
  \/ Tick

Next ==
  \/ Chunk \/ AppendThinking \/ CommitAnswer \/ End \/ Cancel
  \/ \E hasId \in BOOLEAN : ChunkAcked(hasId)
  \/ \E why \in {"stop", "disabled", "other"} : ChunkRejected(why)
  \/ ReplyAcked \/ ReplyRejected
  \/ PressStop
  \/ Proceed

Spec == Init /\ [][Next]_vars

(* Timers fire and promises that are settled continue; nothing is assumed  *)
(* of the service or of the dispatcher.                                    *)
FairSpec == Spec /\ WF_vars(Proceed)

-----------------------------------------------------------------------------
(* Types.                                                                  *)
TypeOK == session \in Sessions /\ wire \in Wires

(* The reply goes out behind the last frame, never beside one: end() does  *)
(* not give up waiting before the drain loop is over.                      *)
InOrder == Sending => session.drain \notin {"sending", "pacing"}

(* Every frame after the first, and the final one, carries the stream's    *)
(* id: whatever became of the first, none is sent without.                 *)
BoundToStream ==
  /\ session.drain = "sending" /\ session.bootstrapSent => session.streamId
  /\ session.end = "final" => session.streamId

(* What goes out is one stream: in order, and under one id.                *)
OneStream == InOrder /\ BoundToStream

(* When end() returns the reply has landed, or endFailed() says it has     *)
(* not, or there was to be none: the turn was cancelled or stopped.        *)
LandsOrReported ==
  session.end = "returned" =>
    \/ wire.landed \/ session.deliveryFailed
    \/ session.explicitCancel \/ session.userCancelled

(* The user never sees an older text again (the empty one excepted, which  *)
(* commitAnswer may leave to a waiting loop), nor thinking that trails the *)
(* answer.                                                                 *)
BubbleNeverRegresses ==
  [][wire'.bubble # wire.bubble =>
       \/ wire'.bubble = 0
       \/ wire'.bubble > wire.bubble /\ wire'.bubble \notin wire.trailing]_vars

(* end() and cancel() return, even when the service never answers.         *)
CallsReturn ==
  /\ session.end # "no" ~> session.end = "returned"
  /\ session.cancel # "no" ~> session.cancel = "returned"
=============================================================================
