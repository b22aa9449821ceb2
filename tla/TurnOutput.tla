----------------------------- MODULE TurnOutput -----------------------------
(***************************************************************************)
(* How the outputs of an agent reach the chat: the closure of              *)
(* processGroupMessages in src/index.ts from the spawn of the agent on.    *)
(* src/host-runner.ts chains one callback per output; the "chain" runs     *)
(* them one at a time, for the first query and for every follow-up piped   *)
(* in later.  It resolves runAgent as soon as it READS the first           *)
(* query-complete, so the "tail" of processGroupMessages runs beside the   *)
(* callbacks that are still queued.  Both finalize the turn, over the same *)
(* variables, and a step here is the code between two awaits that wait.    *)
(*                                                                         *)
(* The channel either streams natively (Teams) or edits its messages       *)
(* (Telegram).  showThinking is off, its default; no message is a command. *)
(***************************************************************************)
EXTENDS Integers, Sequences, FiniteSets

CONSTANTS
  Channels,      \* the kinds of channel: "native", "edits"
  MaxQueries,    \* bound: queries of one agent
  MaxOutputs,    \* bound: partials and finals of one query
  MaxMessages,   \* bound: messages of the chat
  MaxFaults      \* bound: channel calls that fail and streams that die

VARIABLE s

Messages == 1..MaxMessages
Queries == 1..MaxQueries
Threads == {"chain", "tail"}
Null == -1     \* no cursor

(* A text is known by the query and the output it comes from.              *)
Texts == [query : Queries, nth : 1..MaxOutputs, final : BOOLEAN]
Outputs == [query : Queries, nth : 0..MaxOutputs,
            kind : {"partial", "final", "complete", "error"}]
Bubbles == 0..(MaxQueries * (MaxOutputs + 1))

(* Where a thread waits: at = "none" (the chain between callbacks, the     *)
(* tail for runAgent), in a call of the channel, or over; stage tells the  *)
(* plain sends of finalizeNativeStreamTerminal apart.                      *)
ThreadStates ==
  [ at    : {"none", "cancel", "boundary", "open", "typing", "send", "edit",
             "end", "plain", "settle", "interim", "turn-end", "over"},
    stage : {"none", "callback", "coalesced", "failure", "partial", "unfinished"},
    hold  : Bubbles,            \* activeHandle, or the bubble being edited
    texts : SUBSET Texts,       \* what is being sent
    final : BOOLEAN ]           \* the tail: past the verdict, in the finally

Resting == [at |-> "none", stage |-> "none", hold |-> 0, texts |-> {}, final |-> FALSE]

OutputStates ==
  [ channel     : Channels,
    hadError    : BOOLEAN,
    sent        : BOOLEAN,            \* outputSentToUser
    delivered   : BOOLEAN,            \* deliveredPlainFallback
    attempted   : BOOLEAN,            \* terminalPlainAttempted
    handled     : BOOLEAN,            \* terminalFailureHandled
    failed      : BOOLEAN,            \* streamDeliveryFailed
    failure     : SUBSET Texts,       \* streamFailureFinalText
    progressive : Bubbles,            \* progressiveMsgId
    partial     : SUBSET Texts,       \* progressiveText
    last        : Bubbles,            \* lastFinalMsgId
    handle      : Bubbles,            \* streamHandle
    armed       : BOOLEAN,            \* streamDiedCoalesced is an array
    buffer      : SUBSET Texts,       \* ... and what is in it
    boundary    : BOOLEAN,            \* queryBoundaryPendingResult
    seen        : Nat,                \* lastUserTurnSeqSeen
    stateSeq    : Nat,                \* deliveryStateTurnSeq
    seq         : Nat,                \* the queue's userTurnSeq
    turnCursor  : 0..MaxMessages \cup {Null},  \* currentTurnStartCursor
    turnText    : SUBSET Messages,    \* currentTurnText
    cursor      : 0..MaxMessages,     \* lastAgentTimestamp
    alive       : BOOLEAN,            \* the agent
    working     : BOOLEAN,
    query       : Queries,
    emitted     : 0..MaxOutputs,      \* outputs of this query
    inbox       : SUBSET Messages,
    asked       : [Queries -> SUBSET Messages],
    events      : Seq(Outputs),       \* outputCallbackChain
    resolved    : {"none", "success", "error"},
    verdict     : {"none", "success", "retry"},
    thread      : [Threads -> ThreadStates],
    chat        : Seq(SUBSET Texts),  \* the messages the user sees
    streams     : Seq([draining : BOOLEAN, dead : BOOLEAN, ended : BOOLEAN, lost : BOOLEAN]),
    faults      : 0..MaxFaults,
    answer      : [Queries -> 0..MaxOutputs],  \* ghost: the last final of each
    over        : SUBSET Queries,     \* ghost: their query-complete is handled
    mixed       : SUBSET Queries ]    \* ghost: a message was piped meanwhile

Init ==
  \E c \in Channels :
    s = [ channel |-> c, hadError |-> FALSE, sent |-> FALSE, delivered |-> FALSE,
          attempted |-> FALSE, handled |-> FALSE, failed |-> FALSE, failure |-> {},
          progressive |-> 0, partial |-> {}, last |-> 0, handle |-> 0,
          armed |-> FALSE, buffer |-> {}, boundary |-> FALSE, seen |-> 1,
          stateSeq |-> 1, seq |-> 1, turnCursor |-> 0, turnText |-> {},
          cursor |-> 1, alive |-> TRUE, working |-> TRUE, query |-> 1,
          emitted |-> 0, inbox |-> {},
          asked |-> [q \in Queries |-> IF q = 1 THEN {1} ELSE {}],
          events |-> <<>>, resolved |-> "none", verdict |-> "none",
          thread |-> [t \in Threads |-> Resting], chat |-> <<>>,
          streams |-> <<>>, faults |-> 0,
          answer |-> [q \in Queries |-> 0], over |-> {}, mixed |-> {} ]

-----------------------------------------------------------------------------
(* Helpers.                                                                *)
Wait(S, t, where, held, what) ==
  [S EXCEPT !.thread[t].at = where, !.thread[t].hold = held, !.thread[t].texts = what]

Rest(S, t) ==
  [S EXCEPT !.thread[t] = [Resting EXCEPT !.final = S.thread[t].final]]

TextOf(o) == [query |-> o.query, nth |-> o.nth, final |-> o.kind = "final"]
Dead(S, h) == S.streams[h].dead
Unhandled(S) == (1..S.query) \ S.over

(* A message is written into the inbox of the agent: every query that is   *)
(* not over, and the one that will read it, now share a turn number.       *)
Write(S, ms, unhandled) ==
  [S EXCEPT !.inbox = @ \cup ms, !.seq = @ + 1,
            !.turnText = @ \cup ms,
            !.mixed = IF unhandled = {} /\ S.thread["tail"].at = "over" THEN @
                      ELSE @ \cup unhandled \cup ({S.query + 1} \cap Queries)]

(* requestDeliveryRetry, and the roll-back of the cursor after it          *)
RetryDelivery(S, unhandled) ==
  IF S.turnCursor = Null THEN S
  ELSE LET back == [S EXCEPT !.cursor = S.turnCursor] IN
       IF S.turnText = {} \/ ~S.alive THEN back
       ELSE Write(back, S.turnText, unhandled)

NotifyUserDelivery(S) == [S EXCEPT !.turnCursor = Null, !.turnText = {}]

(* resetDeliveryStateForTurn                                               *)
ResetDeliveryState(S) ==
  IF S.seq = S.stateSeq THEN S
  ELSE [S EXCEPT !.stateSeq = S.seq, !.hadError = FALSE, !.sent = FALSE,
                 !.delivered = FALSE, !.attempted = FALSE, !.handled = FALSE,
                 !.failed = FALSE, !.failure = {}, !.progressive = 0,
                 !.partial = {}, !.last = 0, !.armed = FALSE, !.buffer = {}]

(* probeWireDeath                                                          *)
Probe(S) ==
  IF S.handle # 0 /\ Dead(S, S.handle) /\ ~S.armed
  THEN [S EXCEPT !.armed = TRUE, !.buffer = {}, !.handle = 0]
  ELSE S

-----------------------------------------------------------------------------
(* finalizeNativeStreamTerminal, last stage first: each operator is the    *)
(* rest of the function from a stage on, up to the next wait.              *)

(* What a thread does when the function returns to it.                     *)
Return(S, t) ==
  IF t = "tail"
  THEN Wait(S, t, IF S.thread[t].final THEN "over" ELSE "turn-end", 0, {})
  ELSE LET o == Head(S.events) IN
       [Rest(S, t) EXCEPT !.boundary = TRUE, !.events = Tail(@),
                          !.hadError = @ \/ o.kind = "error",
                          !.over = @ \cup {o.query}]

(* Mutant: every failure is left to the tail, which is there for the       *)
(* initial query alone.                                                    *)
VerdictForTail(S, t) ==
  Return(IF (S.failed \/ (S.attempted /\ ~S.delivered)) /\ ~S.handled
         THEN [S EXCEPT !.handled = TRUE, !.hadError = TRUE]
         ELSE IF S.sent \/ S.delivered THEN NotifyUserDelivery(S)
         ELSE S, t)

Verdict(S, t) ==
  LET failing == S.failed \/ (S.attempted /\ ~S.delivered)
      others == Unhandled(S) \ (IF t = "chain" THEN {Head(S.events).query} ELSE {})
  IN Return(IF failing /\ ~S.handled
            THEN IF S.seq > 1
                 THEN RetryDelivery([S EXCEPT !.handled = TRUE], others)
                 ELSE [S EXCEPT !.handled = TRUE, !.hadError = TRUE]
            ELSE IF S.sent \/ S.delivered THEN NotifyUserDelivery(S)
            ELSE S, t)

(* cancel() keeps a stream that has died or ended as it is, and waits for  *)
(* frames in flight if it has not ended.                                   *)
MustDrain(S, h) == S.streams[h].draining /\ ~S.streams[h].ended

Cancelled(S, h) ==
  [S EXCEPT !.handle = 0, !.streams[h].ended = @ \/ ~Dead(S, h)]

Cleanup(S, t) ==
  IF S.handle = 0 THEN Verdict(S, t)
  ELSE IF MustDrain(S, S.handle) THEN Wait(S, t, "cancel", S.handle, {})
  ELSE Verdict(Cancelled(S, S.handle), t)

(* Mutant: only an attempt that landed counts.                             *)
MaySendPlainAgain(S, what) == ~S.delivered /\ what # {}

(* sendPlainTerminal: one attempt per turn; the other thread's counts.     *)
MaySendPlain(S, what) == ~S.attempted /\ ~S.delivered /\ what # {}

SendPlain(S, t, what, stage) ==
  Wait([S EXCEPT !.attempted = TRUE, !.thread[t].stage = stage], t, "plain", 0, what)

AfterUnfinished(S, t, landed) ==
  Cleanup([S EXCEPT !.failed = @ /\ ~landed], t)

(* The end() of a partial nobody finalized has returned.                   *)
UnfinishedEnded(S, t, h, what) ==
  IF ~S.streams[h].lost THEN Cleanup([S EXCEPT !.sent = TRUE], t)
  ELSE LET f == [S EXCEPT !.failed = TRUE, !.failure = what] IN
       IF MaySendPlain(f, what) THEN SendPlain(f, t, what, "unfinished")
       ELSE AfterUnfinished(f, t, f.delivered)

Unfinished(S, t) ==
  IF S.handle # 0 /\ ~S.sent /\ S.partial # {}
  THEN LET h == S.handle  e == [S EXCEPT !.handle = 0] IN
       IF S.streams[h].ended THEN UnfinishedEnded(e, t, h, S.partial)
       ELSE Wait([e EXCEPT !.streams[h].ended = TRUE,
                           !.thread[t].stage = "unfinished"], t, "end", h, S.partial)
  ELSE Cleanup(S, t)

AfterPartial(S, t, landed) ==
  Unfinished([S EXCEPT !.failed = @ \/ ~landed], t)

PartialFallback(S, t) ==
  IF /\ ~S.failed
     /\ S.armed \/ (S.handle # 0 /\ Dead(S, S.handle))
     /\ ~S.delivered /\ S.partial # {}
  THEN IF MaySendPlain(S, S.partial) THEN SendPlain(S, t, S.partial, "partial")
       ELSE AfterPartial(S, t, S.delivered)
  ELSE Unfinished(S, t)

(* settleAndProbeWireDeath                                                 *)
Settle(S, t) ==
  IF S.handle # 0 /\ S.streams[S.handle].draining
  THEN Wait(S, t, "settle", S.handle, {})
  ELSE PartialFallback(Probe(S), t)

AfterFailure(S, t, landed) == Settle([S EXCEPT !.failed = @ /\ ~landed], t)

FailureFallback(S, t) ==
  IF S.failed /\ ~S.delivered
  THEN IF MaySendPlain(S, S.failure) THEN SendPlain(S, t, S.failure, "failure")
       ELSE AfterFailure(S, t, S.delivered)
  ELSE Settle(S, t)

AfterCoalesced(S, t, landed) ==
  FailureFallback([S EXCEPT !.armed = FALSE, !.buffer = {}, !.failed = @ \/ ~landed], t)

Finalize(S, t) ==
  IF S.armed /\ S.buffer # {}
  THEN IF MaySendPlain(S, S.buffer) THEN SendPlain(S, t, S.buffer, "coalesced")
       ELSE AfterCoalesced(S, t, S.delivered)
  ELSE FailureFallback(S, t)

-----------------------------------------------------------------------------
(* The callback of an output.                                              *)
(* chunk() does not wait, and does nothing once the stream is over.        *)
Chunk(S) ==
  [S EXCEPT !.streams[S.handle].draining =
     @ \/ ~(S.streams[S.handle].dead \/ S.streams[S.handle].ended)]

CallbackOver(S) == [Rest(S, "chain") EXCEPT !.events = Tail(@)]

(* The typing indicator comes on again after a final that went out, that   *)
(* was kept for later, or whose stream could not deliver it.               *)
Interim(S) == Wait(S, "chain", "interim", 0, {})

FinalOut(S) == Interim([S EXCEPT !.progressive = 0, !.partial = {}, !.sent = TRUE])

FinalFailed(S, what) == [S EXCEPT !.failed = TRUE, !.failure = what]

Output(S) ==
  LET o == Head(S.events)  what == {TextOf(o)}  p == [S EXCEPT !.partial = what] IN
  IF o.kind = "final" THEN Wait(S, "chain", "typing", 0, what)
  ELSE IF S.channel = "edits"
       THEN Wait([p EXCEPT !.thread["chain"].stage = "callback"], "chain",
                 IF S.progressive = 0 THEN "send" ELSE "edit", S.progressive, what)
  ELSE IF S.handle = 0 THEN Wait(p, "chain", "open", 0, what)
  ELSE CallbackOver(Probe(Chunk(p)))

(* Mutant: only the turn number tells one query from the next.             *)
ResultOfTurn(S) ==
  LET r == ResetDeliveryState(S) IN Output([r EXCEPT !.seen = r.seq, !.boundary = FALSE])

(* The boundary between turns, then the output itself.                     *)
Result(S) ==
  LET r == ResetDeliveryState(S)
      n == IF r.seq = r.seen THEN r ELSE [r EXCEPT !.seen = r.seq, !.boundary = TRUE]
      b == [n EXCEPT !.boundary = FALSE, !.progressive = 0, !.partial = {},
                     !.last = 0, !.sent = FALSE]
  IN IF ~n.boundary THEN Output(n)
     ELSE IF b.handle = 0 THEN Output(b)
     ELSE IF MustDrain(b, b.handle) THEN Wait(b, "chain", "boundary", b.handle, {})
     ELSE Output(Cancelled(b, b.handle))

(* The end() of a final has returned.                                      *)
FinalEnded(S, h, what, bubble) ==
  LET e == [S EXCEPT !.handle = 0, !.last = bubble] IN
  IF S.streams[h].lost THEN Interim(FinalFailed([e EXCEPT !.progressive = 0], what))
  ELSE FinalOut(e)

(* The typing indicator is off: where the final goes.                      *)
Final(S) ==
  LET what == S.thread["chain"].texts  h == S.handle
      c == [S EXCEPT !.thread["chain"].stage = "callback"]
  IN CASE S.armed ->
            Interim([S EXCEPT !.buffer = @ \cup what, !.progressive = 0, !.partial = {}])
       [] ~S.armed /\ h # 0 ->
            IF S.streams[h].ended THEN FinalEnded(S, h, what, 0)
            ELSE Wait([c EXCEPT !.streams[h].ended = TRUE], "chain", "end", h, what)
       [] ~S.armed /\ h = 0 /\ S.progressive # 0 ->
            Wait(c, "chain", "edit", S.progressive, what)
       [] ~S.armed /\ h = 0 /\ S.progressive = 0 ->
            IF S.sent /\ S.last # 0 /\ S.channel = "edits"
            THEN Wait(c, "chain", "edit", S.last, what)
            ELSE Wait(c, "chain", "send", 0, what)

MayBegin == s.events # <<>> /\ s.thread["chain"].at = "none"
MayResume(t) ==
  /\ s.thread[t].at \in {"settle", "cancel", "boundary"}
  /\ ~s.streams[s.thread[t].hold].draining

(* What needs no answer from outside goes before what does: JavaScript     *)
(* empties its queue of microtasks before it looks at the next event, and  *)
(* the chain is nearer to an output than the tail is.                      *)
Slow ==
  /\ ~MayBegin
  /\ ~(s.thread["tail"].at = "none" /\ s.resolved # "none")
  /\ \A t \in Threads : ~MayResume(t)

Begin ==
  /\ MayBegin
  /\ s' = IF Head(s.events).kind \in {"complete", "error"}
          THEN Finalize(s, "chain") ELSE Result(s)

TypingOff ==
  /\ Slow /\ s.thread["chain"].at = "typing"
  /\ s' = Final(s)

TypingOn ==
  /\ Slow /\ s.thread["chain"].at = "interim"
  /\ s' = CallbackOver(s)

StreamOpens ==
  /\ Slow /\ s.thread["chain"].at = "open"
  /\ s' = CallbackOver([s EXCEPT
            !.streams = Append(@, [draining |-> TRUE, dead |-> FALSE,
                                   ended |-> FALSE, lost |-> FALSE]),
            !.handle = Len(s.streams) + 1])

Show(S, what) == [S EXCEPT !.chat = Append(@, what)]
Fault(S) == [S EXCEPT !.faults = @ + 1]

(* A message of the callback is sent, or refused.                          *)
Sent ==
  LET c == s.thread["chain"]  bubble == Len(s.chat) + 1
      isFinal == \E x \in c.texts : x.final
  IN /\ Slow /\ c.at = "send"
     /\ \/ s' = IF isFinal THEN FinalOut([Show(s, c.texts) EXCEPT !.last = bubble])
                ELSE CallbackOver([Show(s, c.texts) EXCEPT !.progressive = bubble])
        \/ /\ s.faults < MaxFaults
           /\ s' = CallbackOver(Fault(IF isFinal /\ s.channel = "native"
                                      THEN FinalFailed(s, c.texts) ELSE s))

(* A message is edited; or the platform refuses and editMessage sends a    *)
(* new one instead; or that fails too.                                     *)
Edited ==
  LET c == s.thread["chain"]  isFinal == \E x \in c.texts : x.final
      As(S, bubble) == IF isFinal THEN FinalOut([S EXCEPT !.last = bubble])
                       ELSE CallbackOver([S EXCEPT !.progressive = bubble])
  IN /\ Slow /\ c.at = "edit"
     /\ \/ s' = As([s EXCEPT !.chat[c.hold] = c.texts], c.hold)
        \/ s.faults < MaxFaults /\ s' = As(Fault(Show(s, c.texts)), Len(s.chat) + 1)
        \/ s.faults < MaxFaults /\ s' = CallbackOver(Fault(s))

-----------------------------------------------------------------------------
(* Waits both threads know.                                                *)
Ended(t) ==
  LET c == s.thread[t]
      After(S, bubble) == IF c.stage = "callback" THEN FinalEnded(S, c.hold, c.texts, bubble)
                          ELSE UnfinishedEnded(S, t, c.hold, c.texts)
  IN /\ Slow /\ c.at = "end" /\ ~s.streams[c.hold].draining
     /\ \/ s' = After(Show(s, c.texts), Len(s.chat) + 1)
        \/ /\ s.faults < MaxFaults
           /\ s' = After(Fault([s EXCEPT !.streams[c.hold].lost = TRUE]), 0)

PlainSent(t) ==
  LET c == s.thread[t]
      After(S, landed) ==
        CASE c.stage = "coalesced"  -> AfterCoalesced(S, t, landed)
          [] c.stage = "failure"    -> AfterFailure(S, t, landed)
          [] c.stage = "partial"    -> AfterPartial(S, t, landed)
          [] c.stage = "unfinished" -> AfterUnfinished(S, t, landed)
  IN /\ Slow /\ c.at = "plain"
     /\ \/ s' = After([Show(s, c.texts) EXCEPT !.last = Len(s.chat) + 1,
                         !.delivered = TRUE, !.sent = TRUE], TRUE)
        \/ s.faults < MaxFaults /\ s' = After(Fault(s), FALSE)

(* The frames in flight are out.                                           *)
Drained(t) ==
  LET h == s.thread[t].hold IN
  /\ MayResume(t)
  /\ s' = CASE s.thread[t].at = "settle" ->
                 PartialFallback(IF s.handle = h THEN Probe(s) ELSE s, t)
            [] s.thread[t].at = "cancel" -> Verdict(Cancelled(s, h), t)
            [] s.thread[t].at = "boundary" -> Output(Cancelled(s, h))

-----------------------------------------------------------------------------
(* The tail of processGroupMessages.                                       *)
RunReturns ==
  /\ s.thread["tail"].at = "none" /\ s.resolved # "none" /\ ~MayBegin
  /\ s' = Finalize(s, "tail")

Decide ==
  LET retry == (s.resolved = "error" \/ s.hadError) /\ ~s.sent
      d == [s EXCEPT !.verdict = IF retry THEN "retry" ELSE "success",
                     !.cursor = IF retry THEN 0 ELSE @,
                     !.thread["tail"].final = TRUE]
  IN /\ Slow /\ s.thread["tail"].at = "turn-end"
     /\ s' = Finalize(d, "tail")

-----------------------------------------------------------------------------
(* The agent, the user and the wire.                                       *)
Emit ==
  /\ Slow /\ s.alive /\ s.working /\ s.emitted < MaxOutputs
  /\ \E k \in {"partial", "final"} :
       s' = [s EXCEPT !.emitted = @ + 1,
               !.answer[s.query] = IF k = "final" THEN s.emitted + 1 ELSE @,
               !.events = Append(@, [query |-> s.query, nth |-> s.emitted + 1, kind |-> k])]

Resolve(S, how) == IF S.resolved = "none" THEN [S EXCEPT !.resolved = how] ELSE S

Complete ==
  /\ Slow /\ s.alive /\ s.working
  /\ \E k \in {"complete", "error"} :
       s' = Resolve([s EXCEPT !.working = FALSE, !.alive = k = "complete",
                       !.events = Append(@, [query |-> s.query, nth |-> 0, kind |-> k])],
                    IF k = "complete" THEN "success" ELSE "error")

Die ==
  /\ Slow /\ s.alive
  /\ s' = Resolve([s EXCEPT !.alive = FALSE, !.working = FALSE], "error")

NextQuery ==
  /\ Slow /\ s.alive /\ ~s.working /\ s.inbox # {} /\ s.query < MaxQueries
  /\ s' = [s EXCEPT !.working = TRUE, !.query = @ + 1, !.emitted = 0, !.inbox = {},
                    !.asked[s.query + 1] = s.inbox]

(* The message loop pipes what is beyond the cursor.                       *)
Pipe ==
  /\ Slow /\ s.alive
  /\ \E m \in Messages :
       /\ \A q \in 1..s.query : m \notin s.asked[q]
       /\ m \notin s.inbox /\ m > s.cursor
       /\ s' = [Write(s, (s.cursor + 1)..m, Unhandled(s)) EXCEPT
                  !.turnCursor = IF @ = Null THEN s.cursor ELSE @, !.cursor = m]

(* The frames in flight arrive, or the stream dies of them.                *)
Drains ==
  /\ Slow
  /\ \E h \in DOMAIN s.streams :
       /\ s.streams[h].draining
       /\ LET d == [s EXCEPT !.streams[h].draining = FALSE] IN
          \/ s' = d
          \/ s.faults < MaxFaults /\ s' = Fault([d EXCEPT !.streams[h].dead = TRUE])

Next ==
  \/ Begin \/ TypingOff \/ TypingOn \/ StreamOpens \/ Sent \/ Edited
  \/ \E t \in Threads : Ended(t) \/ PlainSent(t) \/ Drained(t)
  \/ RunReturns \/ Decide
  \/ Emit \/ Complete \/ Die \/ NextQuery \/ Pipe \/ Drains

Spec == Init /\ [][Next]_s

-----------------------------------------------------------------------------
(* Types.                                                                  *)
TypeOK == s \in OutputStates

Shown == UNION {s.chat[b] : b \in DOMAIN s.chat}

(* A final never stands in the chat in two messages at once: the callback, *)
(* the query-complete and the tail, each with fallbacks of its own, share  *)
(* one plain attempt a turn and one stream.  src/index.ts:403-412          *)
FinalOnce ==
  \A b, c \in DOMAIN s.chat :
    b # c => \A x \in s.chat[b] \cap s.chat[c] : ~x.final

(* A message with a final of one query is never edited into an output of   *)
(* another query, though the ids outlive the query they belong to.         *)
(* src/index.ts:700-713                                                    *)
NeverOverwritten ==
  [][\A b \in DOMAIN s.chat :
       \A x \in s.chat[b] \ s'.chat[b] :
         x.final => \A y \in s'.chat[b] : y.query = x.query]_s

(* The last final of a query is in the chat, or the query gave none; or    *)
(* its messages will be read again: they are beyond the cursor, in the     *)
(* agent's inbox, or were read by a later query.                           *)
Answered(q) == s.answer[q] = 0 \/ \E x \in Shown :
  x.query = q /\ x.nth = s.answer[q] /\ x.final

Kept(q) ==
  \A m \in s.asked[q] :
    \/ m > s.cursor \/ m \in s.inbox
    \/ \E p \in Queries : p > q /\ m \in s.asked[p]

(* A follow-up whose query-complete has been handled is answered or kept,  *)
(* whatever failed on the way, unless a message was piped while it ran:    *)
(* then two queries share the flags of one turn (see the README).          *)
(* src/index.ts:631-645, src/group-queue.ts:507-535                        *)
FollowUpKept ==
  s.channel = "native" =>
    \A q \in s.over \ (s.mixed \cup {1}) : Answered(q) \/ Kept(q)

(* "Initial query: processGroupMessages' normal hadError path returns      *)
(* false to GroupQueue, which schedules the existing bounded retry"        *)
(* (src/index.ts:646-649): so an answer that could not be delivered is     *)
(* asked for again.  It is not, if the tail has read hadError before the   *)
(* callbacks fail.                                                         *)
InitialKept ==
  s.channel = "native" /\ 1 \in s.over /\ s.thread["tail"].at = "over" =>
    Answered(1) \/ Kept(1)
=============================================================================
