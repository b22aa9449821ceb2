---------------------------- MODULE ThinkingLane ----------------------------
(***************************************************************************)
(* The preview of what an agent thinks (showThinking "flash", on a channel *)
(* that edits its messages): a message that is opened by the first delta,  *)
(* edited by the others, and deleted when the answer begins.               *)
(* src/flash-edit-coalescer.ts and the thinking branch and dismissal of    *)
(* the closure in src/index.ts.                                            *)
(*                                                                         *)
(* Callbacks run one at a time, so the opening lock never has a second     *)
(* caller and is left out.  Edits are not awaited by callbacks: a worker   *)
(* of the coalescer runs beside them.                                      *)
(***************************************************************************)
EXTENDS Integers, Sequences, FiniteSets

CONSTANTS
  MaxDeltas,     \* bound: texts of thinking
  MaxQueries,    \* bound: queries of one agent
  MaxFaults      \* bound: calls of the channel that fail

VARIABLES
  lane,      \* the closure's variables about the preview
  slots,     \* of the coalescer: every one so far, with its worker
  previews,  \* the messages the user has seen of it
  chain,     \* what the callback at work waits for
  agent,
  turn,      \* how the closure tells one turn from the next
  faults

vars == <<lane, slots, previews, chain, agent, turn, faults>>

Queries == 1..MaxQueries
Texts == 0..MaxDeltas    \* 0: none

SlotStates ==
  [ msg      : Nat,
    latest   : Texts,
    snapshot : Texts,
    at       : {"idle", "editing", "deleting"},   \* inFlight, if not idle
    orphan   : Nat,        \* the message an edit became
    listed   : BOOLEAN ]   \* in the queue

TypeOK ==
  /\ lane \in [thinkingMsgId : 0..Len(previews), rendered : Texts, dismissed : BOOLEAN,
               dismissedIn : 0..MaxQueries]      \* ghost: the query of the dismissal
  /\ slots \in Seq(SlotStates)
  /\ previews \in Seq([text : Texts, gone : BOOLEAN, query : Queries])
  /\ chain \in [at : {"free", "opening", "draining", "deleting", "delivering"},
                text : Texts, slot : 0..Len(slots), final : BOOLEAN]
  /\ agent \in [query : Queries, piped : 0..(MaxQueries - 1), working : BOOLEAN,
                deltas : Texts,
                answered : SUBSET Queries,       \* ghost: a final was delivered
                mixed : SUBSET Queries]          \* ghost: a message was piped meanwhile
  /\ turn \in [thinking : BOOLEAN, result : BOOLEAN,   \* queryBoundaryPending...
               ahead : BOOLEAN,                        \* userTurnSeq was not seen yet
               finalized : BOOLEAN]
  /\ faults \in 0..MaxFaults

Init ==
  /\ lane = [thinkingMsgId |-> 0, rendered |-> 0, dismissed |-> FALSE, dismissedIn |-> 0]
  /\ slots = <<>> /\ previews = <<>>
  /\ chain = [at |-> "free", text |-> 0, slot |-> 0, final |-> FALSE]
  /\ agent = [query |-> 1, piped |-> 0, working |-> TRUE, deltas |-> 0,
              answered |-> {}, mixed |-> {}]
  /\ turn = [thinking |-> FALSE, result |-> FALSE, ahead |-> FALSE, finalized |-> FALSE]
  /\ faults = 0

Fault == faults < MaxFaults /\ faults' = faults + 1
Free == chain.at = "free"
Waits(where, text, slot, final) ==
  chain' = [at |-> where, text |-> text, slot |-> slot, final |-> final]
Done == Waits("free", 0, 0, FALSE)

(***************************************************************************)
(* The coalescer                                                           *)
(***************************************************************************)

SlotOf(msg) == {k \in DOMAIN slots : slots[k].listed /\ slots[k].msg = msg}

Edits(S, text) == [S EXCEPT !.latest = text, !.snapshot = text, !.at = "editing"]

Enqueue(msg, text) ==
  slots' = IF SlotOf(msg) = {}
             THEN Append(slots, Edits([msg |-> msg, latest |-> 0, snapshot |-> 0,
                                       at |-> "idle", orphan |-> 0, listed |-> TRUE], text))
             ELSE [k \in DOMAIN slots |->
                     CASE k \notin SlotOf(msg) -> slots[k]
                       [] k \in SlotOf(msg) /\ slots[k].at = "idle" -> Edits(slots[k], text)
                       [] OTHER -> [slots[k] EXCEPT !.latest = text]]

Unlist(S, msg) ==
  [k \in DOMAIN S |-> IF S[k].msg = msg THEN [S[k] EXCEPT !.listed = FALSE] ELSE S[k]]
Clear(S) == [k \in DOMAIN S |-> [S[k] EXCEPT !.listed = FALSE]]

GoOnAlways(S) == Edits(S, S.latest)   \* mutant: the worker does not look whether it is done

\* An edit has settled: is there anything newer?
GoOn(S) ==
  IF S.latest = S.snapshot THEN [S EXCEPT !.at = "idle"] ELSE Edits(S, S.latest)

EditSettles(k) ==
  LET S == slots[k] IN
  /\ S.at = "editing"
  /\ slots' = [slots EXCEPT ![k] = GoOn(@)]
  /\ \/ /\ ~previews[S.msg].gone
        /\ previews' = [previews EXCEPT ![S.msg].text = S.snapshot]
        /\ UNCHANGED faults
     \/ Fault /\ UNCHANGED previews    \* it throws
  /\ UNCHANGED <<lane, chain, agent, turn>>

\* editMessage was refused and has sent a new message instead.
EditFallsBack(k) ==
  LET S == slots[k] IN
  /\ S.at = "editing"
  /\ IF previews[S.msg].gone THEN UNCHANGED faults ELSE Fault
  /\ previews' = Append(previews, [text |-> S.snapshot, gone |-> FALSE,
                                   query |-> previews[S.msg].query])
  /\ slots' = [slots EXCEPT ![k].at = "deleting", ![k].orphan = Len(previews) + 1]
  /\ UNCHANGED <<lane, chain, agent, turn>>

\* Then onOrphan: whichever turn it is by now.
OrphanDeleted(k) ==
  LET S == slots[k] IN
  /\ S.at = "deleting"
  /\ \/ previews' = [previews EXCEPT ![S.orphan].gone = TRUE] /\ UNCHANGED faults
     \/ Fault /\ UNCHANGED previews
  /\ slots' = Unlist([slots EXCEPT ![k].at = "idle", ![k].orphan = 0], S.msg)
  /\ lane' = [lane EXCEPT !.thinkingMsgId = 0, !.dismissed = TRUE,
                          !.dismissedIn = IF lane.dismissed THEN @ ELSE agent.query]
  /\ UNCHANGED <<chain, agent, turn>>

(***************************************************************************)
(* The callbacks                                                           *)
(***************************************************************************)

Handles == agent.working /\ Free

\* A new turn number: both boundaries are due.
Seen == IF turn.ahead THEN [thinking |-> TRUE, result |-> TRUE, ahead |-> FALSE,
                            finalized |-> FALSE]
        ELSE turn

\* The boundary of the thinking branch: the last turn's preview is let go.
Fresh == [lane EXCEPT !.thinkingMsgId = 0, !.rendered = 0]

Show(L, S, text) ==
  IF L.thinkingMsgId = 0
    THEN /\ Waits("opening", text, 0, FALSE)
         /\ lane' = L /\ slots' = S
    ELSE /\ lane' = [L EXCEPT !.rendered = text]
         /\ IF L.rendered # text THEN Enqueue(L.thinkingMsgId, text) ELSE slots' = S
         /\ UNCHANGED chain

\* reasoning_delta: its text is the next one, or the one before once more.
Thinking(text) ==
  /\ Handles
  /\ text \in {agent.deltas, agent.deltas + 1} /\ text \in 1..MaxDeltas
  /\ agent' = [agent EXCEPT !.deltas = text]
  /\ IF turn.finalized /\ ~turn.ahead
       THEN UNCHANGED <<turn, lane, slots, chain>>       \* trailing
       ELSE IF lane.dismissed
         THEN turn' = Seen /\ UNCHANGED <<lane, slots, chain>>
         ELSE /\ turn' = [Seen EXCEPT !.thinking = FALSE]
              /\ IF Seen.thinking THEN Show(Fresh, Clear(slots), text)
                 ELSE Show(lane, slots, text)
  /\ UNCHANGED <<previews, faults>>

Opened ==
  /\ chain.at = "opening" /\ Done
  /\ \/ /\ previews' = Append(previews, [text |-> chain.text, gone |-> FALSE,
                                         query |-> agent.query])
        /\ lane' = [lane EXCEPT !.thinkingMsgId = Len(previews) + 1, !.rendered = chain.text]
        /\ UNCHANGED faults
     \/ /\ Fault
        /\ lane' = [lane EXCEPT !.rendered = chain.text]
        /\ UNCHANGED previews
  /\ UNCHANGED <<slots, agent, turn>>

ResultWiping(final) ==   \* mutant: the boundary of the result branch resets the id, too
  /\ Handles
  /\ turn' = [Seen EXCEPT !.result = FALSE]
  /\ LET L == IF Seen.result THEN [lane EXCEPT !.thinkingMsgId = 0] ELSE lane IN
     /\ lane' = L
     /\ IF L.thinkingMsgId # 0 /\ ~L.dismissed
          THEN \E k \in 0..Len(slots) :
                 /\ IF SlotOf(L.thinkingMsgId) = {} THEN k = 0 ELSE k \in SlotOf(L.thinkingMsgId)
                 /\ Waits("draining", 0, k, final)
          ELSE Waits("delivering", 0, 0, final)
  /\ UNCHANGED <<slots, previews, agent, faults>>

\* A partial or a final.  The boundary of the result branch leaves the
\* preview alone.
Result(final) ==
  /\ Handles
  /\ turn' = [Seen EXCEPT !.result = FALSE]
  /\ IF lane.thinkingMsgId # 0 /\ ~lane.dismissed
       THEN \E k \in 0..Len(slots) :
              /\ IF SlotOf(lane.thinkingMsgId) = {} THEN k = 0 ELSE k \in SlotOf(lane.thinkingMsgId)
              /\ Waits("draining", 0, k, final)
       ELSE Waits("delivering", 0, 0, final)
  /\ UNCHANGED <<lane, slots, previews, agent, faults>>

\* drain() returns: the slot goes.
Drained ==
  /\ chain.at = "draining"
  /\ chain.slot # 0 => slots[chain.slot].at = "idle"
  /\ slots' = IF chain.slot = 0 THEN slots ELSE Unlist(slots, slots[chain.slot].msg)
  /\ Waits("deleting", 0, 0, chain.final)
  /\ UNCHANGED <<lane, previews, agent, turn, faults>>

\* An orphan may have taken the id away during drain(): then nothing is deleted.
PreviewDeleted ==
  /\ chain.at = "deleting"
  /\ \/ /\ previews' = IF lane.thinkingMsgId = 0 THEN previews
                       ELSE [previews EXCEPT ![lane.thinkingMsgId].gone = TRUE]
        /\ UNCHANGED faults
     \/ Fault /\ UNCHANGED previews
  /\ lane' = [lane EXCEPT !.thinkingMsgId = 0, !.dismissed = TRUE,
                          !.dismissedIn = IF lane.dismissed THEN @ ELSE agent.query]
  /\ Waits("delivering", 0, 0, chain.final)
  /\ UNCHANGED <<slots, agent, turn>>

Delivered ==
  /\ chain.at = "delivering" /\ Done
  /\ turn' = [turn EXCEPT !.finalized = @ \/ chain.final]
  /\ agent' = [agent EXCEPT !.answered = IF chain.final THEN @ \cup {agent.query} ELSE @]
  /\ UNCHANGED <<lane, slots, previews, faults>>

QueryComplete ==
  /\ Handles
  /\ agent' = [agent EXCEPT !.working = FALSE]
  /\ turn' = [turn EXCEPT !.thinking = TRUE, !.result = TRUE]
  /\ UNCHANGED <<lane, slots, previews, chain, faults>>

Pipe ==
  /\ agent.piped < MaxQueries - 1
  /\ agent' = [agent EXCEPT !.piped = @ + 1,
                 !.mixed = IF agent.working THEN @ \cup {agent.query} ELSE @]
  /\ turn' = [turn EXCEPT !.ahead = TRUE]
  /\ UNCHANGED <<lane, slots, previews, chain, faults>>

NextQuery ==
  /\ ~agent.working /\ Free /\ agent.query <= agent.piped
  /\ agent' = [agent EXCEPT !.working = TRUE, !.query = @ + 1]
  /\ UNCHANGED <<lane, slots, previews, chain, turn, faults>>

Worker == \E k \in DOMAIN slots : EditSettles(k) \/ EditFallsBack(k) \/ OrphanDeleted(k)
Chain == Opened \/ Drained \/ PreviewDeleted \/ Delivered

Next ==
  \/ Worker \/ Chain
  \/ \E text \in Texts : Thinking(text)
  \/ \E final \in BOOLEAN : Result(final)
  \/ QueryComplete \/ Pipe \/ NextQuery

\* The channel answers.
Spec == Init /\ [][Next]_vars /\ WF_vars(Worker) /\ WF_vars(Chain)

(***************************************************************************)
(* Properties                                                              *)
(***************************************************************************)

\* "At most one editMessage in flight per msgId at any time", and none on a
\* message that has been deleted: it would come back as a new one.
EditsApart ==
  \A k \in DOMAIN slots : slots[k].at = "editing" =>
    /\ ~previews[slots[k].msg].gone
    /\ \A j \in DOMAIN slots : slots[j].at = "editing" /\ slots[j].msg = slots[k].msg => j = k

\* Deltas that come while an edit is out are merged, and the last of them is
\* shown when the preview is at rest.
LastDeltaShown ==
  \A k \in DOMAIN slots : slots[k].listed /\ slots[k].at = "idle" =>
    previews[slots[k].msg].text = slots[k].latest

\* With the answer of a query in the chat its preview is gone and does not
\* come back, whatever the order of deltas, edits and answers; unless another
\* message was piped while it ran.
PreviewGone ==
  \A b \in DOMAIN previews :
    previews[b].query \in agent.answered \ agent.mixed => previews[b].gone

\* A preview is edited by one call at a time, says the last that was thought,
\* and goes with the answer.
PreviewTrue == EditsApart /\ (faults = 0 => LastDeltaShown /\ PreviewGone)

\* The callbacks are not held up by a preview that is being edited.
ChainGoesOn == ~Free ~> Free

\* "suppresses re-opening a thinking message for the remainder of the turn"
\* (src/index.ts:448): a delta of a later query is not suppressed.
SuppressedThisTurn ==
  [][agent'.deltas > agent.deltas /\ lane.dismissed /\ ~turn.finalized =>
       lane.dismissedIn = agent.query]_vars
=============================================================================
