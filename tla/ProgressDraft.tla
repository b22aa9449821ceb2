---------------------------- MODULE ProgressDraft ----------------------------
(***************************************************************************)
(* The bubble that lists what tools an agent is using while it works:      *)
(* src/progress-draft.ts, its transport, and the closure of                *)
(* processGroupMessages that starts, ends and abandons drafts              *)
(* (src/index.ts).  Callbacks of one agent run one at a time (the chain);  *)
(* sends and edits of a draft are not awaited by them, and the tail of     *)
(* processGroupMessages runs beside them once the first query-complete is  *)
(* read.  What a bubble says is the number of changes of its lines so far, *)
(* or Summary; the default options apply, so a draft opens late, or at the *)
(* second tool, and is released at the end.                                *)
(***************************************************************************)
EXTENDS Integers, Sequences, FiniteSets

CONSTANTS
  MaxChanges,    \* bound: tools started, reporting or done, of one draft
  MaxQueries,    \* bound: queries of one agent
  MaxDrafts,     \* bound
  MaxFaults      \* bound: sends and edits that fail

VARIABLES
  drafts,     \* every ProgressDraftSession so far
  progressDraft,
  bubbles,    \* what the user sees of them
  agent,      \* the query it is at, and how far that has come
  turn,       \* how the closure tells one turn from the next
  tail,       \* processGroupMessages behind runAgent
  faults

vars == <<drafts, progressDraft, bubbles, agent, turn, tail, faults>>

Nothing == -1
Summary == MaxChanges + 1
Texts == 0..Summary

DraftStates ==
  [ changes   : 0..MaxChanges,
    tools     : 0..2,                \* toolStartCount, as far as it matters
    armed     : BOOLEAN,             \* openTimer
    opens     : 0..MaxChanges,       \* sendDraft: how often, and in flight
    sends     : SUBSET [nth : 1..MaxChanges, text : Texts],
    msg       : Nat,                 \* draftMsgId, 0 if none
    lastSent  : Texts \cup {Nothing},
    pending   : Texts \cup {Nothing},
    edits     : SUBSET [msg : Nat, text : Texts],      \* editDraft in flight
    finalized : BOOLEAN,
    abandoned : BOOLEAN,
    waits     : BOOLEAN,             \* finalize(), for openAttempt
    query     : 1..MaxQueries ]      \* in which it was created

NewDraft(q) ==
  [ changes |-> 0, tools |-> 0, armed |-> FALSE, opens |-> 0, sends |-> {}, msg |-> 0,
    lastSent |-> Nothing, pending |-> Nothing, edits |-> {}, finalized |-> FALSE,
    abandoned |-> FALSE, waits |-> FALSE, query |-> q ]

TypeOK ==
  /\ drafts \in Seq(DraftStates)
  /\ progressDraft \in 0..Len(drafts)
  /\ bubbles \in Seq([draft : 1..Len(drafts), text : Texts])
  /\ agent \in [ query : 1..MaxQueries, piped : 0..(MaxQueries - 1),
                 at : {"working", "read", "waiting", "dead"},  \* read: its query-complete
                 delivering : BOOLEAN ]                        \* a final is on its way
  /\ turn \in [boundary : BOOLEAN, ahead : BOOLEAN]
  /\ tail \in {"none", "running", "over"}
  /\ faults \in 0..MaxFaults

Init ==
  /\ drafts = <<>> /\ progressDraft = 0 /\ bubbles = <<>>
  /\ agent = [query |-> 1, piped |-> 0, at |-> "working", delivering |-> FALSE]
  /\ turn = [boundary |-> FALSE, ahead |-> FALSE]
  /\ tail = "none" /\ faults = 0

Drafts == DOMAIN drafts
Fault == faults < MaxFaults /\ faults' = faults + 1

(***************************************************************************)
(* A draft: each operator is a function of the session up to its next wait *)
(***************************************************************************)

Busy(D) == D.edits # {}

Edit(D) == [D EXCEPT !.edits = @ \cup {[msg |-> D.msg, text |-> D.pending]},
                     !.pending = Nothing]

DrainEdits(D) ==
  IF D.pending = Nothing \/ D.abandoned THEN D
  ELSE IF D.pending = D.lastSent THEN [D EXCEPT !.pending = Nothing]
  ELSE Edit(D)

EnqueueEditAbandoned(D, text) ==   \* mutant: abandoned is not looked at
  IF D.msg = 0 THEN D
  ELSE LET P == [D EXCEPT !.pending = text] IN IF Busy(D) THEN P ELSE Edit(P)

EnqueueEdit(D, text) ==
  IF D.msg = 0 \/ D.abandoned THEN D
  ELSE LET P == [D EXCEPT !.pending = text] IN
       IF Busy(D) THEN P ELSE DrainEdits(P)

OpenDraftNow(D) ==
  IF D.msg # 0 \/ D.abandoned \/ D.finalized THEN D
  ELSE [D EXCEPT !.opens = @ + 1,
                 !.sends = @ \cup {[nth |-> D.opens + 1, text |-> D.changes]}]

ScheduleOpen(D) == IF D.msg = 0 THEN [D EXCEPT !.armed = TRUE] ELSE D

Ended(D) == D.finalized \/ D.abandoned

ApplyStart(D) ==
  LET N == [D EXCEPT !.changes = @ + 1, !.tools = IF @ = 0 THEN 1 ELSE 2]
      O == IF N.msg = 0 /\ N.tools = 2 THEN OpenDraftNow([N EXCEPT !.armed = FALSE])
           ELSE ScheduleOpen(N)
  IN IF Ended(D) THEN D ELSE EnqueueEdit(O, O.changes)

\* tool_progress, tool_done of a tool that was started
ApplyChange(D) ==
  IF Ended(D) \/ D.tools = 0 THEN D
  ELSE LET N == [D EXCEPT !.changes = @ + 1] IN EnqueueEdit(N, N.changes)

Opening(D) == \E x \in D.sends : x.nth = D.opens   \* openAttempt

\* The rest of finalize(): editInFlight is a promise resolved from the start,
\* so there is no wait for the edit.
Release(D) == [EnqueueEdit(D, Summary) EXCEPT !.waits = FALSE]

FinalizeUnopened(D) ==   \* mutant: "Wait for any in-flight open attempt" is left out
  IF Ended(D) THEN D ELSE Release([D EXCEPT !.finalized = TRUE, !.armed = FALSE])

Finalize(D) ==
  IF Ended(D) THEN D
  ELSE LET F == [D EXCEPT !.finalized = TRUE, !.armed = FALSE] IN
       IF Opening(F) THEN [F EXCEPT !.waits = TRUE] ELSE Release(F)

Abandon(D) == [D EXCEPT !.abandoned = TRUE, !.armed = FALSE]

Returned(D) == D.finalized /\ ~D.waits

(***************************************************************************)
(* Timers, and the answers of the platform                                 *)
(***************************************************************************)

TimerFires(d) ==
  /\ drafts[d].armed
  /\ drafts' = [drafts EXCEPT ![d] = OpenDraftNow([@ EXCEPT !.armed = FALSE])]
  /\ UNCHANGED <<progressDraft, bubbles, agent, turn, tail, faults>>

AfterSendForgetful(D, i) ==   \* mutant: "flush the diff" is left out
  IF D.waits /\ i = D.opens THEN Release(D) ELSE D

\* Behind the send: the lines may have changed meanwhile, and finalize() may
\* wait for the last one sent.
AfterSend(D, i) ==
  LET E == EnqueueEdit(D, D.changes) IN
  IF E.waits /\ i = E.opens THEN Release(E) ELSE E

\* finalizeProgressDraft: whatever draft there is by then is forgotten.
Forget(d) ==
  progressDraft' = IF drafts[d].waits /\ ~drafts'[d].waits THEN 0 ELSE progressDraft

SendDraftReturns(d) ==
  \E x \in drafts[d].sends :
    LET D == [drafts[d] EXCEPT !.sends = @ \ {x}] IN
    /\ \/ /\ bubbles' = Append(bubbles, [draft |-> d, text |-> x.text])
          /\ drafts' = [drafts EXCEPT ![d] =
                          AfterSend([D EXCEPT !.msg = Len(bubbles) + 1, !.lastSent = x.text],
                                    x.nth)]
          /\ UNCHANGED faults
       \/ /\ Fault
          /\ drafts' = [drafts EXCEPT ![d] = AfterSend(D, x.nth)]
          /\ UNCHANGED bubbles
    /\ Forget(d)
    /\ UNCHANGED <<agent, turn, tail>>

\* An edit that fails may have become a message of its own, which the
\* transport does not notice; the session takes it as done.
EditDraftReturns(d) ==
  \E e \in drafts[d].edits :
    /\ \/ bubbles' = [bubbles EXCEPT ![e.msg].text = e.text] /\ UNCHANGED faults
       \/ Fault /\ bubbles' \in {bubbles, Append(bubbles, [draft |-> d, text |-> e.text])}
    /\ LET D == [drafts[d] EXCEPT !.edits = @ \ {e}, !.lastSent = e.text] IN
       drafts' = [drafts EXCEPT ![d] = DrainEdits(D)]
    /\ UNCHANGED <<progressDraft, agent, turn, tail>>

(***************************************************************************)
(* The callbacks of the agent's outputs                                    *)
(***************************************************************************)

\* An output of the query is at the head of the chain.
Handles == agent.at \in {"working", "read"} /\ ~agent.delivering

\* ensureProgressDraft, apply
ToolStart ==
  /\ Handles
  /\ IF progressDraft = 0
       THEN /\ Len(drafts) < MaxDrafts
            /\ drafts' = Append(drafts, ApplyStart(NewDraft(agent.query)))
            /\ progressDraft' = Len(drafts) + 1
       ELSE /\ drafts[progressDraft].changes < MaxChanges
            /\ drafts' = [drafts EXCEPT ![progressDraft] = ApplyStart(@)]
            /\ UNCHANGED progressDraft
  /\ UNCHANGED <<bubbles, agent, turn, tail, faults>>

ToolChange ==
  /\ Handles /\ progressDraft # 0 /\ drafts[progressDraft].changes < MaxChanges
  /\ drafts' = [drafts EXCEPT ![progressDraft] = ApplyChange(@)]
  /\ UNCHANGED <<progressDraft, bubbles, agent, turn, tail, faults>>

AbandonProgressDraft ==
  /\ drafts' = IF progressDraft = 0 THEN drafts
               ELSE [drafts EXCEPT ![progressDraft] = Abandon(@)]
  /\ progressDraft' = 0

\* A partial or a final: the first one of a turn crosses its boundary.
Result(final) ==
  /\ Handles
  /\ IF turn.boundary \/ turn.ahead THEN AbandonProgressDraft
     ELSE UNCHANGED <<drafts, progressDraft>>
  /\ turn' = [boundary |-> FALSE, ahead |-> FALSE]
  /\ agent' = [agent EXCEPT !.delivering = final]
  /\ UNCHANGED <<bubbles, tail, faults>>

FinalDelivered ==
  /\ agent.delivering
  /\ agent' = [agent EXCEPT !.delivering = FALSE]
  /\ IF progressDraft = 0 THEN UNCHANGED <<drafts, progressDraft>>
     ELSE LET F == Finalize(drafts[progressDraft]) IN
          /\ drafts' = [drafts EXCEPT ![progressDraft] = F]
          /\ progressDraft' = IF F.waits /\ ~Ended(drafts[progressDraft])
                                THEN progressDraft ELSE 0
  /\ UNCHANGED <<bubbles, turn, tail, faults>>

FinalFails ==
  /\ agent.delivering /\ Fault
  /\ agent' = [agent EXCEPT !.delivering = FALSE]
  /\ UNCHANGED <<drafts, progressDraft, bubbles, turn, tail>>

\* The query-complete has been read, its callback stands in the chain.
QueryComplete ==
  /\ agent.at = "working"
  /\ agent' = [agent EXCEPT !.at = "read"]
  /\ tail' = IF tail = "none" THEN "running" ELSE tail
  /\ UNCHANGED <<drafts, progressDraft, bubbles, turn, faults>>

HandleComplete ==
  /\ agent.at = "read" /\ ~agent.delivering
  /\ agent' = [agent EXCEPT !.at = "waiting"]
  /\ turn' = [turn EXCEPT !.boundary = TRUE]
  /\ UNCHANGED <<drafts, progressDraft, bubbles, tail, faults>>

Dies ==
  /\ agent.at # "dead"
  /\ agent' = [agent EXCEPT !.at = "dead"]
  /\ tail' = IF tail = "none" THEN "running" ELSE tail
  /\ UNCHANGED <<drafts, progressDraft, bubbles, turn, faults>>

\* queue.sendMessage: the number of the user's turn goes up.
Pipe ==
  /\ agent.at # "dead" /\ agent.piped < MaxQueries - 1
  /\ agent' = [agent EXCEPT !.piped = @ + 1]
  /\ turn' = [turn EXCEPT !.ahead = TRUE]
  /\ UNCHANGED <<drafts, progressDraft, bubbles, tail, faults>>

NextQuery ==
  /\ agent.at = "waiting" /\ agent.query <= agent.piped
  /\ agent' = [agent EXCEPT !.at = "working", !.query = @ + 1]
  /\ UNCHANGED <<drafts, progressDraft, bubbles, turn, tail, faults>>

FinallyGuard ==
  /\ tail = "running"
  /\ tail' = "over"
  /\ AbandonProgressDraft
  /\ UNCHANGED <<bubbles, agent, turn, faults>>

Platform == \E d \in Drafts : SendDraftReturns(d) \/ EditDraftReturns(d)

Next ==
  \/ Platform \/ \E d \in Drafts : TimerFires(d)
  \/ ToolStart \/ ToolChange
  \/ \E final \in BOOLEAN : Result(final)
  \/ FinalDelivered \/ FinalFails
  \/ QueryComplete \/ HandleComplete \/ Dies \/ Pipe \/ NextQuery
  \/ FinallyGuard

\* The platform answers; nothing else is promised.
Spec == Init /\ [][Next]_vars /\ WF_vars(Platform)

(***************************************************************************)
(* Properties.  A draft that was sent more than once has bubbles its       *)
(* session has lost track of: the id that keeps openDraftNow from sending  *)
(* again comes with the answer only.  The others are kept right.           *)
(***************************************************************************)

SentOnce(d) == drafts[d].opens <= 1

\* Edits are merged, none waits for nothing and none is lost: when a draft is
\* at rest, its bubble says what the session last had to say.
BubbleUpToDate ==
  \A d \in Drafts :
    LET D == drafts[d] IN
    D.msg # 0 /\ SentOnce(d) /\ ~Busy(D) /\ ~D.abandoned /\ faults = 0 =>
      bubbles[D.msg].text = IF Returned(D) THEN Summary ELSE D.changes

\* A bubble never goes back to what it said before, so the summary stays.
\* "no more wire traffic": once abandoned, a draft is not sent nor edited,
\* also when an answer or a tool's report comes in later; once finalized it is
\* not sent.
NeverBack ==
  [][/\ \A b \in DOMAIN bubbles :
          SentOnce(bubbles[b].draft) => bubbles'[b].text >= bubbles[b].text
     /\ \A d \in Drafts :
          /\ Ended(drafts[d]) => drafts'[d].opens = drafts[d].opens
          /\ drafts[d].abandoned => drafts'[d].edits \subseteq drafts[d].edits]_vars

\* Whatever order tools, answers and sends come in, a draft that was finalized
\* shows its summary in the end.
Owed(d) == d \in Drafts /\ drafts[d].finalized /\ drafts[d].opens > 0

Shows(d) ==
  \/ faults > 0 \/ ~SentOnce(d) \/ drafts[d].abandoned
  \/ drafts[d].msg # 0 /\ bubbles[drafts[d].msg].text = Summary

SummaryShown == \A d \in 1..MaxDrafts : Owed(d) ~> d \in Drafts /\ Shows(d)
=============================================================================
