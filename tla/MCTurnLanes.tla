----------------------------- MODULE MCTurnLanes -----------------------------
(***************************************************************************)
(* The instance of TeamsStream, ProgressDraft and ThinkingLane for model   *)
(* checking: the three lanes of a turn that write to the channel beside    *)
(* the callbacks.  They share no variable, so their interleavings add      *)
(* nothing, and a behaviour is of one lane; the others do not move.        *)
(***************************************************************************)
EXTENDS TeamsStream, Sequences

CONSTANTS MaxChanges, MaxDrafts, MaxDeltas, MaxQueries, MaxFaults

\* Of the bounds that proofs are about.
ASSUME LanesAssumption ==
  MaxChanges \in Nat \ {0} /\ MaxDeltas \in Nat /\ MaxQueries \in Nat \ {0} /\ MaxFaults \in Nat

VARIABLES
  works,     \* the lane of this behaviour
  drafts, progressDraft, bubbles, draftAgent, draftTurn, tail, draftFaults,
  lane, slots, previews, chain, laneAgent, laneTurn, laneFaults

draftVars == <<drafts, progressDraft, bubbles, draftAgent, draftTurn, tail, draftFaults>>
laneVars == <<lane, slots, previews, chain, laneAgent, laneTurn, laneFaults>>
allVars == <<works, vars, draftVars, laneVars>>

Draft == INSTANCE ProgressDraft
           WITH agent <- draftAgent, turn <- draftTurn, faults <- draftFaults
Thinking == INSTANCE ThinkingLane
              WITH agent <- laneAgent, turn <- laneTurn, faults <- laneFaults

LanesInit ==
  /\ works \in {"stream", "draft", "thinking"}
  /\ Init /\ Draft!Init /\ Thinking!Init

LanesNext ==
  /\ UNCHANGED works
  /\ \/ works = "stream" /\ Next /\ UNCHANGED <<draftVars, laneVars>>
     \/ works = "draft" /\ Draft!Next /\ UNCHANGED <<vars, laneVars>>
     \/ works = "thinking" /\ Thinking!Next /\ UNCHANGED <<vars, draftVars>>

\* Each lane's fairness, as its own specification has it.
LanesSpec ==
  /\ LanesInit /\ [][LanesNext]_allVars
  /\ WF_vars(works = "stream" /\ Proceed /\ UNCHANGED <<works, draftVars, laneVars>>)
  /\ WF_draftVars(works = "draft" /\ Draft!Platform /\ UNCHANGED <<works, vars, laneVars>>)
  /\ WF_laneVars(works = "thinking" /\ Thinking!Worker /\ UNCHANGED <<works, vars, draftVars>>)
  /\ WF_laneVars(works = "thinking" /\ Thinking!Chain /\ UNCHANGED <<works, vars, draftVars>>)

(* What a draft's bubble says is up to date.                               *)
BubbleUpToDate == Draft!BubbleUpToDate

(* It never goes back, and a draft that was ended is quiet.                *)
NeverBack == Draft!NeverBack

(* A draft that was finalized shows its summary in the end.                *)
SummaryShown == Draft!SummaryShown

(* A preview is edited by one call at a time, shows the last delta, and is *)
(* gone with the answer.                                                   *)
PreviewTrue == Thinking!PreviewTrue

(* Whatever the service does, the stream's caller gets its answer, and a   *)
(* preview does not hold up the callbacks.                                 *)
CallersGoOn == CallsReturn /\ Thinking!ChainGoesOn

(* A dismissed preview is suppressed in its own turn.                      *)
SuppressedThisTurn == Thinking!SuppressedThisTurn
=============================================================================
