---------------------------- MODULE MCChatTurns ----------------------------
(***************************************************************************)
(* The instance of ChatTurns and TurnOutput for model checking: the way of *)
(* the messages to the agents, and that of an agent's outputs to the chat. *)
(* They share no variable, so their interleavings add nothing, and a       *)
(* behaviour is of one of the two; the other does not move.                *)
(*                                                                         *)
(* Messages have two worlds: one in which agents die and writes fail, and  *)
(* one in which only the daemon crashes, with runs beside live agents.     *)
(***************************************************************************)
EXTENDS ChatTurns, Sequences

CONSTANTS Channels, MaxQueries, MaxOutputs, MaxPiped, MaxFaults

ASSUME OutputAssumption == {MaxQueries, MaxPiped} \subseteq Nat \ {0}

VARIABLES
  works,     \* the half of this behaviour
  output

allVars == <<works, chat, output>>

MCWorlds ==
  { [restarts |-> 0, deaths |-> 2, commands |-> TRUE, writesFail |-> TRUE, overlap |-> FALSE],
    [restarts |-> 1, deaths |-> 0, commands |-> FALSE, writesFail |-> FALSE, overlap |-> TRUE] }

Out == INSTANCE TurnOutput WITH s <- output, MaxMessages <- MaxPiped

TurnsInit ==
  /\ works \in {"messages", "output"}
  /\ Init /\ Out!Init
  /\ works = "messages" => output.channel = "native"
  /\ works = "output" => chat.world.restarts = 0

OfMessages(A) == works = "messages" /\ A /\ UNCHANGED <<works, output>>

TurnsNext ==
  \/ OfMessages(Next)
  \/ works = "output" /\ Out!Next /\ UNCHANGED <<works, chat>>

\* The fairness is that of FairSpec.
TurnsSpec ==
  /\ TurnsInit /\ [][TurnsNext]_allVars
  /\ WF_chat(OfMessages(Poll))
  /\ WF_chat(OfMessages(\E written \in BOOLEAN : Pipe(written)))
  /\ \A r \in Runs : WF_chat(OfMessages(RunStep(r)))
  /\ WF_chat(OfMessages(RetryTimer))

(* A final stands in the chat once.                                        *)
FinalOnce == Out!FinalOnce

(* The answer to a follow-up lands, or its message is kept.                *)
FollowUpKept == Out!FollowUpKept

(* A final is not edited into an output of another query.                  *)
NeverOverwritten == Out!NeverOverwritten

(* Every message that arrives is eventually handed to an agent.            *)
MessagesHanded == works = "messages" => EventuallyHanded
=============================================================================
