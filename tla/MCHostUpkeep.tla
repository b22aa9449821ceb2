---------------------------- MODULE MCHostUpkeep ----------------------------
(***************************************************************************)
(* The instance of ConfigFile, AgentPids, TunnelRing and McpTokens for     *)
(* model checking: what the daemon and the command line keep outside of    *)
(* the daemon's memory, through crashes and restarts.  They share no       *)
(* variable, so their interleavings add nothing, and a behaviour is of one *)
(* of them; the others do not move.                                        *)
(***************************************************************************)
EXTENDS ConfigFile

CONSTANTS
  Agents, MaxBoots,
  Hosts, FailureThreshold, MaxFaults, MaxStarts,
  NServers, MaxIssues, MaxChanges

\* Of the bounds that proofs are about.
ASSUME UpkeepAssumption == MaxBoots \in Nat /\ NServers \in Nat

VARIABLES
  works,     \* the part of this behaviour
  host, daemon, boots, agents, mine, held, list, reaper, stop, excused,
  hosts, lingers, pidFile, cli, up, health, ensuring, starts, faults,
  place, cache, acquiring, run, mcpFile, source

pidVars == <<host, daemon, boots, agents, mine, held, list, reaper, stop, excused>>
tunnelVars == <<hosts, lingers, pidFile, cli, up, health, ensuring, starts, faults>>
tokenVars == <<place, cache, acquiring, run, mcpFile, source>>
allVars == <<works, vars, pidVars, tunnelVars, tokenVars>>

Pids == INSTANCE AgentPids
Tunnel == INSTANCE TunnelRing WITH ring <- health
Mcp == INSTANCE McpTokens WITH file <- mcpFile

MCIssues == <<2, 1>>

UpkeepInit ==
  /\ works \in {"config", "pids", "tunnel", "tokens"}
  /\ Init /\ Pids!Init /\ Tunnel!Init /\ Mcp!Init
  /\ works # "pids" => host = "posix"
  /\ works # "tunnel" => cli
  /\ works # "tokens" => place = [sandbox |-> FALSE, shared |-> FALSE]
  /\ place.sandbox => place.shared

OfTunnel(A) == works = "tunnel" /\ A /\ UNCHANGED <<works, vars, pidVars, tokenVars>>

UpkeepNext ==
  \/ works = "config" /\ Next /\ UNCHANGED <<works, pidVars, tunnelVars, tokenVars>>
  \/ works = "pids" /\ Pids!Next /\ UNCHANGED <<works, vars, tunnelVars, tokenVars>>
  \/ OfTunnel(Tunnel!Next)
  \/ works = "tokens" /\ Mcp!Next /\ UNCHANGED <<works, vars, pidVars, tunnelVars>>

\* The fairness is that of TunnelRing's specification.
UpkeepSpec ==
  /\ UpkeepInit /\ [][UpkeepNext]_allVars
  /\ WF_tunnelVars(OfTunnel(Tunnel!Tick))
  /\ WF_tunnelVars(OfTunnel(Tunnel!Show("ring")))
  /\ WF_tunnelVars(OfTunnel(Tunnel!SpawnHost("ring")))
  /\ WF_tunnelVars(OfTunnel(Tunnel!ServiceForgets))
  /\ \A h \in Hosts : SF_tunnelVars(OfTunnel(Tunnel!Connect(h)))

(* nanoclaw stop leaves no agent.                                          *)
StopLeavesNone == Pids!StopLeavesNone

(* The tunnel gets connected again.                                        *)
TunnelRecovers == works = "tunnel" => Tunnel!TunnelRecovers

(* An idle agent that gets a message has the tokens of the cache.          *)
HeadersCurrent == Mcp!HeadersCurrent

(* No save brings back an older token of any server.                       *)
NeverOlder == Mcp!NeverOlder

(* An owner's run goes without a token only after asking.                  *)
OwnerAsked == Mcp!OwnerAsked
=============================================================================
