------------------------------ MODULE AgentPids -------------------------------
(***************************************************************************)
(* The processes of host agents and state/agent-pids.json, which lists     *)
(* them so that `nanoclaw stop` and the sweep find them.  Agents are       *)
(* spawned detached: except under systemd, which ends whatever is in the   *)
(* service's group, and under taskkill /T they survive their daemon.       *)
(*                                                                         *)
(* The daemon ends by itself (an uncaught exception, a crash) or by        *)
(* GroupQueue.shutdown, which signals the processes the queue still holds. *)
(* One command of the command line is under way at a time.                 *)
(***************************************************************************)
EXTENDS Naturals, FiniteSets

CONSTANTS
  Agents,     \* the agents that are spawned
  MaxBoots    \* bound: times the daemon is started

VARIABLES
  host,       \* what the daemon runs under
  daemon,     \* "gone": exited after a shutdown, "down": without one
  boots,
  agents,     \* each agent's process; "closed": the daemon has seen its end
  mine,       \* agents this daemon has spawned
  held,       \* those of them whose process the queue has in a slot
  list,       \* agent-pids.json
  reaper,     \* reapDeadAgentPids on Windows, which awaits each probe
  stop,       \* nanoclaw stop
  excused     \* ghost: agents a boot has dropped from the list alive, a reap has
              \* overlooked, or that were spawned while a stop was under way

vars == <<host, daemon, boots, agents, mine, held, list, reaper, stop, excused>>

Idle == [on |-> FALSE, read |-> {}, left |-> {}, alive |-> {}]

TypeOK ==
  /\ host \in {"systemd", "posix", "windows"}
  /\ daemon \in {"up", "leaving", "exiting", "gone", "down"} /\ boots \in 0..MaxBoots
  /\ agents \in [Agents -> {"unborn", "live", "dead", "closed"}]
  /\ mine \subseteq Agents /\ held \subseteq mine /\ list \subseteq Agents
  /\ reaper \in [on : BOOLEAN, read : SUBSET Agents, left : SUBSET Agents, alive : SUBSET Agents]
  /\ stop \in [at : {"idle", "kill", "daemon", "wait", "done"}, left : SUBSET Agents]
  /\ excused \subseteq Agents

Init ==
  /\ host \in {"systemd", "posix", "windows"}
  /\ daemon = "down" /\ boots = 0
  /\ agents = [a \in Agents |-> "unborn"]
  /\ mine = {} /\ held = {} /\ list = {} /\ reaper = Idle
  /\ stop = [at |-> "idle", left |-> {}] /\ excused = {}

Live == {a \in Agents : agents[a] = "live"}
Killed(S) == [a \in Agents |-> IF a \in S \cap Live THEN "dead" ELSE agents[a]]
Runs == daemon \in {"up", "leaving", "exiting"}

-----------------------------------------------------------------------------
\* A daemon starts and clears the list of its predecessor.
ClearAgentPids ==
  /\ ~Runs /\ stop.at = "idle" /\ boots < MaxBoots
  /\ daemon' = "up" /\ boots' = boots + 1
  /\ mine' = {} /\ held' = {} /\ reaper' = Idle
  /\ list' = {}
  /\ excused' = excused \cup (list \cap Live)
  /\ UNCHANGED <<host, agents, stop>>

\* An agent is spawned and registered; drainWaiting does so in a shutdown too.
RegisterAgentPid(a) ==
  /\ Runs /\ agents[a] = "unborn"
  /\ agents' = [agents EXCEPT ![a] = "live"]
  /\ mine' = mine \cup {a} /\ held' = held \cup {a}
  /\ list' = list \cup {a}
  /\ excused' = IF stop.at = "idle" THEN excused ELSE excused \cup {a}
  /\ UNCHANGED <<host, daemon, boots, reaper, stop>>

\* A run is over whose process is not idle-waiting, or another process is
\* registered in its slot: the queue has no hold of it any more.
Release(a) ==
  /\ Runs /\ a \in held
  /\ held' = held \ {a}
  /\ UNCHANGED <<host, daemon, boots, agents, mine, list, reaper, stop, excused>>

Die(a) ==
  /\ agents[a] = "live"
  /\ agents' = [agents EXCEPT ![a] = "dead"]
  /\ UNCHANGED <<host, daemon, boots, mine, held, list, reaper, stop, excused>>

\* The close event of a child.
UnregisterAgentPid(a) ==
  /\ Runs /\ a \in mine /\ agents[a] = "dead"
  /\ agents' = [agents EXCEPT ![a] = "closed"]
  /\ list' = list \ {a}
  /\ UNCHANGED <<host, daemon, boots, mine, held, reaper, stop, excused>>

-----------------------------------------------------------------------------
\* mutant: the reaper drops what it finds alive
ReapWrong ==
  /\ Runs /\ host # "windows"
  /\ list' = list \ Live
  /\ UNCHANGED <<host, daemon, boots, agents, mine, held, reaper, stop, excused>>

\* reapDeadAgentPids drops processes that are gone.  On POSIX nothing comes in
\* between; on Windows each probe is a process it waits for.
Reap ==
  /\ Runs /\ host # "windows"
  /\ list' = list \cap Live
  /\ UNCHANGED <<host, daemon, boots, agents, mine, held, reaper, stop, excused>>

ReapReads ==
  /\ Runs /\ host = "windows" /\ ~reaper.on /\ list # {}
  /\ reaper' = [on |-> TRUE, read |-> list, left |-> list, alive |-> {}]
  /\ UNCHANGED <<host, daemon, boots, agents, mine, held, list, stop, excused>>

IsPidAlive(a) ==
  /\ Runs /\ reaper.on /\ a \in reaper.left
  /\ reaper' = [reaper EXCEPT !.left = @ \ {a},
                              !.alive = IF a \in Live THEN @ \cup {a} ELSE @]
  /\ UNCHANGED <<host, daemon, boots, agents, mine, held, list, stop, excused>>

ReapWrites ==
  /\ Runs /\ reaper.on /\ reaper.left = {}
  /\ list' = IF reaper.alive = reaper.read THEN list ELSE reaper.alive
  /\ excused' = excused \cup ((list \ list') \cap Live)
  /\ reaper' = Idle
  /\ UNCHANGED <<host, daemon, boots, agents, mine, held, stop>>

-----------------------------------------------------------------------------
\* The daemon ends, in one way or the other; systemd ends what it started.
Ended(how) ==
  /\ daemon' = how
  /\ held' = {} /\ reaper' = Idle
  /\ UNCHANGED <<host, boots, mine, list, excused>>

Crash ==
  /\ Runs
  /\ agents' = IF host = "systemd" THEN Killed(mine) ELSE agents
  /\ Ended("down") /\ UNCHANGED stop

\* shutdown: every process the queue holds is signalled, and if there is any,
\* killed three seconds later if it is still there; then the process exits.
Shutdown ==
  /\ daemon = "up"
  /\ daemon' = IF held = {} THEN "exiting" ELSE "leaving"
  /\ UNCHANGED <<host, boots, agents, mine, held, list, reaper, excused>>

ShutdownAsked == stop.at = "idle" /\ Shutdown /\ UNCHANGED stop

KillAgain ==
  /\ daemon = "leaving"
  /\ daemon' = "exiting" /\ agents' = Killed(held)
  /\ UNCHANGED <<host, boots, mine, held, list, reaper, stop, excused>>

Exit ==
  /\ daemon = "exiting"
  /\ agents' = IF host = "systemd" THEN Killed(mine) ELSE agents
  /\ Ended("gone") /\ UNCHANGED stop

-----------------------------------------------------------------------------
\* killAllAgentPids reads the list, kills each process in up to two seconds, and
\* removes the file.  systemd stops the service before.
KillAllAgentPids ==
  /\ stop.at = "idle"
  /\ IF host = "systemd" /\ Runs
     THEN agents' = Killed(mine) /\ Ended("gone")
     ELSE UNCHANGED <<host, daemon, boots, agents, mine, held, list, reaper, excused>>
  /\ stop' = [at |-> IF list = {} THEN "daemon" ELSE "kill", left |-> list]

StopKills(a) ==
  /\ stop.at = "kill" /\ a \in stop.left
  /\ stop' = [stop EXCEPT !.left = @ \ {a}]
  /\ agents' = Killed({a})
  /\ UNCHANGED <<host, daemon, boots, mine, held, list, reaper, excused>>

StopUnlinks ==
  /\ stop.at = "kill" /\ stop.left = {}
  /\ stop' = [stop EXCEPT !.at = "daemon"]
  /\ list' = {}
  /\ UNCHANGED <<host, daemon, boots, agents, mine, held, reaper, excused>>

\* Then the daemon, with taskkill /T or a SIGTERM.
StopDaemon ==
  /\ stop.at = "daemon" /\ daemon \in {"up", "gone", "down"}
  /\ stop' = [stop EXCEPT !.at = IF daemon = "up" THEN "wait" ELSE "done"]
  /\ CASE daemon = "up" /\ host = "windows" -> agents' = Killed(mine) /\ Ended("down")
       [] daemon = "up" /\ host # "windows" -> Shutdown
       [] OTHER -> UNCHANGED <<host, daemon, boots, agents, mine, held, list, reaper, excused>>

Stopped ==
  /\ stop.at = "wait" /\ ~Runs
  /\ stop' = [stop EXCEPT !.at = "done"]
  /\ UNCHANGED <<host, daemon, boots, agents, mine, held, list, reaper, excused>>

StopReturns ==
  /\ stop.at = "done"
  /\ stop' = [at |-> "idle", left |-> {}]
  /\ UNCHANGED <<host, daemon, boots, agents, mine, held, list, reaper, excused>>

Next ==
  \/ ClearAgentPids \/ Reap \/ ReapReads \/ ReapWrites
  \/ Crash \/ ShutdownAsked \/ KillAgain \/ Exit
  \/ KillAllAgentPids \/ StopUnlinks \/ StopDaemon \/ Stopped \/ StopReturns
  \/ \E a \in Agents : \/ RegisterAgentPid(a) \/ Release(a) \/ Die(a)
                       \/ UnregisterAgentPid(a) \/ IsPidAlive(a) \/ StopKills(a)

Spec == Init /\ [][Next]_vars

-----------------------------------------------------------------------------
\* When nanoclaw stop has returned no agent is left, of this daemon or of one that
\* crashed before it, unless a boot in between had dropped it from the list, a reap
\* has overwritten its registration, or it was spawned while the stop was under
\* way; under systemd there is no exception.
StopLeavesNone ==
  stop.at = "done" => IF host = "systemd" THEN Live = {} ELSE Live \subseteq excused
=============================================================================
