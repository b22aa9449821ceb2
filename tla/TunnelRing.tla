------------------------------ MODULE TunnelRing ------------------------------
(***************************************************************************)
(* The devtunnel behind Teams' webhooks and the health ring that keeps it  *)
(* hosting.  A `devtunnel host` process may outlive its connection, so the *)
(* daemon asks the service every minute whether any host is connected, and *)
(* after three failed probes kills the host it knows of and starts another.*)
(* The command line starts and stops hosts too, as a process of its own.   *)
(*                                                                         *)
(* The interval of the probes and the cooldown between two rehosts are     *)
(* both 60 s: whether the next tick after a rehost is within the cooldown  *)
(* depends on how long the probes took.  Time is counted in ticks.         *)
(***************************************************************************)
EXTENDS Naturals, FiniteSets

CONSTANTS
  Hosts,             \* host processes that may run at a time
  FailureThreshold,  \* failed probes before a rehost
  MaxFaults,         \* bound: connections that break, times devtunnel fails
  MaxStarts,         \* bound: nanoclaw start
  None               \* no devtunnel.pid

VARIABLES
  hosts,     \* each process: gone, connecting, connected, or its connection lost
  lingers,   \* the service still counts a host that was killed
  pidFile,   \* devtunnel.pid
  cli,       \* devtunnel answers
  up,        \* the daemon runs
  ring,      \* its ring: on, consecutive failures, ticks since the last rehost
             \* (2: long ago, or none)
  ensuring,  \* where ensureTunnelHosting is, called by the ring and by start
  starts, faults

vars == <<hosts, lingers, pidFile, cli, up, ring, ensuring, starts, faults>>

Callers == {"ring", "start"}
Off == [on |-> FALSE, failures |-> 0, since |-> 2]

TypeOK ==
  /\ hosts \in [Hosts -> {"gone", "connecting", "connected", "lost"}]
  /\ lingers \in BOOLEAN /\ pidFile \in Hosts \cup {None}
  /\ cli \in BOOLEAN /\ up \in BOOLEAN
  /\ ring \in [on : BOOLEAN, failures : 0..FailureThreshold, since : 0..2]
  /\ ensuring \in [Callers -> {"no", "show", "spawn", "boot"}]
  /\ starts \in 0..MaxStarts /\ faults \in 0..MaxFaults

Init ==
  /\ hosts = [h \in Hosts |-> "gone"] /\ lingers = FALSE /\ pidFile = None
  /\ cli \in BOOLEAN /\ up = FALSE /\ ring = Off
  /\ ensuring = [c \in Callers |-> "no"]
  /\ starts = 0 /\ faults = 0

Least(a, b) == IF a < b THEN a ELSE b
Connected == \E h \in Hosts : hosts[h] = "connected"
Counted == Connected \/ lingers

-----------------------------------------------------------------------------
\* ensureTunnelHosting asks the service: unless it counts a connection, a host
\* will be started, whatever processes there are.  It gives up if devtunnel fails.
Done(c) == IF c = "start" THEN "boot" ELSE "no"

Show(c) ==
  /\ ensuring[c] = "show"
  /\ ensuring' = [ensuring EXCEPT ![c] = IF cli /\ ~Counted THEN "spawn" ELSE Done(c)]
  /\ UNCHANGED <<hosts, lingers, pidFile, cli, up, ring, starts, faults>>

SpawnHost(c) ==
  /\ ensuring[c] = "spawn"
  /\ \E h \in Hosts :
       /\ hosts[h] = "gone"
       /\ hosts' = [hosts EXCEPT ![h] = "connecting"]
       /\ pidFile' = h
  /\ ensuring' = [ensuring EXCEPT ![c] = Done(c)]
  /\ UNCHANGED <<lingers, cli, up, ring, starts, faults>>

\* nanoclaw start sees to the tunnel first, and then finds that a daemon runs or
\* starts one.  A daemon that cannot find the tunnel's id at its start has no ring.
Start ==
  /\ starts < MaxStarts /\ ensuring["start"] = "no"
  /\ starts' = starts + 1
  /\ ensuring' = [ensuring EXCEPT !["start"] = "show"]
  /\ UNCHANGED <<hosts, lingers, pidFile, cli, up, ring, faults>>

Boot ==
  /\ ensuring["start"] = "boot"
  /\ ensuring' = [ensuring EXCEPT !["start"] = "no"]
  /\ up' = TRUE
  /\ ring' = IF up THEN ring ELSE [Off EXCEPT !.on = cli]
  /\ UNCHANGED <<hosts, lingers, pidFile, cli, starts, faults>>

\* stopTrackedTunnel: the process it knows of, connected or not.
StopTracked ==
  /\ pidFile' = None
  /\ IF pidFile = None THEN UNCHANGED <<hosts, lingers>>
     ELSE /\ hosts' = [hosts EXCEPT ![pidFile] = "gone"]
          /\ lingers' = (lingers \/ hosts[pidFile] = "connected")

\* The daemon goes down, with a rehost it is in; nanoclaw stop then kills the host.
Crash ==
  /\ up /\ up' = FALSE
  /\ ring' = Off /\ ensuring' = [ensuring EXCEPT !["ring"] = "no"]
  /\ UNCHANGED <<hosts, lingers, pidFile, cli, starts, faults>>

Stop ==
  /\ ~up /\ ensuring["start"] = "no" /\ pidFile # None
  /\ StopTracked
  /\ UNCHANGED <<cli, up, ring, ensuring, starts, faults>>

-----------------------------------------------------------------------------
\* mutant: only the failure that reaches the threshold leads to a rehost
EvaluatedOnce(connected, cooled) ==
  LET failures == IF connected THEN 0 ELSE Least(ring.failures + 1, FailureThreshold)
      rehost == failures = FailureThreshold /\ ring.failures < failures /\ cooled
  IN [on |-> TRUE, failures |-> failures,
      since |-> IF rehost THEN 0 ELSE Least(ring.since + 1, 2)]

\* evaluateTunnelHealth on a probe, `cooled` if the cooldown is over.
Evaluated(connected, cooled) ==
  LET failures == IF connected THEN 0 ELSE Least(ring.failures + 1, FailureThreshold)
      rehost == failures = FailureThreshold /\ cooled
  IN [on |-> TRUE, failures |-> failures,
      since |-> IF rehost THEN 0 ELSE Least(ring.since + 1, 2)]

\* One tick: probe, evaluate, and for a rehost kill the host that is tracked.  A
\* probe that fails says "not connected".  Ticks do not overlap.
Tick ==
  /\ ring.on /\ ensuring["ring"] = "no"
  /\ \E cooled \in BOOLEAN :
       /\ ring.since = 2 => cooled
       /\ ring' = Evaluated(cli /\ Counted, cooled)
  /\ IF ring'.since = 0
     THEN StopTracked /\ ensuring' = [ensuring EXCEPT !["ring"] = "show"]
     ELSE UNCHANGED <<hosts, lingers, pidFile, ensuring>>
  /\ UNCHANGED <<cli, up, starts, faults>>

-----------------------------------------------------------------------------
\* devtunnel and its service.
Connect(h) ==
  /\ hosts[h] = "connecting"
  /\ hosts' = [hosts EXCEPT ![h] = "connected"]
  /\ UNCHANGED <<lingers, pidFile, cli, up, ring, ensuring, starts, faults>>

Break(h) ==
  /\ hosts[h] \in {"connecting", "connected"} /\ faults < MaxFaults
  /\ faults' = faults + 1
  /\ hosts' \in {[hosts EXCEPT ![h] = "lost"], [hosts EXCEPT ![h] = "gone"]}
  /\ UNCHANGED <<lingers, pidFile, cli, up, ring, ensuring, starts>>

CliFails ==
  /\ cli /\ faults < MaxFaults
  /\ cli' = FALSE /\ faults' = faults + 1
  /\ UNCHANGED <<hosts, lingers, pidFile, up, ring, ensuring, starts>>

CliWorks ==
  /\ ~cli /\ cli' = TRUE
  /\ UNCHANGED <<hosts, lingers, pidFile, up, ring, ensuring, starts, faults>>

ServiceForgets ==
  /\ lingers /\ lingers' = FALSE
  /\ UNCHANGED <<hosts, pidFile, cli, up, ring, ensuring, starts, faults>>

Next ==
  \/ Start \/ Boot \/ Crash \/ Stop \/ Tick
  \/ CliFails \/ CliWorks \/ ServiceForgets
  \/ \E c \in Callers : Show(c) \/ SpawnHost(c)
  \/ \E h \in Hosts : Connect(h) \/ Break(h)

\* The ring's timer fires, a connection of a host that is gone is noticed, and a
\* host that is started again and again connects before the next tick some day.
Fairness ==
  /\ WF_vars(Tick) /\ WF_vars(Show("ring")) /\ WF_vars(SpawnHost("ring"))
  /\ WF_vars(ServiceForgets)
  /\ \A h \in Hosts : SF_vars(Connect(h))

Spec == Init /\ [][Next]_vars /\ Fairness

-----------------------------------------------------------------------------
\* Once a daemon has its ring and devtunnel keeps answering, the tunnel gets
\* connected and stays so, whatever broke before and whichever hosts were left.
TunnelRecovers == <>[](ring.on /\ cli) => <>[]Connected
=============================================================================
