--------------------------- MODULE GroupQueueProof ---------------------------
(***************************************************************************)
(* Safety of GroupQueue for every number of chats, tasks, lanes, retries   *)
(* and every capacity, under Overlaps = {}: the exit listener and the      *)
(* clean-up in sendMessage release a slot only when no run of it is still  *)
(* awaited.  (With overlaps the properties fail: see the violation runs.)  *)
(*                                                                         *)
(* SlotAccounting alone is not inductive: a release is exact only if the   *)
(* slot is active, which follows from who owns it.  IInv adds that a run   *)
(* in flight owns its active slot alone (RunsOwned), that an active task   *)
(* slot has its run (TasksRun), that the line holds inactive slots, each   *)
(* once (LineOrder), and that it is empty below the cap (Full).            *)
(*                                                                         *)
(* That nothing put off is forgotten, and the types, need none of that and *)
(* hold under every overlap: the last part.                                *)
(***************************************************************************)
EXTENDS GroupQueue, TLAPS, FiniteSetTheorems, SequenceTheorems,
        WellFoundedInduction

(* There are finitely many slots, so a set of slots has a cardinality.     *)
LEMMA SlotsFinite == 
  /\ IsFiniteSet(Slots)
  /\ \A W \in SUBSET Slots : IsFiniteSet(W) /\ Cardinality(W) \in Nat
<1>1. IsFiniteSet(Slots)
  BY QueueAssumption, FS_Union DEF Slots
<1> QED BY <1>1, FS_Subset, FS_CardinalityType

(* The runs in flight: each belongs to an active slot, and is alone there. *)
RunsOwned(q) ==
  /\ \A a \in Agents : InFlight(q, a) => SlotOf(a) \in q.active
  /\ \A a, b \in Agents :
        InFlight(q, a) /\ InFlight(q, b) /\ SlotOf(a) = SlotOf(b) => a = b
  /\ \A a \in q.direct : SlotOf(a) \in Chats

(* Taking lanes yields a queue state.                                      *)
LEMMA TakeLanesType ==
  ASSUME NEW q \in QueueStates, NEW W \in SUBSET Slots
  PROVE  TakeLanes(q, W) \in QueueStates
<1> DEFINE ready == {s \in W : FreeLanes(q, s) # {}}
           lanes == {LaneFor(q, s) : s \in ready}
           ph == [a \in Agents |-> IF a \in lanes THEN "starting" ELSE q.phase[a]]
           ln == q.laneless \cup (W \ ready)
           r == [q EXCEPT !.phase = ph, !.direct = q.direct \ lanes,
                          !.dead = q.dead \ lanes, !.coded = q.coded \ lanes,
                          !.killed = q.killed \ lanes, !.laneless = ln]
<1>1. ph \in [Agents -> Phases] /\ ln \in SUBSET Slots
  BY DEF QueueStates, Phases
<1>2. r = TakeLanes(q, W)
  BY DEF TakeLanes
<1> HIDE DEF ready, lanes, ph, ln
<1>3. r \in QueueStates
  BY <1>1 DEF QueueStates
<1> QED BY <1>2, <1>3

(* Within the bound Lanes, every slot of W gets a lane of its own that was *)
(* free, and nothing but the lanes changes.                                *)
LEMMA TakeLanesEffect ==
  ASSUME NEW q \in QueueStates, NEW W \in SUBSET Slots,
         TakeLanes(q, W).laneless = {}
  PROVE  /\ TakeLanes(q, W) \in QueueStates
         /\ \A s \in W : LaneFor(q, s) \in Agents /\ SlotOf(LaneFor(q, s)) = s /\ q.phase[LaneFor(q, s)] = "free"
         /\ TakeLanes(q, W).phase = [a \in Agents |-> IF \E s \in W : a = LaneFor(q, s)
                           THEN "starting" ELSE q.phase[a]]
         /\ TakeLanes(q, W).direct = q.direct \ {LaneFor(q, s) : s \in W}
         /\ TakeLanes(q, W).active = q.active
         /\ TakeLanes(q, W).activeCount = q.activeCount
         /\ TakeLanes(q, W).waitingSlots = q.waitingSlots
         /\ TakeLanes(q, W).waitingTaskFns = q.waitingTaskFns
         /\ TakeLanes(q, W).shuttingDown = q.shuttingDown
<1> DEFINE ready == {s \in W : FreeLanes(q, s) # {}}
           lanes == {LaneFor(q, s) : s \in ready}
           ph == [a \in Agents |-> IF a \in lanes THEN "starting" ELSE q.phase[a]]
           ln == q.laneless \cup (W \ ready)
           r == [q EXCEPT !.phase = ph, !.direct = q.direct \ lanes,
                          !.dead = q.dead \ lanes, !.coded = q.coded \ lanes,
                          !.killed = q.killed \ lanes, !.laneless = ln]
<1>1. ph \in [Agents -> Phases] /\ ln \in SUBSET Slots
  BY DEF QueueStates, Phases
<1>2. r = TakeLanes(q, W)
  BY DEF TakeLanes
<1>3. r.laneless = ln
  BY DEF QueueStates
<1>4. ready = W
  BY <1>2, <1>3
<1>5. \A s \in W : LaneFor(q, s) \in FreeLanes(q, s)
  BY <1>4 DEF LaneFor
<1>6. \A s \in W : /\ LaneFor(q, s) \in Agents /\ SlotOf(LaneFor(q, s)) = s
                   /\ q.phase[LaneFor(q, s)] = "free"
  BY <1>5 DEF FreeLanes, FreeLane
<1>7. ph = [a \in Agents |-> IF \E s \in W : a = LaneFor(q, s)
                           THEN "starting" ELSE q.phase[a]]
  BY <1>4
<1>8. lanes = {LaneFor(q, s) : s \in W}
  BY <1>4
<1> HIDE DEF ready, lanes, ph, ln
<1>9. r \in QueueStates
  BY <1>1 DEF QueueStates
<1>10. /\ r.phase = ph
       /\ r.direct = q.direct \ lanes
       /\ r.active = q.active
       /\ r.activeCount = q.activeCount
       /\ r.waitingSlots = q.waitingSlots
       /\ r.waitingTaskFns = q.waitingTaskFns
       /\ r.shuttingDown = q.shuttingDown
  BY DEF QueueStates
<1> HIDE DEF r
<1> QED BY <1>2, <1>6, <1>7, <1>8, <1>9, <1>10

(* The counter is exact and under the cap.                                 *)
Counted(q) == q.activeCount = Cardinality(q.active) /\ q.activeCount <= MaxConcurrent

(* An active task slot has its run: runTask releases it before anything    *)
(* else can.                                                               *)
TasksRun(q) == \A t \in Tasks \cap q.active : \E a \in Agents : SlotOf(a) = t /\ InFlight(q, a)

Core(q) == q \in QueueStates /\ Counted(q) /\ RunsOwned(q) /\ TasksRun(q)

(* The slot of a run is a slot.                                            *)
LEMMA SlotOfAgent == \A a \in Agents : SlotOf(a) \in Slots
BY DEF Agents, SlotOf

(* Starting runs yields a queue state, and never hides a start beyond the  *)
(* bound Lanes.                                                            *)
LEMMA StartRunsType ==
  ASSUME NEW q \in QueueStates, NEW W \in SUBSET Slots
  PROVE  /\ StartRuns(q, W) \in QueueStates
         /\ q.laneless \subseteq StartRuns(q, W).laneless
<1> DEFINE k == TakeLanes(q, W)
           n == k.activeCount + Cardinality(W)
           r == [k EXCEPT
                  !.active = @ \cup W,
                  !.idleWaiting = @ \ W,
                  !.pendingMessages = @ \ W,
                  !.piped = @ \ W,
                  !.agentHasOutput = @ \ W,
                  !.activeCount = n]
<1>1. r = StartRuns(q, W)
  BY DEF StartRuns
<1>2. k \in QueueStates /\ q.laneless \subseteq k.laneless
  <2>1. k \in QueueStates
    BY TakeLanesType
  <2>2. k.laneless = q.laneless \cup (W \ {s \in W : FreeLanes(q, s) # {}})
    BY DEF TakeLanes, QueueStates
  <2> QED BY <2>1, <2>2
<1>3. n \in Int
  BY <1>2, SlotsFinite DEF QueueStates
<1> HIDE DEF n, k
<1>4. r \in QueueStates /\ r.laneless = k.laneless
  BY <1>2, <1>3 DEF QueueStates
<1> HIDE DEF r
<1> QED BY <1>1, <1>2, <1>4

(* Starting inactive slots that fit under the cap keeps the counter exact  *)
(* and the runs exclusive.                                                 *)
LEMMA StartRunsCore ==
  ASSUME NEW q, Core(q), NEW W \in SUBSET Slots, W \cap q.active = {},
         q.activeCount + Cardinality(W) <= MaxConcurrent,
         StartRuns(q, W).laneless = {}
  PROVE  /\ Core(StartRuns(q, W))
         /\ StartRuns(q, W).active = q.active \cup W
         /\ StartRuns(q, W).activeCount = q.activeCount + Cardinality(W)
         /\ StartRuns(q, W).waitingSlots = q.waitingSlots
         /\ StartRuns(q, W).waitingTaskFns = q.waitingTaskFns
         /\ StartRuns(q, W).shuttingDown = q.shuttingDown
<1> DEFINE k == TakeLanes(q, W)
           n == k.activeCount + Cardinality(W)
           r == [k EXCEPT
                  !.active = @ \cup W,
                  !.idleWaiting = @ \ W,
                  !.pendingMessages = @ \ W,
                  !.piped = @ \ W,
                  !.agentHasOutput = @ \ W,
                  !.activeCount = n]
<1>0. q \in QueueStates /\ Counted(q) /\ RunsOwned(q) /\ TasksRun(q)
  BY DEF Core
<1>1. r = StartRuns(q, W)
  BY DEF StartRuns
<1>2. k.laneless = {}
  BY <1>0, <1>1, TakeLanesType, ZenonT(40) DEF QueueStates
<1>3. /\ k \in QueueStates
      /\ k.active = q.active
      /\ k.activeCount = q.activeCount
      /\ k.waitingSlots = q.waitingSlots
      /\ k.waitingTaskFns = q.waitingTaskFns
      /\ k.shuttingDown = q.shuttingDown
      /\ k.direct = q.direct \ {LaneFor(q, s) : s \in W}
      /\ k.phase = [a \in Agents |-> IF \E s \in W : a = LaneFor(q, s)
                                     THEN "starting" ELSE q.phase[a]]
      /\ \A s \in W : /\ LaneFor(q, s) \in Agents /\ SlotOf(LaneFor(q, s)) = s
                      /\ q.phase[LaneFor(q, s)] = "free"
  BY <1>0, <1>2, TakeLanesEffect
<1>4. n \in Int
  BY <1>3, SlotsFinite DEF QueueStates
<1> HIDE DEF n, k
<1>5. r \in QueueStates
  BY <1>3, <1>4 DEF QueueStates
<1>6. /\ r.active = q.active \cup W /\ r.activeCount = n
      /\ r.waitingSlots = q.waitingSlots
      /\ r.waitingTaskFns = q.waitingTaskFns
      /\ r.shuttingDown = q.shuttingDown
      /\ r.phase = k.phase /\ r.direct = k.direct
  BY <1>3 DEF QueueStates
<1> HIDE DEF r
<1>7. n = q.activeCount + Cardinality(W)
  BY <1>3 DEF n
<1>8. q.active \in SUBSET Slots
  BY <1>0 DEF QueueStates
<1>9. Cardinality(q.active \cup W) = Cardinality(q.active) + Cardinality(W)
  <2>1. /\ Cardinality(q.active \cup W) =
             Cardinality(q.active) + Cardinality(W) - Cardinality(q.active \cap W)
    BY <1>8, SlotsFinite, FS_Union
  <2>2. Cardinality(q.active \cap W) = 0
    BY FS_EmptySet
  <2> QED BY <2>1, <2>2, <1>8, SlotsFinite
<1>10. Counted(r)
  BY <1>0, <1>6, <1>7, <1>9 DEF Counted
<1>11. \A a \in Agents : InFlight(r, a) <=> InFlight(q, a) \/ \E s \in W : a = LaneFor(q, s)
  BY <1>3, <1>6 DEF InFlight
<1>12. RunsOwned(r)
  <2>1. \A a \in Agents : InFlight(r, a) => SlotOf(a) \in r.active
    BY <1>0, <1>3, <1>6, <1>11 DEF RunsOwned
  <2>2. \A a, b \in Agents :
           InFlight(r, a) /\ InFlight(r, b) /\ SlotOf(a) = SlotOf(b) => a = b
    BY <1>0, <1>3, <1>11 DEF RunsOwned
  <2>3. \A a \in r.direct : SlotOf(a) \in Chats
    BY <1>0, <1>3, <1>6 DEF RunsOwned
  <2> QED BY <2>1, <2>2, <2>3 DEF RunsOwned
<1>13. TasksRun(r)
  BY <1>0, <1>3, <1>6, <1>11 DEF TasksRun
<1> QED BY <1>1, <1>5, <1>6, <1>7, <1>10, <1>12, <1>13 DEF Core

(* The waiting line: no slot twice, and none that is active.               *)
LineOrder(q) ==
  /\ \A i \in 1..Len(q.waitingSlots) : q.waitingSlots[i] \notin q.active
  /\ \A i, j \in 1..Len(q.waitingSlots) :
        q.waitingSlots[i] = q.waitingSlots[j] => i = j

(* No slot waits while there is room.                                      *)
Full(q) ==
  q.waitingSlots # << >> => q.activeCount >= MaxConcurrent \/ q.shuttingDown

IInv(q) == Core(q) /\ LineOrder(q) /\ Full(q)

(* The core of the invariant reads the active slots, the counter and the   *)
(* runs in flight, and nothing else.                                       *)
LEMMA CoreSame ==
  ASSUME NEW q, Core(q), NEW r \in QueueStates,
         r.active = q.active, r.activeCount = q.activeCount,
         \A a \in Agents : InFlight(r, a) <=> InFlight(q, a),
         \A a \in r.direct : SlotOf(a) \in Chats
  PROVE  Core(r)
BY DEF Core, Counted, RunsOwned, TasksRun

(* The invariant reads in addition the waiting line and the shutdown flag. *)
LEMMA IInvSame ==
  ASSUME NEW q, IInv(q), NEW r \in QueueStates,
         r.active = q.active, r.activeCount = q.activeCount,
         r.waitingSlots = q.waitingSlots, q.shuttingDown => r.shuttingDown,
         \A a \in Agents : InFlight(r, a) <=> InFlight(q, a),
         \A a \in r.direct : SlotOf(a) \in Chats
  PROVE  IInv(r)
<1>1. Core(r)
  BY CoreSame DEF IInv
<1> QED BY <1>1 DEF IInv, LineOrder, Full

(* Releasing a slot none of whose runs is in flight keeps the core of the  *)
(* invariant.                                                              *)
LEMMA ReleaseCore ==
  ASSUME NEW q \in QueueStates, Counted(q), RunsOwned(q), NEW s \in q.active,
         \A a \in Agents : SlotOf(a) = s => ~ InFlight(q, a),
         \A t \in (Tasks \cap q.active) \ {s} :
            \E a \in Agents : SlotOf(a) = t /\ InFlight(q, a)
  PROVE  /\ Core(Release(q, s))
         /\ Release(q, s).active = q.active \ {s}
         /\ Release(q, s).activeCount = q.activeCount - 1
         /\ Release(q, s).waitingSlots = q.waitingSlots
         /\ Release(q, s).shuttingDown = q.shuttingDown
         /\ Release(q, s).pendingMessages = q.pendingMessages
         /\ Release(q, s).laneless = q.laneless
<1> DEFINE n == q.activeCount - 1
           r == [q EXCEPT !.active = @ \ {s}, !.process[s] = NoAgent,
                          !.activeCount = n]
<1>1. r = Release(q, s)
  BY DEF Release
<1>2. n \in Int /\ s \in Slots /\ q.active \in SUBSET Slots
  BY DEF QueueStates
<1>3. Cardinality(q.active \ {s}) = n
  BY <1>2, SlotsFinite, FS_RemoveElement DEF Counted
<1>4. n <= MaxConcurrent
  BY <1>2, QueueAssumption DEF Counted, QueueStates
<1>5. n = q.activeCount - 1
  OBVIOUS
<1> HIDE DEF n
<1>6. r \in QueueStates
  BY <1>2 DEF QueueStates
<1>7. /\ r.active = q.active \ {s} /\ r.activeCount = n
      /\ r.waitingSlots = q.waitingSlots
      /\ r.shuttingDown = q.shuttingDown
      /\ r.pendingMessages = q.pendingMessages
      /\ r.laneless = q.laneless
      /\ r.phase = q.phase /\ r.direct = q.direct
  BY DEF QueueStates
<1> HIDE DEF r
<1>8. \A a \in Agents : InFlight(r, a) <=> InFlight(q, a)
  BY <1>7 DEF InFlight
<1>9. Counted(r) /\ RunsOwned(r) /\ TasksRun(r)
  BY <1>3, <1>4, <1>7, <1>8 DEF Counted, RunsOwned, TasksRun
<1> QED BY <1>1, <1>5, <1>6, <1>7, <1>9 DEF Core

(* The second agent that drainGroup spawns beside an idle one is awaited   *)
(* by nobody, so it disturbs neither the counter nor the runs in flight.   *)
LEMMA StartDirectCore ==
  ASSUME NEW q, Core(q), NEW g \in Chats, StartDirect(q, g).laneless = {}
  PROVE  /\ Core(StartDirect(q, g))
         /\ StartDirect(q, g).active = q.active
         /\ StartDirect(q, g).activeCount = q.activeCount
         /\ StartDirect(q, g).waitingSlots = q.waitingSlots
         /\ StartDirect(q, g).shuttingDown = q.shuttingDown
<1> DEFINE p == [q EXCEPT !.pendingMessages = @ \ {g}]
           k == TakeLanes(p, {g})
           new == {a \in Agents : q.phase[a] = "free" /\ k.phase[a] = "starting"}
           r == [k EXCEPT !.direct = @ \cup new]
<1>0. q \in QueueStates /\ RunsOwned(q) /\ g \in Slots
  BY DEF Core, Slots
<1>1. r = StartDirect(q, g)
  BY DEF StartDirect
<1>2. /\ p \in QueueStates /\ p.phase = q.phase /\ p.direct = q.direct
      /\ p.active = q.active /\ p.activeCount = q.activeCount
      /\ p.waitingSlots = q.waitingSlots /\ p.shuttingDown = q.shuttingDown
  BY <1>0 DEF QueueStates
<1> HIDE DEF p
<1>3. k.laneless = {}
  <2>1. {g} \in SUBSET Slots
    BY <1>0
  <2>2. k \in QueueStates
    BY <2>1, <1>2, TakeLanesType
  <2> HIDE DEF k, new
  <2>3. r.laneless = k.laneless
    BY <2>2 DEF QueueStates
  <2> QED BY <2>3, <1>1
<1>4. /\ k \in QueueStates
      /\ LaneFor(p, g) \in Agents /\ SlotOf(LaneFor(p, g)) = g
      /\ p.phase[LaneFor(p, g)] = "free"
      /\ k.phase = [a \in Agents |-> IF a = LaneFor(p, g)
                                     THEN "starting" ELSE p.phase[a]]
      /\ k.direct = p.direct \ {LaneFor(p, g)}
      /\ k.active = p.active /\ k.activeCount = p.activeCount
      /\ k.waitingSlots = p.waitingSlots /\ k.shuttingDown = p.shuttingDown
  <2> DEFINE W == {g}
  <2>1. W \in SUBSET Slots /\ g \in W /\ \A s \in W : s = g
    BY <1>0
  <2>2. {LaneFor(p, s) : s \in W} = {LaneFor(p, g)}
    OBVIOUS
  <2>3. \A a : (\E s \in W : a = LaneFor(p, s)) <=> a = LaneFor(p, g)
    OBVIOUS
  <2>4. TakeLanes(p, W).laneless = {}
    BY <1>3
  <2>5. k = TakeLanes(p, W)
    OBVIOUS
  <2> HIDE DEF W, k
  <2> QED BY <1>2, <2>1, <2>2, <2>3, <2>4, <2>5, TakeLanesEffect
<1>5. new = {LaneFor(p, g)}
  BY <1>2, <1>4
<1> HIDE DEF k, new
<1>6. /\ r \in QueueStates /\ r.phase = k.phase
      /\ r.direct = k.direct \cup new
      /\ r.active = k.active /\ r.activeCount = k.activeCount
      /\ r.waitingSlots = k.waitingSlots /\ r.shuttingDown = k.shuttingDown
  BY <1>4, <1>5 DEF QueueStates
<1> HIDE DEF r
<1>7. \A a \in Agents : InFlight(r, a) <=> InFlight(q, a)
  BY <1>2, <1>4, <1>5, <1>6 DEF InFlight
<1>8. \A a \in r.direct : SlotOf(a) \in Chats
  BY <1>0, <1>2, <1>4, <1>5, <1>6 DEF RunsOwned
<1>9. Core(r)
  BY <1>2, <1>4, <1>6, <1>7, <1>8, CoreSame
<1> QED BY <1>1, <1>2, <1>4, <1>6, <1>9

(* A non-empty set of naturals has a least element.                        *)
LEMMA LeastNatural ==
  ASSUME NEW T \in SUBSET Nat, NEW e \in T
  PROVE  \E n \in T : \A m \in T : ~ (m < n)
<1> DEFINE R == OpToRel(<, Nat)
<1>1. IsWellFoundedOn(R, Nat)
  BY NatLessThanWellFounded
<1> HIDE DEF R
<1>2. \E n \in T : \A m \in T : ~ (<<m, n>> \in R)
  BY <1>1, WFMin
<1>3. \A m, n \in Nat : m < n => <<m, n>> \in R
  BY DEF R, OpToRel
<1> QED BY <1>2, <1>3

(* drainWaiting stops: a shortest prefix of the line that fills the        *)
(* capacity, or else the whole line, exists.                               *)
LEMMA ShiftedExists ==
  ASSUME NEW q \in QueueStates
  PROVE  /\ Shifted(q) \in 0..Len(q.waitingSlots)
         /\ Shifted(q) = Len(q.waitingSlots) \/ Fills(q, Shifted(q))
         /\ \A m \in 0..(Shifted(q) - 1) : ~Fills(q, m)
<1> DEFINE len == Len(q.waitingSlots)
           T == {m \in 0..len : m = len \/ Fills(q, m)}
<1>1. len \in Nat
  <2>1. q.waitingSlots \in Seq(Slots)
    BY DEF QueueStates
  <2> QED BY <2>1
<1>2. T \in SUBSET Nat /\ len \in T
  BY <1>1
<1>3. PICK n \in T : \A l \in T : ~ (l < n)
  BY <1>2, LeastNatural
<1>4. \A m \in 0..(n - 1) : ~Fills(q, m)
  BY <1>1, <1>3
<1>5. \E i \in 0..len : /\ i = len \/ Fills(q, i)
                        /\ \A m \in 0..(i - 1) : ~Fills(q, m)
  BY <1>3, <1>4
<1> QED BY <1>5 DEF Shifted

(* What drainWaiting starts is a finite set of slots.                      *)
LEMMA StartedSubset ==
  ASSUME NEW q \in QueueStates, NEW n \in 0..Len(q.waitingSlots)
  PROVE  /\ Started(q, n) \in SUBSET Slots
         /\ IsFiniteSet(Started(q, n))
         /\ Cardinality(Started(q, n)) \in Nat
<1>1. q.waitingSlots \in Seq(Slots)
  BY DEF QueueStates
<1>2. \A i \in 1..n : q.waitingSlots[i] \in Slots
  BY <1>1
<1>3. Started(q, n) \in SUBSET Slots
  BY <1>2 DEF Started
<1> QED BY <1>3, SlotsFinite

(* What drainWaiting starts fits under the cap: before the last slot it    *)
(* shifted there was room.                                                 *)
LEMMA StartedFits ==
  ASSUME NEW q \in QueueStates, Counted(q)
  PROVE  q.activeCount + Cardinality(Started(q, Shifted(q))) <= MaxConcurrent
<1> DEFINE n == Shifted(q)
           W == Started(q, n)
           V == Started(q, n - 1)
           e == q.waitingSlots[n]
<1>0. Len(q.waitingSlots) \in Nat /\ q.activeCount \in Int
  <2>1. q.waitingSlots \in Seq(Slots) /\ q.activeCount \in Int
    BY DEF QueueStates
  <2> QED BY <2>1
<1>1. n \in 0..Len(q.waitingSlots) /\ \A m \in 0..(n - 1) : ~Fills(q, m)
  BY ShiftedExists
<1>2. IsFiniteSet(W) /\ Cardinality(W) \in Nat
  BY <1>1, StartedSubset
<1>3. CASE n = 0
  <2>1. W = {}
    BY <1>3 DEF Started
  <2> DEFINE cw == Cardinality(W)
  <2>2. cw = 0
    BY <2>1, FS_EmptySet
  <2> HIDE DEF cw
  <2>3. q.activeCount + cw <= MaxConcurrent
    BY <2>2, <1>0 DEF Counted
  <2> QED BY <2>3 DEF cw
<1>4. CASE n # 0
  <2>1. n - 1 \in 0..Len(q.waitingSlots) /\ n - 1 \in 0..(n - 1)
    BY <1>0, <1>1, <1>4
  <2>2. IsFiniteSet(V) /\ Cardinality(V) \in Nat
    BY <2>1, StartedSubset
  <2>3. ~Fills(q, n - 1)
    BY <1>1, <2>1
  <2>4. q.activeCount + Cardinality(V) < MaxConcurrent
    <3>1. ~(q.activeCount + Cardinality(V) >= MaxConcurrent)
      BY <2>3 DEF Fills
    <3> HIDE DEF V
    <3> QED BY <3>1, <2>2, <1>0, QueueAssumption
  <2>5. W \subseteq V \cup {e}
    <3>1. \A i \in 1..n : i \in 1..(n - 1) \/ i = n
      BY <1>0, <1>1
    <3> HIDE DEF n
    <3> QED BY <3>1 DEF Started
  <2>6. /\ IsFiniteSet(V \cup {e})
        /\ Cardinality(V \cup {e}) = IF e \in V THEN Cardinality(V) ELSE Cardinality(V) + 1
    BY <2>2, FS_AddElement
  <2>7. Cardinality(W) <= Cardinality(V \cup {e})
    BY <2>5, <2>6, FS_Subset
  <2> DEFINE cw == Cardinality(W)
             cv == Cardinality(V)
             ce == Cardinality(V \cup {e})
  <2>8. cw \in Nat /\ cv \in Nat /\ (ce = cv \/ ce = cv + 1) /\ cw <= ce
        /\ q.activeCount + cv < MaxConcurrent
    BY <1>2, <2>2, <2>4, <2>6, <2>7
  <2> HIDE DEF cw, cv, ce
  <2>9. q.activeCount + cw <= MaxConcurrent
    BY <2>8, <1>0, QueueAssumption
  <2> QED BY <2>9 DEF cw
<1> QED BY <1>3, <1>4

(* drainWaiting establishes the whole invariant from its core and an       *)
(* ordered line: it stops at the cap or with the line empty.               *)
LEMMA DrainWaitingKeeps ==
  ASSUME NEW q, Core(q), LineOrder(q), DrainWaiting(q).laneless = {}
  PROVE  /\ IInv(DrainWaiting(q))
         /\ DrainWaiting(q).shuttingDown = q.shuttingDown
<1> DEFINE len == Len(q.waitingSlots)
           n == Shifted(q)
           W == Started(q, n)
           k == StartRuns(q, W)
           tail == SubSeq(k.waitingSlots, n + 1, Len(k.waitingSlots))
           r == [k EXCEPT !.waitingSlots = tail, !.waitingTaskFns = @ \ W]
<1>0. /\ q \in QueueStates /\ Counted(q) /\ RunsOwned(q)
      /\ q.waitingSlots \in Seq(Slots) /\ q.activeCount \in Int
      /\ q.active \in SUBSET Slots
  BY DEF Core, QueueStates
<1>1. len \in Nat
  BY <1>0
<1>2. n \in 0..len /\ (n = len \/ Fills(q, n))
  BY <1>0, ShiftedExists
<1>3. W \in SUBSET Slots
  BY <1>0, <1>2, StartedSubset
<1>4. W \cap q.active = {}
  BY <1>1, <1>2 DEF LineOrder, Started
<1>5. q.activeCount + Cardinality(W) <= MaxConcurrent
  BY <1>0, StartedFits
<1>6. r = DrainWaiting(q)
  BY DEF DrainWaiting
<1>7. k.laneless = {}
  <2>1. k \in QueueStates
    BY <1>0, <1>3, StartRunsType
  <2> HIDE DEF k, tail, W
  <2>2. r.laneless = k.laneless
    BY <2>1 DEF QueueStates
  <2> QED BY <2>2, <1>6
<1>8. /\ Core(k) /\ k.active = q.active \cup W
      /\ k.activeCount = q.activeCount + Cardinality(W)
      /\ k.waitingSlots = q.waitingSlots
      /\ k.shuttingDown = q.shuttingDown
  BY <1>3, <1>4, <1>5, <1>7, StartRunsCore
<1> HIDE DEF k
<1>9. /\ tail \in Seq(Slots) /\ Len(tail) = (IF n + 1 <= len THEN len - n ELSE 0)
      /\ \A i \in 1..Len(tail) : tail[i] = q.waitingSlots[n + i] /\ n + i \in 1..len
  <2> DEFINE s == q.waitingSlots
  <2>1. tail = SubSeq(s, n + 1, len)
    BY <1>8
  <2>2. n \in Nat /\ n <= len
    BY <1>1, <1>2
  <2>3. s \in Seq(Slots)
    BY <1>0
  <2>4. \A i \in n + 1 .. len : s[i] \in Slots
    BY <2>2, <2>3, <1>1
  <2> HIDE DEF s, tail, n
  <2> DEFINE a == n + 1
  <2>a. a \in Int /\ len \in Int /\ \A i \in a..len : s[i] \in Slots
    BY <2>2, <2>4, <1>1
  <2>c. tail = SubSeq(s, a, len)
    BY <2>1
  <2>d. a = n + 1
    OBVIOUS
  <2> HIDE DEF a, len
  <2>5. /\ tail \in Seq(Slots)
        /\ Len(tail) = (IF a <= len THEN len - a + 1 ELSE 0)
        /\ \A i \in 1..(len - a + 1) : tail[i] = s[a + i - 1]
    BY <2>a, <2>c, SubSeqProperties
  <2>6. Len(tail) = (IF n + 1 <= len THEN len - n ELSE 0)
    BY <2>5, <2>d, <2>2, <1>1
  <2>7. \A i \in 1..Len(tail) : i \in 1..(len - a + 1) /\ a + i - 1 = n + i
                                /\ n + i \in 1..len
    BY <2>6, <2>d, <2>2, <1>1
  <2> QED BY <2>5, <2>6, <2>7 DEF s
<1> HIDE DEF tail, W, n, len
<1>10. /\ r \in QueueStates
       /\ r.active = k.active /\ r.activeCount = k.activeCount
       /\ r.shuttingDown = k.shuttingDown /\ r.waitingSlots = tail
       /\ r.phase = k.phase /\ r.direct = k.direct
  BY <1>8, <1>9 DEF Core, QueueStates
<1> HIDE DEF r
<1>11. Core(r)
  <2>1. \A a \in Agents : InFlight(r, a) <=> InFlight(k, a)
    BY <1>10 DEF InFlight
  <2>2. \A a \in r.direct : SlotOf(a) \in Chats
    BY <1>8, <1>10 DEF Core, RunsOwned
  <2> QED BY <1>8, <1>10, <2>1, <2>2, CoreSame
<1>12. LineOrder(r)
  <2>1. \A i, j \in 1..Len(tail) : tail[i] = tail[j] => i = j
    BY <1>1, <1>2, <1>9 DEF LineOrder, len
  <2>2. \A i \in 1..Len(tail) : tail[i] \notin q.active
    BY <1>9 DEF LineOrder, len
  <2>3. \A i \in 1..Len(tail) : tail[i] \notin W
    <3> SUFFICES ASSUME NEW i \in 1..Len(tail), NEW j \in 1..n,
                        tail[i] = q.waitingSlots[j]
                 PROVE  FALSE
      BY DEF W, Started
    <3>1. j \in 1..len /\ n + i \in 1..len /\ n + i # j
      BY <1>1, <1>2, <1>9
    <3> QED BY <3>1, <1>9 DEF LineOrder, len
  <2> QED BY <2>1, <2>2, <2>3, <1>8, <1>10 DEF LineOrder
<1>13. Full(r)
  <2>1. tail # << >> => Len(tail) # 0
    BY <1>9
  <2>2. Len(tail) # 0 => n # len
    BY <1>1, <1>2, <1>9
  <2>3. Fills(q, n) => r.activeCount >= MaxConcurrent
    BY <1>8, <1>10 DEF Fills, W
  <2> QED BY <2>1, <2>2, <2>3, <1>2, <1>10 DEF Full
<1> QED BY <1>6, <1>8, <1>10, <1>11, <1>12, <1>13 DEF IInv

(* One slot counts for one.                                                *)
LEMMA SingleSlot ==
  ASSUME NEW s \in Slots
  PROVE  {s} \in SUBSET Slots /\ Cardinality({s}) = 1
BY FS_Singleton

(* Starting one slot that is inactive and not in the line, with room for   *)
(* it.                                                                     *)
LEMMA StartOneKeeps ==
  ASSUME NEW q, Core(q), LineOrder(q), NEW s \in Slots, s \notin q.active,
         \A i \in 1..Len(q.waitingSlots) : q.waitingSlots[i] # s,
         q.activeCount < MaxConcurrent,
         q.waitingSlots # << >> =>
            q.activeCount + 1 >= MaxConcurrent \/ q.shuttingDown,
         StartRuns(q, {s}).laneless = {}
  PROVE  IInv(StartRuns(q, {s}))
<1> DEFINE W == {s}
           r == StartRuns(q, W)
           c == Cardinality(W)
<1>0. q.activeCount \in Int
  BY DEF Core, QueueStates
<1>1. W \in SUBSET Slots /\ c = 1 /\ W \cap q.active = {}
  BY SingleSlot
<1> HIDE DEF c
<1>2. q.activeCount + c <= MaxConcurrent
  BY <1>0, <1>1, QueueAssumption
<1>3. r.laneless = {} /\ q.activeCount + Cardinality(W) <= MaxConcurrent
  BY <1>2 DEF c
<1> HIDE DEF W
<1>4. /\ Core(r) /\ r.active = q.active \cup W /\ r.activeCount = q.activeCount + c
      /\ r.waitingSlots = q.waitingSlots /\ r.shuttingDown = q.shuttingDown
  BY <1>1, <1>3, StartRunsCore DEF c
<1> HIDE DEF r
<1>5. Full(r)
  BY <1>0, <1>1, <1>4 DEF Full
<1>6. LineOrder(r)
  BY <1>4 DEF LineOrder, W
<1>7. IInv(r)
  BY <1>4, <1>5, <1>6 DEF IInv
<1> QED BY <1>7 DEF r, W

(* The state in which drainGroup is called for chat g: it was released, or *)
(* its agent stays and idles.                                              *)
LEMMA DrainGroupKeeps ==
  ASSUME NEW q, Core(q), LineOrder(q), NEW g \in Chats,
         \A i \in 1..Len(q.waitingSlots) : q.waitingSlots[i] # g,
         g \in q.active =>
            /\ g \in q.idleWaiting /\ q.process[g] # NoAgent
            /\ q.process[g] \notin q.killed
            /\ Full(q),
         g \notin q.active =>
            /\ q.activeCount < MaxConcurrent
            /\ q.waitingSlots # << >> =>
                 q.activeCount + 1 >= MaxConcurrent \/ q.shuttingDown,
         DrainGroup(q, g).laneless = {}
  PROVE  IInv(DrainGroup(q, g))
<1>0. g \in Slots
  BY DEF Slots
<1>1. CASE q.shuttingDown
  BY <1>1 DEF DrainGroup, IInv, Full
<1>2. CASE ~q.shuttingDown /\ g \notin q.pendingMessages
  <2>1. DrainGroup(q, g) = DrainWaiting(q)
    BY <1>2 DEF DrainGroup
  <2> QED BY <2>1, DrainWaitingKeeps
<1>3. CASE ~q.shuttingDown /\ g \in q.pendingMessages /\ g \in q.active
  <2>1. DrainGroup(q, g) = StartDirect(q, g)
    BY <1>3 DEF DrainGroup
  <2>2. /\ Core(StartDirect(q, g))
        /\ StartDirect(q, g).active = q.active
        /\ StartDirect(q, g).activeCount = q.activeCount
        /\ StartDirect(q, g).waitingSlots = q.waitingSlots
        /\ StartDirect(q, g).shuttingDown = q.shuttingDown
    BY <2>1, StartDirectCore
  <2> QED BY <1>3, <2>1, <2>2 DEF IInv, LineOrder, Full
<1>4. CASE ~q.shuttingDown /\ g \in q.pendingMessages /\ g \notin q.active
  <2>1. DrainGroup(q, g) = StartRuns(q, {g})
    BY <1>4 DEF DrainGroup
  <2> QED BY <1>0, <1>4, <2>1, StartOneKeeps
<1> QED BY <1>1, <1>2, <1>3, <1>4

(* Joining the waiting line when the cap is reached.                       *)
LEMMA ParkKeeps ==
  ASSUME NEW q, IInv(q), NEW s \in Slots, s \notin q.active,
         q.activeCount >= MaxConcurrent
  PROVE  IInv(Park(q, s)) /\ Park(q, s).laneless = q.laneless
<1> DEFINE line == IF s \in Waiting(q) THEN q.waitingSlots ELSE Append(q.waitingSlots, s)
           r == [q EXCEPT !.waitingSlots = line]
<1>0. q \in QueueStates /\ q.waitingSlots \in Seq(Slots)
  BY DEF IInv, Core, QueueStates
<1>1. r = Park(q, s)
  BY DEF Park
<1>2. /\ line \in Seq(Slots)
      /\ \A i \in 1..Len(line) : line[i] \notin q.active
      /\ \A i, j \in 1..Len(line) : line[i] = line[j] => i = j
  <2>1. CASE s \in Waiting(q)
    BY <1>0, <2>1 DEF IInv, LineOrder
  <2>2. CASE s \notin Waiting(q)
    <3>1. \A i \in 1..Len(q.waitingSlots) : q.waitingSlots[i] # s
      BY <1>0, <2>2 DEF Waiting
    <3>2. line = Append(q.waitingSlots, s)
      BY <2>2
    <3> HIDE DEF line
    <3> QED BY <1>0, <3>1, <3>2 DEF IInv, LineOrder
  <2> QED BY <2>1, <2>2
<1> HIDE DEF line
<1>3. /\ r \in QueueStates /\ r.active = q.active /\ r.activeCount = q.activeCount
      /\ r.waitingSlots = line /\ r.phase = q.phase /\ r.direct = q.direct
      /\ r.laneless = q.laneless
  BY <1>0, <1>2 DEF QueueStates
<1> HIDE DEF r
<1>4. Core(r)
  <2>1. \A a \in Agents : InFlight(r, a) <=> InFlight(q, a)
    BY <1>3 DEF InFlight
  <2> QED BY <1>3, <2>1, CoreSame DEF IInv, Core, RunsOwned
<1> QED BY <1>1, <1>2, <1>3, <1>4 DEF IInv, LineOrder, Full

(* The invariant does not read pendingMessages.                            *)
LEMMA PendingKeeps ==
  ASSUME NEW q, IInv(q), NEW P \in SUBSET Chats
  PROVE  LET r == [q EXCEPT !.pendingMessages = P]
         IN  /\ IInv(r) /\ r.laneless = q.laneless
             /\ r.active = q.active /\ r.activeCount = q.activeCount
<1> DEFINE r == [q EXCEPT !.pendingMessages = P]
<1>1. /\ r \in QueueStates /\ r.active = q.active /\ r.activeCount = q.activeCount
      /\ r.waitingSlots = q.waitingSlots /\ r.phase = q.phase /\ r.direct = q.direct
      /\ r.laneless = q.laneless /\ r.shuttingDown = q.shuttingDown
  BY DEF IInv, Core, QueueStates
<1> HIDE DEF r
<1>2. \A a \in Agents : InFlight(r, a) <=> InFlight(q, a)
  BY <1>1 DEF InFlight
<1>3. IInv(r)
  BY <1>1, <1>2, IInvSame DEF IInv, Core, RunsOwned
<1> QED BY <1>1, <1>3 DEF r

(* enqueueMessageCheck preserves the invariant: at the cap it parks, below *)
(* the cap the line is empty and it starts.                                *)
LEMMA EnqueueMessageCheckKeeps ==
  ASSUME NEW q, IInv(q), NEW g \in Chats,
         EnqueueMessageCheck(q, g).laneless = {}
  PROVE  IInv(EnqueueMessageCheck(q, g))
<1> DEFINE P == q.pendingMessages \cup {g}
           p == [q EXCEPT !.pendingMessages = P]
<1>0. q \in QueueStates /\ g \in Slots /\ P \in SUBSET Chats /\ q.activeCount \in Int
  BY DEF IInv, Core, QueueStates, Slots
<1> HIDE DEF P
<1>1. IInv(p) /\ p.active = q.active /\ p.activeCount = q.activeCount
  BY <1>0, PendingKeeps
<1> HIDE DEF p
<1>2. CASE q.shuttingDown
  BY <1>2 DEF EnqueueMessageCheck
<1>3. CASE ~q.shuttingDown /\ g \in q.active
  BY <1>1, <1>3 DEF EnqueueMessageCheck, p, P
<1>4. CASE ~q.shuttingDown /\ g \notin q.active /\ q.activeCount >= MaxConcurrent
  <2>1. EnqueueMessageCheck(q, g) = Park(p, g)
    BY <1>4 DEF EnqueueMessageCheck, p, P
  <2> QED BY <1>0, <1>1, <1>4, <2>1, ParkKeeps
<1>5. CASE ~q.shuttingDown /\ g \notin q.active /\ ~(q.activeCount >= MaxConcurrent)
  <2>1. EnqueueMessageCheck(q, g) = StartRuns(q, {g})
    BY <1>5 DEF EnqueueMessageCheck
  <2>2. q.waitingSlots = << >>
    BY <1>5 DEF IInv, Full
  <2>3. q.activeCount < MaxConcurrent
    BY <1>0, <1>5, QueueAssumption
  <2>4. \A i \in 1..Len(q.waitingSlots) : q.waitingSlots[i] # g
    BY <2>2
  <2> QED BY <1>0, <1>5, <2>1, <2>2, <2>3, <2>4, StartOneKeeps DEF IInv
<1> QED BY <1>2, <1>3, <1>4, <1>5

(* The slot of chat g is released and drainGroup is called for g; r is the *)
(* released state, up to fields the invariant does not mention.            *)
LEMMA ReleasedDrains ==
  ASSUME NEW q \in QueueStates, Counted(q), RunsOwned(q), TasksRun(q),
         LineOrder(q), Full(q), NEW g \in Chats, g \in q.active,
         \A a \in Agents : SlotOf(a) = g => ~ InFlight(q, a),
         NEW r \in QueueStates,
         r.active = q.active \ {g}, r.activeCount = q.activeCount - 1,
         r.waitingSlots = q.waitingSlots, r.shuttingDown = q.shuttingDown,
         r.phase = q.phase, r.direct = q.direct,
         DrainGroup(r, g).laneless = {}
  PROVE  IInv(DrainGroup(r, g))
<1> DEFINE p == Release(q, g)
<1>1. Core(p) /\ p.active = q.active \ {g} /\ p.activeCount = q.activeCount - 1
  BY ReleaseCore DEF TasksRun
<1>2. p.phase = q.phase /\ p.direct = q.direct
  BY DEF Release, QueueStates
<1> HIDE DEF p
<1>3. \A a \in Agents : InFlight(r, a) <=> InFlight(p, a)
  BY <1>2 DEF InFlight
<1>4. Core(r)
  BY <1>1, <1>3, CoreSame DEF RunsOwned
<1>5. LineOrder(r) /\ \A i \in 1..Len(r.waitingSlots) : r.waitingSlots[i] # g
  BY DEF LineOrder
<1>6. q.activeCount \in Int
  BY DEF QueueStates
<1>7. r.activeCount < MaxConcurrent
  BY <1>6, QueueAssumption DEF Counted
<1>8. r.waitingSlots # << >> => r.activeCount + 1 >= MaxConcurrent \/ r.shuttingDown
  BY <1>6, QueueAssumption DEF Full
<1> QED BY <1>4, <1>5, <1>7, <1>8, DrainGroupKeeps

(* No run awaited means none in flight.                                    *)
LEMMA NotAwaited ==
  ASSUME NEW q, NEW s, Awaited(q, s) = {}
  PROVE  \A a \in Agents : SlotOf(a) = s => ~ InFlight(q, a)
BY DEF Awaited

(* sendMessage yields a queue state.                                       *)
LEMMA SendMessageType ==
  ASSUME NEW q \in QueueStates, NEW g \in Chats, NEW written
  PROVE  SendMessage(q, g, written) \in QueueStates
<1>1. CASE ~HasContainer(q, g)
  BY <1>1 DEF SendMessage
<1>2. CASE HasContainer(q, g) /\ ~Exited(q, g)
  BY <1>2 DEF SendMessage, QueueStates
<1>3. CASE HasContainer(q, g) /\ Exited(q, g)
  <2> DEFINE p == Release(q, g)
             r == [p EXCEPT !.idleWaiting = @ \ {g},
                            !.pendingMessages = @ \cup {g}]
             n == q.activeCount - 1
  <2>1. n \in Int
    BY DEF QueueStates
  <2>2. p = [q EXCEPT !.active = @ \ {g}, !.process[g] = NoAgent,
                      !.activeCount = n]
    BY DEF Release
  <2> HIDE DEF p, n
  <2>3. p \in QueueStates
    BY <2>1, <2>2 DEF QueueStates
  <2>4. r \in QueueStates /\ g \in r.pendingMessages /\ r.active = p.active
    BY <2>3 DEF QueueStates
  <2>5. g \notin r.active
    BY <2>2, <2>4 DEF QueueStates
  <2>6. SendMessage(q, g, written) = DrainGroup(r, g)
    BY <1>3 DEF SendMessage, p
  <2> HIDE DEF r
  <2>7. DrainGroup(r, g) = r \/ DrainGroup(r, g) = StartRuns(r, {g})
    BY <2>4, <2>5 DEF DrainGroup
  <2>8. {g} \in SUBSET Slots
    BY DEF Slots
  <2> QED BY <2>4, <2>6, <2>7, <2>8, StartRunsType
<1> QED BY <1>1, <1>2, <1>3

(* sendMessage preserves the invariant when its clean-up of an exited      *)
(* process meets no awaited run.                                           *)
LEMMA SendMessageKeeps ==
  ASSUME Overlaps = {}, NEW q, IInv(q), NEW g \in Chats, NEW written,
         MaySend(q, g), SendMessage(q, g, written).laneless = {}
  PROVE  IInv(SendMessage(q, g, written))
<1>0. q \in QueueStates /\ Counted(q) /\ RunsOwned(q) /\ TasksRun(q)
      /\ LineOrder(q) /\ Full(q)
  BY DEF IInv, Core
<1>1. CASE ~HasContainer(q, g)
  BY <1>1 DEF SendMessage
<1>2. CASE HasContainer(q, g) /\ ~Exited(q, g)
  <2> DEFINE r == SendMessage(q, g, written)
  <2>1. /\ r \in QueueStates /\ r.active = q.active
        /\ r.activeCount = q.activeCount /\ r.waitingSlots = q.waitingSlots
        /\ r.shuttingDown = q.shuttingDown
        /\ r.phase = q.phase /\ r.direct = q.direct
    BY <1>0, <1>2, ZenonT(40) DEF SendMessage, QueueStates
  <2> HIDE DEF r
  <2>2. \A a \in Agents : InFlight(r, a) <=> InFlight(q, a)
    BY <2>1 DEF InFlight
  <2>3. IInv(r)
    BY <1>0, <2>1, <2>2, IInvSame DEF RunsOwned
  <2> QED BY <2>3 DEF r
<1>3. CASE HasContainer(q, g) /\ Exited(q, g)
  <2> DEFINE p == Release(q, g)
             r == [p EXCEPT !.idleWaiting = @ \ {g},
                            !.pendingMessages = @ \cup {g}]
             n == q.activeCount - 1
  <2>1. n \in Int
    BY <1>0 DEF QueueStates
  <2>2. p = [q EXCEPT !.active = @ \ {g}, !.process[g] = NoAgent,
                      !.activeCount = n]
    BY DEF Release
  <2>3. n = q.activeCount - 1
    OBVIOUS
  <2>4. SendMessage(q, g, written) = DrainGroup(r, g)
    BY <1>3 DEF SendMessage
  <2> HIDE DEF p, n
  <2>5. /\ p \in QueueStates
        /\ p.active = q.active \ {g} /\ p.activeCount = n
        /\ p.waitingSlots = q.waitingSlots /\ p.shuttingDown = q.shuttingDown
        /\ p.phase = q.phase /\ p.direct = q.direct
    BY <1>0, <2>1, <2>2 DEF QueueStates
  <2>6. /\ r \in QueueStates
        /\ r.active = p.active /\ r.activeCount = p.activeCount
        /\ r.waitingSlots = p.waitingSlots /\ r.shuttingDown = p.shuttingDown
        /\ r.phase = p.phase /\ r.direct = p.direct
    BY <2>5 DEF QueueStates
  <2> HIDE DEF r
  <2>7. g \in q.active
    BY <1>3 DEF HasContainer
  <2>8. Awaited(q, g) = {}
    BY <1>3 DEF MaySend
  <2>9. \A a \in Agents : SlotOf(a) = g => ~ InFlight(q, a)
    BY <2>8, NotAwaited
  <2> QED BY <1>0, <2>3, <2>4, <2>5, <2>6, <2>7, <2>9, ReleasedDrains
<1> QED BY <1>1, <1>2, <1>3

(* enqueueMessageCheck does not hide a start beyond the bound Lanes.       *)
LEMMA EnqueueMessageCheckLaneless ==
  ASSUME NEW q \in QueueStates, NEW g \in Chats
  PROVE  q.laneless \subseteq EnqueueMessageCheck(q, g).laneless
<1>1. {g} \in SUBSET Slots
  BY DEF Slots
<1>2. q.laneless \subseteq StartRuns(q, {g}).laneless
  BY <1>1, StartRunsType
<1>3. [q EXCEPT !.pendingMessages = @ \cup {g}].laneless = q.laneless
  BY DEF QueueStates
<1>4. Park([q EXCEPT !.pendingMessages = @ \cup {g}], g).laneless = q.laneless
  BY DEF Park, QueueStates
<1> QED BY <1>2, <1>3, <1>4 DEF EnqueueMessageCheck

(* Dropping what no code reads again preserves the invariant.              *)
LEMMA TidyKeeps ==
  ASSUME NEW q, IInv(q)
  PROVE  IInv(Tidy(q))
<1> DEFINE known == {a \in Agents : ~FreeLane(q, a)}
           r == [q EXCEPT !.idleWaiting = @ \cap q.active,
                          !.piped = @ \cap q.active,
                          !.agentHasOutput = @ \cap q.active,
                          !.direct = @ \cap known,
                          !.dead = @ \cap known,
                          !.coded = @ \cap known,
                          !.killed = @ \cap known]
<1>0. q \in QueueStates /\ RunsOwned(q)
  BY DEF IInv, Core
<1>1. r = Tidy(q)
  BY DEF Tidy
<1>2. \A a \in Agents : q.phase[a] # "free" => a \in known
  BY DEF FreeLane
<1>3. known \subseteq Agents
  OBVIOUS
<1> HIDE DEF known
<1>4. /\ r \in QueueStates /\ r.active = q.active
      /\ r.activeCount = q.activeCount /\ r.waitingSlots = q.waitingSlots
      /\ r.shuttingDown = q.shuttingDown
      /\ r.phase = q.phase /\ r.direct = q.direct \cap known
  BY <1>0, <1>3 DEF QueueStates
<1> HIDE DEF r
<1>5. \A a \in Agents : InFlight(r, a) <=> InFlight(q, a)
  BY <1>2, <1>4 DEF InFlight
<1>6. IInv(r)
  BY <1>0, <1>4, <1>5, IInvSame DEF RunsOwned
<1> QED BY <1>1, <1>6

(* What a step establishes: the state it was given obeyed the invariant.   *)
LEMMA StepKeeps ==
  ASSUME NEW q, Step(q), q.laneless = {} => IInv(q)
  PROVE  IInv(queue')
BY TidyKeeps DEF Step

(* A step that leaves the slots, the counter and the line alone.           *)
LEMMA QuietStepKeeps ==
  ASSUME IInv(queue), NEW r \in QueueStates, Step(r),
         r.active = queue.active, r.activeCount = queue.activeCount,
         r.waitingSlots = queue.waitingSlots,
         queue.shuttingDown => r.shuttingDown,
         \A a \in Agents : InFlight(r, a) <=> InFlight(queue, a),
         r.direct \subseteq queue.direct
  PROVE  IInv(queue')
<1>1. \A a \in r.direct : SlotOf(a) \in Chats
  BY DEF IInv, Core, RunsOwned
<1>2. IInv(r)
  BY <1>1, IInvSame
<1> QED BY <1>2, StepKeeps

(* A batch of messages is piped, or its check enqueued.                    *)
LEMMA InboundMessageKeeps ==
  ASSUME Overlaps = {}, IInv(queue), NEW g \in Chats, NEW written,
         InboundMessage(g, written)
  PROVE  IInv(queue')
<1> DEFINE q == SendMessage(queue, g, written)
           r == IF Piped(queue, g, written) THEN q ELSE EnqueueMessageCheck(q, g)
<1>1. q \in QueueStates
  BY SendMessageType DEF IInv, Core
<1>2. MaySend(queue, g) /\ Step(r)
  BY DEF InboundMessage
<1>3. q.laneless = {} => IInv(q)
  BY <1>2, SendMessageKeeps
<1> HIDE DEF q
<1>4. r.laneless = {} => q.laneless = {}
  BY <1>1, EnqueueMessageCheckLaneless
<1>5. r.laneless = {} => IInv(r)
  BY <1>3, <1>4, EnqueueMessageCheckKeeps
<1> QED BY <1>2, <1>5, StepKeeps

(* A due task is started, or parked at the cap.                            *)
LEMMA EnqueueTaskKeeps ==
  ASSUME IInv(queue), NEW t \in Tasks, EnqueueTask(t)
  PROVE  IInv(queue')
<1> DEFINE p == [queue EXCEPT !.waitingTaskFns = @ \cup {t}]
           r == IF queue.activeCount >= MaxConcurrent THEN Park(p, t)
                ELSE StartRuns(queue, {t})
<1>0. /\ queue \in QueueStates /\ queue.activeCount \in Int /\ t \in Slots
      /\ t \notin queue.active /\ ~queue.shuttingDown /\ Step(r)
  BY DEF EnqueueTask, IInv, Core, QueueStates, Slots
<1>1. /\ p \in QueueStates /\ p.active = queue.active
      /\ p.activeCount = queue.activeCount /\ p.waitingSlots = queue.waitingSlots
      /\ p.shuttingDown = queue.shuttingDown
      /\ p.phase = queue.phase /\ p.direct = queue.direct
  BY <1>0 DEF QueueStates
<1> HIDE DEF p
<1>2. IInv(p)
  <2>1. \A a \in Agents : InFlight(p, a) <=> InFlight(queue, a)
    BY <1>1 DEF InFlight
  <2> QED BY <1>1, <2>1, IInvSame DEF IInv, Core, RunsOwned
<1>3. CASE queue.activeCount >= MaxConcurrent
  BY <1>0, <1>1, <1>2, <1>3, ParkKeeps, StepKeeps
<1>4. CASE ~(queue.activeCount >= MaxConcurrent)
  <2>1. queue.activeCount < MaxConcurrent
    BY <1>0, <1>4, QueueAssumption
  <2>2. queue.waitingSlots = << >>
    BY <1>0, <1>4 DEF IInv, Full
  <2>3. \A i \in 1..Len(queue.waitingSlots) : queue.waitingSlots[i] # t
    BY <2>2
  <2>4. StartRuns(queue, {t}).laneless = {} => IInv(StartRuns(queue, {t}))
    BY <1>0, <2>1, <2>2, <2>3, StartOneKeeps DEF IInv
  <2> QED BY <1>0, <1>4, <2>4, StepKeeps
<1> QED BY <1>3, <1>4

(* A run in flight stays in flight when it spawns its process.             *)
LEMMA RegisterProcessKeeps ==
  ASSUME IInv(queue), NEW a \in Agents, RegisterProcess(a)
  PROVE  IInv(queue')
<1> DEFINE r == [queue EXCEPT !.phase[a] = "query", !.process[SlotOf(a)] = a]
<1>1. queue \in QueueStates /\ queue.phase[a] = "starting" /\ Step(r)
  BY DEF RegisterProcess, IInv, Core
<1>2. /\ r \in QueueStates /\ r.active = queue.active
      /\ r.activeCount = queue.activeCount /\ r.waitingSlots = queue.waitingSlots
      /\ r.shuttingDown = queue.shuttingDown /\ r.direct = queue.direct
      /\ r.phase = [queue.phase EXCEPT ![a] = "query"]
  BY <1>1, SlotOfAgent DEF QueueStates, Phases
<1> HIDE DEF r
<1>3. \A b \in Agents : InFlight(r, b) <=> InFlight(queue, b)
  BY <1>1, <1>2 DEF InFlight, QueueStates
<1> QED BY <1>1, <1>2, <1>3, QuietStepKeeps

(* The output callback touches flags the invariant does not read.          *)
LEMMA OutputKeeps ==
  ASSUME IInv(queue), NEW a \in Agents, NEW text, NEW success,
         Output(a, text, success)
  PROVE  IInv(queue')
<1> DEFINE s == SlotOf(a)
           r == [queue EXCEPT
                   !.idleWaiting = IF success THEN @ \cup {s} ELSE @,
                   !.piped = IF text THEN @ \ {s} ELSE @,
                   !.agentHasOutput =
                      IF text /\ s \in Chats THEN @ \cup {s} ELSE @]
<1>1. queue \in QueueStates /\ Step(r) /\ s \in Slots
  BY SlotOfAgent DEF Output, IInv, Core
<1> HIDE DEF s
<1>2. /\ r \in QueueStates /\ r.active = queue.active
      /\ r.activeCount = queue.activeCount /\ r.waitingSlots = queue.waitingSlots
      /\ r.shuttingDown = queue.shuttingDown /\ r.direct = queue.direct
      /\ r.phase = queue.phase
  BY <1>1, ZenonT(40) DEF QueueStates
<1> HIDE DEF r
<1>3. \A b \in Agents : InFlight(r, b) <=> InFlight(queue, b)
  BY <1>2 DEF InFlight
<1> QED BY <1>1, <1>2, <1>3, QuietStepKeeps

(* A delivery retry is a sendMessage after two flags were reset.           *)
LEMMA DeliveryRetryKeeps ==
  ASSUME Overlaps = {}, IInv(queue), NEW a \in Agents, NEW written,
         DeliveryRetry(a, written)
  PROVE  IInv(queue')
<1> DEFINE g == SlotOf(a)
           p == [queue EXCEPT !.piped = @ \ {g}, !.agentHasOutput = @ \ {g}]
<1>1. /\ queue \in QueueStates /\ g \in Chats /\ MaySend(queue, g)
      /\ Step(SendMessage(p, g, written))
  BY DEF DeliveryRetry, IInv, Core
<1> HIDE DEF g
<1>2. /\ p \in QueueStates /\ p.active = queue.active
      /\ p.activeCount = queue.activeCount /\ p.waitingSlots = queue.waitingSlots
      /\ p.shuttingDown = queue.shuttingDown /\ p.direct = queue.direct
      /\ p.phase = queue.phase /\ p.process = queue.process
      /\ p.coded = queue.coded
  BY <1>1 DEF QueueStates
<1> HIDE DEF p
<1>3. \A b \in Agents : InFlight(p, b) <=> InFlight(queue, b)
  BY <1>2 DEF InFlight
<1>4. IInv(p)
  BY <1>2, <1>3, IInvSame DEF IInv, Core, RunsOwned
<1>5. MaySend(p, g)
  BY <1>1, <1>2, <1>3 DEF MaySend, Exited, HasContainer, Awaited
<1> QED BY <1>1, <1>4, <1>5, SendMessageKeeps, StepKeeps

(* A run whose query is done is still awaited, or never was.               *)
LEMMA QueryDoneKeeps ==
  ASSUME IInv(queue), NEW a \in Agents, NEW success, QueryDone(a, success)
  PROVE  IInv(queue')
<1> DEFINE g == SlotOf(a)
           ph == IF a \notin queue.direct THEN "returning"
                 ELSE IF a \in queue.dead THEN "free" ELSE "serving"
           idle == IF success THEN queue.idleWaiting \cup {g}
                   ELSE queue.idleWaiting
           r == [queue EXCEPT !.phase[a] = ph, !.idleWaiting = idle]
<1>1. /\ queue \in QueueStates /\ queue.phase[a] = "query" /\ g \in Slots
      /\ Step(r)
  BY SlotOfAgent DEF QueryDone, IInv, Core
<1>2. ph \in Phases /\ idle \in SUBSET Slots
  BY <1>1 DEF QueueStates, Phases
<1>3. a \notin queue.direct => ph = "returning"
  OBVIOUS
<1> HIDE DEF ph, idle
<1>4. /\ r \in QueueStates /\ r.active = queue.active
      /\ r.activeCount = queue.activeCount /\ r.waitingSlots = queue.waitingSlots
      /\ r.shuttingDown = queue.shuttingDown /\ r.direct = queue.direct
      /\ r.phase = [queue.phase EXCEPT ![a] = ph]
  BY <1>1, <1>2 DEF QueueStates
<1> HIDE DEF r
<1>5. \A b \in Agents : InFlight(r, b) <=> InFlight(queue, b)
  BY <1>1, <1>3, <1>4 DEF InFlight, QueueStates
<1> QED BY <1>1, <1>4, <1>5, QuietStepKeeps

(* The run a of a chat ends: q is the state with the run over and the      *)
(* retry counted, before the slot is kept for its idle agent or released.  *)
LEMMA RunOver ==
  ASSUME IInv(queue), NEW a \in Agents, InFlight(queue, a), SlotOf(a) \in Chats,
         NEW q \in QueueStates,
         q.active = queue.active, q.activeCount = queue.activeCount,
         q.waitingSlots = queue.waitingSlots,
         q.shuttingDown = queue.shuttingDown, q.direct = queue.direct,
         \E ph \in {"free", "serving"} : q.phase = [queue.phase EXCEPT ![a] = ph]
  PROVE  /\ IInv(q) /\ SlotOf(a) \in q.active
         /\ \A b \in Agents : SlotOf(b) = SlotOf(a) => ~InFlight(q, b)
<1>0. queue \in QueueStates /\ Counted(queue) /\ RunsOwned(queue)
      /\ TasksRun(queue) /\ LineOrder(queue) /\ Full(queue)
  BY DEF IInv, Core
<1>1. \A b \in Agents : InFlight(q, b) <=> InFlight(queue, b) /\ b # a
  BY <1>0 DEF InFlight, QueueStates
<1>2. RunsOwned(q)
  BY <1>0, <1>1 DEF RunsOwned
<1>3. TasksRun(q)
  BY <1>0, <1>1, QueueAssumption DEF TasksRun
<1>4. \A b \in Agents : SlotOf(b) = SlotOf(a) => ~InFlight(q, b)
  BY <1>0, <1>1 DEF RunsOwned
<1>5. SlotOf(a) \in q.active
  BY <1>0 DEF RunsOwned
<1> QED BY <1>0, <1>2, <1>3, <1>4, <1>5
        DEF IInv, Core, Counted, LineOrder, Full

(* The finally block of runForGroup: the slot is kept for an idle agent or *)
(* released, and drainGroup hands the capacity on.                         *)
LEMMA FinishKeeps ==
  ASSUME IInv(queue), NEW a \in Agents, NEW success, Finish(a, success)
  PROVE  IInv(queue')
<1> DEFINE g == SlotOf(a)
           ph == IF queue.phase[a] = "starting" \/ a \in queue.dead
                 THEN "free" ELSE "serving"
           q1 == [queue EXCEPT !.phase[a] = ph]
           q2 == IF success THEN [q1 EXCEPT !.retryCount[g] = 0]
                 ELSE ScheduleRetry(q1, g)
           q3 == IF ProcessAlive(q2, g) /\ g \in q2.idleWaiting THEN q2
                 ELSE Release(q2, g)
<1>1. /\ queue \in QueueStates /\ g \in Chats
      /\ queue.phase[a] \in {"starting", "returning"} /\ a \notin queue.direct
      /\ Step(DrainGroup(q3, g))
  BY DEF Finish, IInv, Core
<1>2. InFlight(queue, a) /\ ph \in {"free", "serving"}
  BY <1>1 DEF InFlight
<1> HIDE DEF g, ph
<1>3. /\ q1 \in QueueStates /\ q1.active = queue.active
      /\ q1.activeCount = queue.activeCount
      /\ q1.waitingSlots = queue.waitingSlots
      /\ q1.shuttingDown = queue.shuttingDown /\ q1.direct = queue.direct
      /\ q1.phase = [queue.phase EXCEPT ![a] = ph]
  BY <1>1, <1>2 DEF QueueStates, Phases
<1> HIDE DEF q1
<1>4. /\ q2 \in QueueStates /\ q2.active = q1.active
      /\ q2.activeCount = q1.activeCount
      /\ q2.waitingSlots = q1.waitingSlots
      /\ q2.shuttingDown = q1.shuttingDown /\ q2.direct = q1.direct
      /\ q2.phase = q1.phase
  <2> DEFINE n == q1.retryCount[g] + 1
  <2>1. q1.retryCount[g] \in 0..MaxRetries
    BY <1>1, <1>3 DEF QueueStates
  <2>2. ~(n > MaxRetries) => n \in 0..MaxRetries
    BY <2>1, QueueAssumption
  <2>3. 0 \in 0..MaxRetries
    BY QueueAssumption
  <2>4. ScheduleRetry(q1, g) =
          IF n > MaxRetries THEN [q1 EXCEPT !.retryCount[g] = 0]
          ELSE [q1 EXCEPT !.retryCount[g] = n,
                          !.retryTimers = @ \cup {g}]
    BY <1>3 DEF ScheduleRetry, QueueStates
  <2>5. \/ q2 = [q1 EXCEPT !.retryCount[g] = 0]
        \/ /\ n \in 0..MaxRetries
           /\ q2 = [q1 EXCEPT !.retryCount[g] = n, !.retryTimers = @ \cup {g}]
    BY <2>2, <2>4
  <2> HIDE DEF n, q2
  <2> DEFINE range == 0..MaxRetries
  <2>6. \A m \in range : [q1.retryCount EXCEPT ![g] = m] \in [Chats -> range]
    BY <1>3 DEF QueueStates
  <2>7. PICK m \in range :
          \/ q2 = [q1 EXCEPT !.retryCount[g] = m]
          \/ q2 = [q1 EXCEPT !.retryCount[g] = m, !.retryTimers = @ \cup {g}]
    BY <2>3, <2>5
  <2>8. [q1.retryCount EXCEPT ![g] = m] \in [Chats -> 0..MaxRetries]
    BY <2>6
  <2> HIDE DEF range
  <2>9. CASE q2 = [q1 EXCEPT !.retryCount[g] = m]
    BY <1>1, <1>3, <2>8, <2>9 DEF QueueStates
  <2>10. CASE q2 = [q1 EXCEPT !.retryCount[g] = m, !.retryTimers = @ \cup {g}]
    BY <1>1, <1>3, <2>8, <2>10 DEF QueueStates
  <2> QED BY <2>7, <2>9, <2>10
<1> HIDE DEF q2
<1>5. /\ IInv(q2) /\ g \in q2.active
      /\ \A b \in Agents : SlotOf(b) = g => ~InFlight(q2, b)
  BY <1>1, <1>2, <1>3, <1>4, RunOver DEF g
<1>6. CASE ProcessAlive(q2, g) /\ g \in q2.idleWaiting
  <2>1. q3 = q2
    BY <1>6
  <2>2. \A i \in 1..Len(q2.waitingSlots) : q2.waitingSlots[i] # g
    BY <1>5 DEF IInv, LineOrder
  <2>3. q2.process[g] # NoAgent /\ q2.process[g] \notin q2.killed
    BY <1>6 DEF ProcessAlive
  <2>4. DrainGroup(q2, g).laneless = {} => IInv(DrainGroup(q2, g))
    BY <1>1, <1>5, <1>6, <2>2, <2>3, DrainGroupKeeps DEF IInv
  <2> QED BY <1>1, <2>1, <2>4, StepKeeps
<1>7. CASE ~(ProcessAlive(q2, g) /\ g \in q2.idleWaiting)
  <2> DEFINE r == Release(q2, g)
  <2>1. q3 = r
    BY <1>7
  <2>2. /\ q2 \in QueueStates /\ Counted(q2) /\ RunsOwned(q2) /\ TasksRun(q2)
        /\ LineOrder(q2) /\ Full(q2)
    BY <1>5 DEF IInv, Core
  <2>3. /\ r \in QueueStates
        /\ r.active = q2.active \ {g} /\ r.activeCount = q2.activeCount - 1
        /\ r.waitingSlots = q2.waitingSlots
        /\ r.shuttingDown = q2.shuttingDown
    BY <1>5, <2>2, ReleaseCore DEF Core, TasksRun
  <2>4. r.phase = q2.phase /\ r.direct = q2.direct
    BY <1>4 DEF Release, QueueStates
  <2> HIDE DEF r
  <2>5. DrainGroup(r, g).laneless = {} => IInv(DrainGroup(r, g))
    BY <1>1, <1>5, <2>2, <2>3, <2>4, ReleasedDrains
  <2> QED BY <1>1, <2>1, <2>5, StepKeeps
<1> QED BY <1>6, <1>7

(* The end of a run nobody awaits.                                         *)
LEMMA FinishDirectKeeps ==
  ASSUME IInv(queue), NEW a \in Agents, FinishDirect(a)
  PROVE  IInv(queue')
<1> DEFINE r == [queue EXCEPT !.phase[a] = "free", !.direct = @ \ {a}]
<1>1. queue \in QueueStates /\ a \in queue.direct /\ Step(r)
  BY DEF FinishDirect, IInv, Core
<1>2. /\ r \in QueueStates /\ r.active = queue.active
      /\ r.activeCount = queue.activeCount
      /\ r.waitingSlots = queue.waitingSlots
      /\ r.shuttingDown = queue.shuttingDown
      /\ r.direct = queue.direct \ {a}
      /\ r.phase = [queue.phase EXCEPT ![a] = "free"]
  BY <1>1 DEF QueueStates, Phases
<1> HIDE DEF r
<1>3. \A b \in Agents : InFlight(r, b) <=> InFlight(queue, b)
  BY <1>1, <1>2 DEF InFlight, QueueStates
<1> QED BY <1>1, <1>2, <1>3, QuietStepKeeps

(* The finally block of runTask.                                           *)
LEMMA FinishTaskKeeps ==
  ASSUME IInv(queue), NEW a \in Agents, FinishTask(a)
  PROVE  IInv(queue')
<1> DEFINE t == SlotOf(a)
           q == [queue EXCEPT !.phase[a] = "free"]
           r == Release(q, t)
<1>0. /\ queue \in QueueStates /\ Counted(queue) /\ RunsOwned(queue)
      /\ TasksRun(queue) /\ LineOrder(queue) /\ Full(queue)
  BY DEF IInv, Core
<1>1. /\ t \in Tasks /\ queue.phase[a] \in {"starting", "query"}
      /\ Step(DrainWaiting(r))
  BY DEF FinishTask
<1>2. InFlight(queue, a)
  BY <1>0, <1>1, QueueAssumption DEF InFlight, RunsOwned
<1>3. /\ q \in QueueStates /\ q.active = queue.active
      /\ q.activeCount = queue.activeCount
      /\ q.waitingSlots = queue.waitingSlots /\ q.direct = queue.direct
      /\ q.phase = [queue.phase EXCEPT ![a] = "free"]
  BY <1>0 DEF QueueStates, Phases
<1> HIDE DEF q, t
<1>4. \A b \in Agents : InFlight(q, b) <=> InFlight(queue, b) /\ b # a
  BY <1>0, <1>3 DEF InFlight, QueueStates
<1>5. Counted(q) /\ RunsOwned(q) /\ t \in q.active
  BY <1>0, <1>2, <1>3, <1>4 DEF Counted, RunsOwned, t
<1>6. \A b \in Agents : SlotOf(b) = t => ~InFlight(q, b)
  BY <1>0, <1>2, <1>4 DEF RunsOwned, t
<1>7. \A u \in (Tasks \cap q.active) \ {t} :
         \E b \in Agents : SlotOf(b) = u /\ InFlight(q, b)
  BY <1>0, <1>3, <1>4 DEF TasksRun, t
<1>8. /\ Core(r) /\ r.active = q.active \ {t}
      /\ r.waitingSlots = q.waitingSlots
  BY <1>3, <1>5, <1>6, <1>7, ReleaseCore
<1> HIDE DEF r
<1>9. LineOrder(r)
  BY <1>0, <1>3, <1>8 DEF LineOrder
<1>10. DrainWaiting(r).laneless = {} => IInv(DrainWaiting(r))
  BY <1>8, <1>9, DrainWaitingKeeps
<1> QED BY <1>1, <1>10, StepKeeps

(* The exit listener releases a slot none of whose runs is in flight.      *)
LEMMA ExitKeeps ==
  ASSUME Overlaps = {}, IInv(queue), NEW a \in Agents, NEW code, Exit(a, code)
  PROVE  IInv(queue')
<1> DEFINE s == SlotOf(a)
           ph == IF queue.phase[a] = "serving" THEN "free" ELSE queue.phase[a]
           cd == IF code THEN queue.coded \cup {a} ELSE queue.coded
           q == [queue EXCEPT !.phase[a] = ph, !.dead = @ \cup {a}, !.coded = cd]
<1>1. /\ queue \in QueueStates /\ s \in Slots
      /\ queue.phase[a] \in {"query", "returning", "serving"}
      /\ ~(ExitFires(queue, s) /\ Awaited(queue, s) # {})
      /\ Step(OnExit(q, s))
  <2>1. Step(OnExit(q, s))
    BY DEF Exit, IInv, Core, QueueStates
  <2> QED BY <2>1, SlotOfAgent DEF Exit, IInv, Core
<1>2. ph \in Phases /\ cd \in SUBSET Agents
  BY <1>1 DEF QueueStates, Phases
<1>3. ph = queue.phase[a] \/ (queue.phase[a] = "serving" /\ ph = "free")
  OBVIOUS
<1> HIDE DEF s, ph, cd
<1>4. /\ q \in QueueStates /\ q.active = queue.active
      /\ q.activeCount = queue.activeCount
      /\ q.waitingSlots = queue.waitingSlots
      /\ q.shuttingDown = queue.shuttingDown /\ q.direct = queue.direct
      /\ q.idleWaiting = queue.idleWaiting /\ q.piped = queue.piped
      /\ q.agentHasOutput = queue.agentHasOutput
      /\ q.phase = [queue.phase EXCEPT ![a] = ph]
  BY <1>1, <1>2 DEF QueueStates
<1> HIDE DEF q
<1>5. \A b \in Agents : InFlight(q, b) <=> InFlight(queue, b)
  BY <1>1, <1>3, <1>4 DEF InFlight, QueueStates
<1>6. IInv(q)
  BY <1>4, <1>5, IInvSame DEF IInv, Core, RunsOwned
<1>7. CASE ~ExitFires(q, s)
  <2>1. OnExit(q, s) = q
    BY <1>7 DEF OnExit
  <2> QED BY <1>1, <1>6, <2>1, StepKeeps
<1>8. CASE ExitFires(q, s)
  <2>1. s \in q.active /\ Awaited(queue, s) = {}
    BY <1>1, <1>4, <1>8 DEF ExitFires
  <2>2. \A b \in Agents : SlotOf(b) = s => ~InFlight(q, b)
    BY <1>5, <2>1, NotAwaited
  <2>3. /\ Counted(q) /\ RunsOwned(q) /\ TasksRun(q)
        /\ LineOrder(q) /\ Full(q)
    BY <1>6 DEF IInv, Core
  <2>4. s \in Chats /\ Home(s) = s
    BY <1>1, <2>1, <2>2, <2>3, QueueAssumption DEF TasksRun, Slots, Home
  <2> DEFINE n == q.activeCount - 1
             p == Release(q, s)
             stale == q.process[s] # NoAgent /\ s \in q.unread
             un == IF stale THEN q.unread \ {s} ELSE q.unread
             pm == IF stale THEN q.pendingMessages \cup {s}
                   ELSE q.pendingMessages
             r == [p EXCEPT !.idleWaiting = @ \ {s}, !.unread = un,
                            !.pendingMessages = pm]
  <2>5. n \in Int /\ un \in SUBSET Chats /\ pm \in SUBSET Chats
    BY <1>4, <2>4 DEF QueueStates
  <2>6. p = [q EXCEPT !.active = @ \ {s}, !.process[s] = NoAgent,
                      !.activeCount = n]
    BY DEF Release
  <2>7. n = q.activeCount - 1
    OBVIOUS
  <2>8. OnExit(q, s) = DrainGroup(r, s)
    <3>1. p.unread = q.unread /\ p.pendingMessages = q.pendingMessages
      BY <1>4 DEF Release, QueueStates
    <3> QED BY <1>8, <2>4, <3>1 DEF OnExit
  <2> HIDE DEF n, p, stale, un, pm
  <2>9. /\ p \in QueueStates
        /\ p.active = q.active \ {s} /\ p.activeCount = n
        /\ p.waitingSlots = q.waitingSlots /\ p.shuttingDown = q.shuttingDown
        /\ p.phase = q.phase /\ p.direct = q.direct
    BY <1>4, <2>5, <2>6 DEF QueueStates
  <2>10. /\ r \in QueueStates
         /\ r.active = p.active /\ r.activeCount = p.activeCount
         /\ r.waitingSlots = p.waitingSlots /\ r.shuttingDown = p.shuttingDown
         /\ r.phase = p.phase /\ r.direct = p.direct
    BY <2>5, <2>9 DEF QueueStates
  <2> HIDE DEF r
  <2>11. DrainGroup(r, s).laneless = {} => IInv(DrainGroup(r, s))
    BY <1>4, <2>1, <2>2, <2>3, <2>4, <2>7, <2>9, <2>10, ReleasedDrains
  <2> QED BY <1>1, <2>8, <2>11, StepKeeps
<1> QED BY <1>7, <1>8

(* The backoff timer is an enqueueMessageCheck.                            *)
LEMMA RetryTimerKeeps ==
  ASSUME IInv(queue), NEW g \in Chats, NEW more, RetryTimer(g, more)
  PROVE  IInv(queue')
<1> DEFINE armed == IF more THEN queue.retryTimers ELSE queue.retryTimers \ {g}
           q == [queue EXCEPT !.retryTimers = armed]
<1>1. queue \in QueueStates /\ Step(EnqueueMessageCheck(q, g))
  BY DEF RetryTimer, IInv, Core
<1>2. armed \in SUBSET Chats
  BY <1>1 DEF QueueStates
<1> HIDE DEF armed
<1>3. /\ q \in QueueStates /\ q.active = queue.active
      /\ q.activeCount = queue.activeCount
      /\ q.waitingSlots = queue.waitingSlots
      /\ q.shuttingDown = queue.shuttingDown
      /\ q.direct = queue.direct /\ q.phase = queue.phase
  BY <1>1, <1>2 DEF QueueStates
<1> HIDE DEF q
<1>4. \A b \in Agents : InFlight(q, b) <=> InFlight(queue, b)
  BY <1>3 DEF InFlight
<1>5. IInv(q)
  BY <1>3, <1>4, IInvSame DEF IInv, Core, RunsOwned
<1> QED BY <1>1, <1>5, EnqueueMessageCheckKeeps, StepKeeps

(* An abort, a recycled agent, a read of the inbox and the shutdown touch  *)
(* neither the slots nor the line.                                         *)
LEMMA SignalsKeep ==
  ASSUME IInv(queue),
         \/ \E g \in Chats : KillActive(g) \/ Recycle(g) \/ AgentReads(g)
         \/ Shutdown
  PROVE  IInv(queue')
<1>0. queue \in QueueStates
  BY DEF IInv, Core
<1>1. \E un \in SUBSET Chats, pm \in SUBSET Chats, kl \in SUBSET Agents,
         sd \in BOOLEAN :
         /\ queue.shuttingDown => sd
         /\ Step([queue EXCEPT !.unread = un, !.pendingMessages = pm,
                               !.killed = kl, !.shuttingDown = sd])
  <2> DEFINE R(un, pm, kl, sd) ==
               [queue EXCEPT !.unread = un, !.pendingMessages = pm,
                             !.killed = kl, !.shuttingDown = sd]
  <2>1. ASSUME NEW g \in Chats, KillActive(g)
        PROVE  \E un \in SUBSET Chats, pm \in SUBSET Chats, kl \in SUBSET Agents :
                  Step(R(un, pm, kl, queue.shuttingDown))
    <3> DEFINE un == IF queue.process[g] # NoAgent THEN queue.unread \ {g}
                     ELSE queue.unread
               pm == queue.pendingMessages \ {g}
               kl == queue.killed \cup ({queue.process[g]} \ {NoAgent})
               r == [queue EXCEPT !.unread = un, !.pendingMessages = pm,
                                  !.killed = kl]
    <3>1. Step(r)
      BY <2>1 DEF KillActive
    <3>2. un \in SUBSET Chats /\ pm \in SUBSET Chats /\ kl \in SUBSET Agents
      BY <1>0 DEF QueueStates, Slots
    <3> HIDE DEF un, pm, kl
    <3>3. r = R(un, pm, kl, queue.shuttingDown)
      BY <1>0 DEF QueueStates
    <3> QED BY <3>1, <3>2, <3>3
  <2>2. ASSUME NEW g \in Chats, Recycle(g)
        PROVE  \E pm \in SUBSET Chats :
                  Step(R(queue.unread, pm, queue.killed, queue.shuttingDown))
    <3> DEFINE pm == queue.pendingMessages \cup {g}
               r == [queue EXCEPT !.pendingMessages = pm]
    <3>1. Step(r)
      BY <2>2 DEF Recycle
    <3>2. pm \in SUBSET Chats
      BY <1>0 DEF QueueStates
    <3> HIDE DEF pm
    <3>3. r = R(queue.unread, pm, queue.killed, queue.shuttingDown)
      BY <1>0 DEF QueueStates
    <3> QED BY <3>1, <3>2, <3>3
  <2>3. ASSUME NEW g \in Chats, AgentReads(g)
        PROVE  \E un \in SUBSET Chats :
                  Step(R(un, queue.pendingMessages, queue.killed,
                         queue.shuttingDown))
    <3> DEFINE un == queue.unread \ {g}
               r == [queue EXCEPT !.unread = un]
    <3>1. Step(r)
      BY <2>3 DEF AgentReads
    <3>2. un \in SUBSET Chats
      BY <1>0 DEF QueueStates
    <3> HIDE DEF un
    <3>3. r = R(un, queue.pendingMessages, queue.killed, queue.shuttingDown)
      BY <1>0 DEF QueueStates
    <3> QED BY <3>1, <3>2, <3>3
  <2>4. ASSUME Shutdown
        PROVE  Step(R(queue.unread, queue.pendingMessages, queue.killed, TRUE))
    <3> DEFINE r == [queue EXCEPT !.shuttingDown = TRUE]
    <3>1. Step(r)
      BY <2>4 DEF Shutdown
    <3>2. r = R(queue.unread, queue.pendingMessages, queue.killed, TRUE)
      BY <1>0 DEF QueueStates
    <3> QED BY <3>1, <3>2
  <2>5. /\ queue.unread \in SUBSET Chats /\ queue.pendingMessages \in SUBSET Chats
        /\ queue.killed \in SUBSET Agents /\ queue.shuttingDown \in BOOLEAN
    BY <1>0 DEF QueueStates
  <2> QED BY <2>1, <2>2, <2>3, <2>4, <2>5
<1>2. PICK un \in SUBSET Chats, pm \in SUBSET Chats, kl \in SUBSET Agents,
           sd \in BOOLEAN :
         /\ queue.shuttingDown => sd
         /\ Step([queue EXCEPT !.unread = un, !.pendingMessages = pm,
                               !.killed = kl, !.shuttingDown = sd])
  BY <1>1
<1> DEFINE r == [queue EXCEPT !.unread = un, !.pendingMessages = pm,
                              !.killed = kl, !.shuttingDown = sd]
<1>3. Step(r)
  BY <1>2
<1>4. /\ r \in QueueStates /\ r.active = queue.active
      /\ r.activeCount = queue.activeCount
      /\ r.waitingSlots = queue.waitingSlots
      /\ r.shuttingDown = sd
      /\ r.direct = queue.direct /\ r.phase = queue.phase
  BY <1>0 DEF QueueStates
<1> HIDE DEF r
<1>5. \A b \in Agents : InFlight(r, b) <=> InFlight(queue, b)
  BY <1>4 DEF InFlight
<1> QED BY <1>2, <1>3, <1>4, <1>5, QuietStepKeeps

(* The invariant holds of a new queue.                                     *)
LEMMA InitIInv == Init => IInv(queue)
<1> SUFFICES ASSUME Init PROVE IInv(queue)
  OBVIOUS
<1>1. queue \in QueueStates
  BY QueueAssumption DEF Init, QueueStates, Phases, Slots
<1>2. /\ queue.active = {} /\ queue.activeCount = 0 /\ queue.direct = {}
      /\ queue.waitingSlots = << >>
      /\ \A a \in Agents : queue.phase[a] = "free"
  BY DEF Init
<1>3. Counted(queue)
  BY <1>2, FS_EmptySet, QueueAssumption DEF Counted
<1>4. RunsOwned(queue) /\ TasksRun(queue)
  BY <1>2 DEF RunsOwned, TasksRun, InFlight
<1> QED BY <1>1, <1>2, <1>3, <1>4 DEF IInv, Core, LineOrder, Full

(* Every step preserves the invariant.                                     *)
LEMMA NextIInv ==
  ASSUME Overlaps = {}, IInv(queue), [Next]_queue
  PROVE  IInv(queue')
<1>1. ASSUME NEW g \in Chats, NEW written \in BOOLEAN, InboundMessage(g, written)
      PROVE  IInv(queue')
  BY <1>1, InboundMessageKeeps
<1>2. ASSUME NEW t \in Tasks, EnqueueTask(t)
      PROVE  IInv(queue')
  BY <1>2, EnqueueTaskKeeps
<1>3. ASSUME NEW a \in Agents, RunStep(a)
      PROVE  IInv(queue')
  <2>1. CASE RegisterProcess(a)
    BY <2>1, RegisterProcessKeeps
  <2>2. ASSUME NEW success \in BOOLEAN, QueryDone(a, success) \/ Finish(a, success)
        PROVE  IInv(queue')
    BY <2>2, QueryDoneKeeps, FinishKeeps
  <2>3. CASE FinishDirect(a)
    BY <2>3, FinishDirectKeeps
  <2>4. CASE FinishTask(a)
    BY <2>4, FinishTaskKeeps
  <2> QED BY <1>3, <2>1, <2>2, <2>3, <2>4 DEF RunStep
<1>4. ASSUME NEW a \in Agents, NEW text \in BOOLEAN, NEW success \in BOOLEAN,
             Output(a, text, success)
      PROVE  IInv(queue')
  BY <1>4, OutputKeeps
<1>5. ASSUME NEW a \in Agents, NEW written \in BOOLEAN, DeliveryRetry(a, written)
      PROVE  IInv(queue')
  BY <1>5, DeliveryRetryKeeps
<1>6. ASSUME NEW a \in Agents, NEW code \in BOOLEAN, Exit(a, code)
      PROVE  IInv(queue')
  BY <1>6, ExitKeeps
<1>7. ASSUME NEW g \in Chats, NEW more \in BOOLEAN, RetryTimer(g, more)
      PROVE  IInv(queue')
  BY <1>7, RetryTimerKeeps
<1>8. ASSUME \/ \E g \in Chats : KillActive(g) \/ Recycle(g) \/ AgentReads(g)
             \/ Shutdown
      PROVE  IInv(queue')
  BY <1>8, SignalsKeep
<1>9. CASE UNCHANGED queue
  BY <1>9 DEF IInv, Core, Counted, RunsOwned, TasksRun, InFlight, LineOrder, Full
<1> QED BY <1>1, <1>2, <1>3, <1>4, <1>5, <1>6, <1>7, <1>8, <1>9 DEF Next

(* While no exit listener and no clean-up of sendMessage overlaps an       *)
(* awaited run, the inductive invariant holds in every reachable state.    *)
THEOREM Invariance == ASSUME Overlaps = {} PROVE Spec => []IInv(queue)
<1>1. Init => IInv(queue)
  BY InitIInv
<1>2. IInv(queue) /\ [Next]_queue => IInv(queue)'
  BY NextIInv
<1> QED BY <1>1, <1>2, PTL DEF Spec

(* Without such overlaps no slot is released twice, whatever the number of *)
(* chats, tasks and capacity: the counter is the number of active slots.   *)
THEOREM CounterExact == ASSUME Overlaps = {} PROVE Spec => []SlotAccounting
<1>1. IInv(queue) => SlotAccounting
  BY DEF IInv, Core, Counted, SlotAccounting
<1> QED BY <1>1, Invariance, PTL

(* Without such overlaps MAX_CONCURRENT_CONTAINERS is never exceeded, and  *)
(* the counter that holds it is right.                                     *)
THEOREM CapHolds == ASSUME Overlaps = {} PROVE Spec => []CapHeld
<1>1. IInv(queue) => CapHeld
  BY DEF IInv, Core, Counted, CapHeld, SlotAccounting, CapRespected
<1> QED BY <1>1, Invariance, PTL

(* Without such overlaps a slot waits only while the cap is reached.       *)
THEOREM NoIdleCapacity == ASSUME Overlaps = {} PROVE Spec => []WorkConserving
<1>1. IInv(queue) => WorkConserving
  BY DEF IInv, Full, WorkConserving
<1> QED BY <1>1, Invariance, PTL

(* Without such overlaps a slot has one awaited run at most, and is active *)
(* for as long as it has one.                                              *)
THEOREM RunsExclusive == ASSUME Overlaps = {} PROVE Spec => []OneRunPerSlot
<1>1. ASSUME IInv(queue), NEW s \in Slots
      PROVE  /\ Cardinality(Awaited(queue, s)) <= 1
             /\ Awaited(queue, s) # {} => s \in queue.active
  <2> DEFINE A == Awaited(queue, s)
  <2>1. \A a, b \in A : a = b
    BY <1>1 DEF IInv, Core, RunsOwned, Awaited
  <2>2. A # {} => s \in queue.active
    BY <1>1 DEF IInv, Core, RunsOwned, Awaited
  <2>3. A = {} \/ \E a : A = {a}
    BY <2>1
  <2> HIDE DEF A
  <2>4. Cardinality(A) <= 1
    <3> DEFINE c == Cardinality(A)
    <3>1. c = 0 \/ c = 1
      BY <2>3, FS_EmptySet, FS_Singleton
    <3> HIDE DEF c
    <3> QED BY <3>1 DEF c
  <2> QED BY <2>2, <2>4 DEF A
<1>2. IInv(queue) => OneRunPerSlot
  BY <1>1 DEF OneRunPerSlot
<1> QED BY <1>2, Invariance, PTL

-----------------------------------------------------------------------------
(* What is put off is remembered.  This needs nothing of the counter and   *)
(* holds under every overlap: each operator that takes a chat's activity   *)
(* away hands its pending check on in the same turn.                       *)

(* No slot stands in the line twice.                                       *)
OnceInLine(q) ==
  \A i, j \in 1..Len(q.waitingSlots) :
    q.waitingSlots[i] = q.waitingSlots[j] => i = j

(* The checks put off of all chats but those of G are remembered, and so   *)
(* is every parked task.                                                   *)
RememberedBut(q, G) ==
  /\ q \in QueueStates
  /\ OnceInLine(q)
  /\ q.shuttingDown \/ q.pendingMessages \ q.active \subseteq Waiting(q) \cup G
  /\ q.waitingTaskFns = Waiting(q) \cap Tasks

Remembered(q) == RememberedBut(q, {})

(* What it reads.                                                          *)
LEMMA RememberedSame ==
  ASSUME NEW q, NEW G, NEW H, RememberedBut(q, G), NEW r \in QueueStates,
         r.waitingSlots = q.waitingSlots, r.waitingTaskFns = q.waitingTaskFns,
         q.shuttingDown => r.shuttingDown,
         r.pendingMessages \ r.active
           \subseteq (q.pendingMessages \ q.active) \cup H
  PROVE  RememberedBut(r, G \cup H)
BY DEF RememberedBut, OnceInLine, Waiting

LEMMA TakeLanesFields ==
  ASSUME NEW q \in QueueStates, NEW W \in SUBSET Slots
  PROVE  LET r == TakeLanes(q, W) IN
         /\ r \in QueueStates
         /\ r.active = q.active /\ r.pendingMessages = q.pendingMessages
         /\ r.waitingSlots = q.waitingSlots
         /\ r.waitingTaskFns = q.waitingTaskFns
         /\ r.shuttingDown = q.shuttingDown
<1>1. TakeLanes(q, W) \in QueueStates
  BY TakeLanesType
<1>2. \A ph, di, de, co, ki, la :
        LET r == [q EXCEPT !.phase = ph, !.direct = di, !.dead = de,
                           !.coded = co, !.killed = ki, !.laneless = la]
        IN  /\ r.active = q.active /\ r.pendingMessages = q.pendingMessages
            /\ r.waitingSlots = q.waitingSlots
            /\ r.waitingTaskFns = q.waitingTaskFns
            /\ r.shuttingDown = q.shuttingDown
  BY DEF QueueStates
<1> QED BY <1>1, <1>2 DEF TakeLanes

(* Slots that start have what they put off taken up.                       *)
LEMMA StartRunsFields ==
  ASSUME NEW q \in QueueStates, NEW W \in SUBSET Slots
  PROVE  LET r == StartRuns(q, W) IN
         /\ r \in QueueStates
         /\ r.active = q.active \cup W
         /\ r.pendingMessages = q.pendingMessages \ W
         /\ r.waitingSlots = q.waitingSlots
         /\ r.waitingTaskFns = q.waitingTaskFns
         /\ r.shuttingDown = q.shuttingDown
<1> DEFINE k == TakeLanes(q, W)
           r == [k EXCEPT
                  !.active = @ \cup W,
                  !.idleWaiting = @ \ W,
                  !.pendingMessages = @ \ W,
                  !.piped = @ \ W,
                  !.agentHasOutput = @ \ W,
                  !.activeCount = @ + Cardinality(W)]
<1>1. r = StartRuns(q, W)
  BY DEF StartRuns
<1>2. /\ k \in QueueStates
      /\ k.active = q.active /\ k.pendingMessages = q.pendingMessages
      /\ k.waitingSlots = q.waitingSlots
      /\ k.waitingTaskFns = q.waitingTaskFns
      /\ k.shuttingDown = q.shuttingDown
  BY TakeLanesFields
<1> HIDE DEF k
<1>3. /\ r.active = k.active \cup W
      /\ r.pendingMessages = k.pendingMessages \ W
      /\ r.waitingSlots = k.waitingSlots
      /\ r.waitingTaskFns = k.waitingTaskFns
      /\ r.shuttingDown = k.shuttingDown
  BY <1>2 DEF QueueStates
<1>4. StartRuns(q, W) \in QueueStates
  BY StartRunsType
<1> HIDE DEF r
<1> QED BY <1>1, <1>2, <1>3, <1>4

LEMMA StartDirectFields ==
  ASSUME NEW q \in QueueStates, NEW g \in Chats
  PROVE  LET r == StartDirect(q, g) IN
         /\ r \in QueueStates
         /\ r.active = q.active
         /\ r.pendingMessages = q.pendingMessages \ {g}
         /\ r.waitingSlots = q.waitingSlots
         /\ r.waitingTaskFns = q.waitingTaskFns
         /\ r.shuttingDown = q.shuttingDown
<1> DEFINE p == [q EXCEPT !.pendingMessages = @ \ {g}]
           k == TakeLanes(p, {g})
           new == {a \in Agents : q.phase[a] = "free" /\ k.phase[a] = "starting"}
           r == [k EXCEPT !.direct = @ \cup new]
<1>1. r = StartDirect(q, g)
  BY DEF StartDirect
<1>2. /\ p \in QueueStates
      /\ p.active = q.active /\ p.pendingMessages = q.pendingMessages \ {g}
      /\ p.waitingSlots = q.waitingSlots
      /\ p.waitingTaskFns = q.waitingTaskFns
      /\ p.shuttingDown = q.shuttingDown
  BY DEF QueueStates
<1> HIDE DEF p
<1>3. {g} \in SUBSET Slots
  BY DEF Slots
<1>4. /\ k \in QueueStates
      /\ k.active = p.active /\ k.pendingMessages = p.pendingMessages
      /\ k.waitingSlots = p.waitingSlots
      /\ k.waitingTaskFns = p.waitingTaskFns
      /\ k.shuttingDown = p.shuttingDown
  BY <1>2, <1>3, TakeLanesFields
<1>5. new \in SUBSET Agents
  OBVIOUS
<1> HIDE DEF k, new
<1>6. /\ r \in QueueStates
      /\ r.active = k.active /\ r.pendingMessages = k.pendingMessages
      /\ r.waitingSlots = k.waitingSlots
      /\ r.waitingTaskFns = k.waitingTaskFns
      /\ r.shuttingDown = k.shuttingDown
  BY <1>4, <1>5 DEF QueueStates
<1> HIDE DEF r
<1> QED BY <1>1, <1>2, <1>4, <1>6

LEMMA ReleaseFields ==
  ASSUME NEW q \in QueueStates, NEW s \in Slots
  PROVE  LET r == Release(q, s) IN
         /\ r \in QueueStates
         /\ r.active = q.active \ {s}
         /\ r.idleWaiting = q.idleWaiting /\ r.unread = q.unread
         /\ r.pendingMessages = q.pendingMessages
         /\ r.waitingSlots = q.waitingSlots
         /\ r.waitingTaskFns = q.waitingTaskFns
         /\ r.shuttingDown = q.shuttingDown
<1> DEFINE n == q.activeCount - 1
           r == [q EXCEPT !.active = @ \ {s}, !.process[s] = NoAgent,
                          !.activeCount = n]
<1>1. r = Release(q, s)
  BY DEF Release
<1>2. n \in Int
  BY DEF QueueStates
<1> HIDE DEF n
<1>3. /\ r \in QueueStates
      /\ r.active = q.active \ {s}
      /\ r.idleWaiting = q.idleWaiting /\ r.unread = q.unread
      /\ r.pendingMessages = q.pendingMessages
      /\ r.waitingSlots = q.waitingSlots
      /\ r.waitingTaskFns = q.waitingTaskFns
      /\ r.shuttingDown = q.shuttingDown
  BY <1>2 DEF QueueStates
<1> HIDE DEF r
<1> QED BY <1>1, <1>3

(* drainWaiting drops a slot from the line only if it starts it or has     *)
(* nothing put off for it.                                                 *)
LEMMA DrainWaitingRemembers ==
  ASSUME NEW q, Remembered(q)
  PROVE  Remembered(DrainWaiting(q))
<1> DEFINE line == q.waitingSlots
           len == Len(line)
           n == Shifted(q)
           W == Started(q, n)
           k == StartRuns(q, W)
           rest == SubSeq(k.waitingSlots, n + 1, Len(k.waitingSlots))
           fns == k.waitingTaskFns \ W
           r == [k EXCEPT !.waitingSlots = rest, !.waitingTaskFns = fns]
<1>0. q \in QueueStates /\ line \in Seq(Slots) /\ len \in Nat
  BY DEF Remembered, RememberedBut, QueueStates
<1>1. n \in 0..len /\ W \in SUBSET Slots
  BY <1>0, ShiftedExists, StartedSubset
<1>2. r = DrainWaiting(q)
  <2>1. k.waitingTaskFns \ W = fns
    OBVIOUS
  <2> QED BY DEF DrainWaiting
<1>3. /\ k \in QueueStates
      /\ k.active = q.active \cup W
      /\ k.pendingMessages = q.pendingMessages \ W
      /\ k.waitingSlots = line
      /\ k.waitingTaskFns = q.waitingTaskFns
      /\ k.shuttingDown = q.shuttingDown
  BY <1>0, <1>1, StartRunsFields
<1>4. /\ rest \in Seq(Slots) /\ Len(rest) = len - n
      /\ \A i \in 1..(len - n) : rest[i] = line[n + i]
  <2>1. rest = SubSeq(line, n + 1, len)
    BY <1>3
  <2>2. \A i \in (n + 1)..len : line[i] \in Slots
    BY <1>0, <1>1
  <2>3. n + 1 \in Int /\ len \in Int
    BY <1>0, <1>1
  <2> HIDE DEF rest, line, len, n
  <2> DEFINE a == n + 1
  <2>4. /\ SubSeq(line, a, len) \in Seq(Slots)
        /\ Len(SubSeq(line, a, len)) = (IF a <= len THEN len - a + 1 ELSE 0)
        /\ \A i \in 1..(len - a + 1) : SubSeq(line, a, len)[i] = line[a + i - 1]
    <3>1. a \in Int /\ len \in Int /\ \A i \in a..len : line[i] \in Slots
      BY <2>2, <2>3
    <3> HIDE DEF a
    <3> QED BY <3>1, SubSeqProperties
  <2>5. len \in Nat /\ n \in 0..len
    BY <1>0, <1>1
  <2>6. (IF a <= len THEN len - a + 1 ELSE 0) = len - n
        /\ \A i \in 1..(len - n) : i \in 1..(len - a + 1) /\ a + i - 1 = n + i
    BY <2>5
  <2> HIDE DEF a
  <2> QED BY <2>1, <2>4, <2>6 DEF a
<1> HIDE DEF k, rest
<1>5. /\ r \in QueueStates
      /\ r.active = k.active /\ r.pendingMessages = k.pendingMessages
      /\ r.waitingSlots = rest /\ r.waitingTaskFns = fns
      /\ r.shuttingDown = k.shuttingDown
  <2>1. fns \in SUBSET Tasks
    BY <1>3 DEF QueueStates
  <2> HIDE DEF fns, W
  <2> QED BY <1>3, <1>4, <2>1 DEF QueueStates
<1> HIDE DEF r
<1>6. OnceInLine(r)
  <2>1. \A i \in 1..(len - n) : n + i \in 1..len
    BY <1>0, <1>1
  <2>2. \A i, j \in 1..(len - n) : n + i = n + j => i = j
    BY <1>0, <1>1
  <2>3. \A i, j \in 1..(len - n) : rest[i] = rest[j] => n + i = n + j
    BY <1>4, <2>1 DEF Remembered, RememberedBut, OnceInLine
  <2> QED BY <1>4, <1>5, <2>2, <2>3 DEF OnceInLine
(* A slot of the line waits on, or was shifted.                            *)
<1>7. \A s \in Waiting(q) : s \in Waiting(r) \/ \E i \in 1..n : s = line[i]
  <2> SUFFICES ASSUME NEW j \in 1..len, \A i \in 1..n : line[j] # line[i]
               PROVE  line[j] \in Waiting(r)
    BY <1>0 DEF Waiting
  <2>1. j - n \in 1..(len - n) /\ n + (j - n) = j
    BY <1>0, <1>1
  <2>2. rest[j - n] = line[j]
    BY <1>4, <2>1
  <2>3. j - n \in DOMAIN rest
    BY <1>4, <2>1
  <2> QED BY <1>5, <2>2, <2>3 DEF Waiting
<1>8. \A s \in Waiting(r) : s \in Waiting(q) /\ \A i \in 1..n : s # line[i]
  <2> SUFFICES ASSUME NEW j \in 1..(len - n)
               PROVE  /\ rest[j] \in Waiting(q)
                      /\ \A i \in 1..n : rest[j] # line[i]
    BY <1>4, <1>5 DEF Waiting
  <2>1. n + j \in 1..len /\ \A i \in 1..n : i \in 1..len /\ i # n + j
    BY <1>0, <1>1
  <2>2. rest[j] = line[n + j]
    BY <1>4
  <2>3. rest[j] \in Waiting(q)
    BY <1>0, <2>1, <2>2 DEF Waiting
  <2> QED BY <2>1, <2>2, <2>3 DEF Remembered, RememberedBut, OnceInLine
<1>9. \A s : s \in W <=> (\E i \in 1..n : s = line[i]) /\ s \in Work(q)
  BY DEF Started
<1>10. r.shuttingDown \/ r.pendingMessages \ r.active \subseteq Waiting(r)
  <2> SUFFICES ASSUME ~q.shuttingDown, NEW g \in r.pendingMessages \ r.active
               PROVE  g \in Waiting(r)
    BY <1>3, <1>5
  <2>1. g \in q.pendingMessages /\ g \notin q.active /\ g \notin W
    BY <1>3, <1>5
  <2>2. g \in Waiting(q) /\ g \in Work(q)
    BY <2>1 DEF Remembered, RememberedBut, Work
  <2> QED BY <1>7, <1>9, <2>1, <2>2
<1>11. r.waitingTaskFns = Waiting(r) \cap Tasks
  <2>1. q.waitingTaskFns = Waiting(q) \cap Tasks
    BY DEF Remembered, RememberedBut
  <2>2. r.waitingTaskFns = q.waitingTaskFns \ W
    BY <1>3, <1>5
  <2>3. \A t \in q.waitingTaskFns : t \in Work(q)
    BY DEF Work
  <2> HIDE DEF W
  <2> QED BY <1>7, <1>8, <1>9, <2>1, <2>2, <2>3
<1>12. Remembered(r)
  BY <1>5, <1>6, <1>10, <1>11 DEF Remembered, RememberedBut
<1> QED BY <1>2, <1>12

(* drainGroup hands the check of its own chat on, whatever it was told to  *)
(* remember of it.                                                         *)
LEMMA DrainGroupRemembers ==
  ASSUME NEW q, NEW g \in Chats, RememberedBut(q, {g})
  PROVE  Remembered(DrainGroup(q, g))
<1>0. q \in QueueStates
  BY DEF RememberedBut
<1>1. ASSUME NEW r \in QueueStates,
             r.active \in {q.active, q.active \cup {g}},
             r.pendingMessages = q.pendingMessages \ {g},
             r.waitingSlots = q.waitingSlots,
             r.waitingTaskFns = q.waitingTaskFns,
             r.shuttingDown = q.shuttingDown
      PROVE  Remembered(r)
  BY <1>1 DEF Remembered, RememberedBut, OnceInLine, Waiting
<1>2. CASE q.shuttingDown
  BY <1>2 DEF DrainGroup, Remembered, RememberedBut
<1>3. CASE ~q.shuttingDown /\ g \notin q.pendingMessages
  <2>1. Remembered(q)
    BY <1>3 DEF Remembered, RememberedBut
  <2>2. DrainGroup(q, g) = DrainWaiting(q)
    BY <1>3 DEF DrainGroup
  <2> QED BY <2>1, <2>2, DrainWaitingRemembers
<1>4. CASE ~q.shuttingDown /\ g \in q.pendingMessages
  <2>1. \/ DrainGroup(q, g) = StartDirect(q, g)
        \/ DrainGroup(q, g) = StartRuns(q, {g})
    BY <1>4 DEF DrainGroup
  <2>2. Remembered(StartDirect(q, g))
    BY <1>0, <1>1, StartDirectFields
  <2>3. {g} \in SUBSET Slots
    BY DEF Slots
  <2>4. Remembered(StartRuns(q, {g}))
    BY <1>0, <1>1, <2>3, StartRunsFields
  <2> QED BY <2>1, <2>2, <2>4
<1> QED BY <1>2, <1>3, <1>4

(* A slot that joins the line stands in it once.                           *)
LEMMA ParkFields ==
  ASSUME NEW q \in QueueStates, OnceInLine(q), NEW s \in Slots
  PROVE  LET r == Park(q, s) IN
         /\ r \in QueueStates /\ OnceInLine(r)
         /\ Waiting(r) = Waiting(q) \cup {s}
         /\ r.active = q.active /\ r.pendingMessages = q.pendingMessages
         /\ r.waitingTaskFns = q.waitingTaskFns
         /\ r.shuttingDown = q.shuttingDown
<1> DEFINE line == IF s \in Waiting(q) THEN q.waitingSlots
                   ELSE Append(q.waitingSlots, s)
           r == [q EXCEPT !.waitingSlots = line]
<1>0. q.waitingSlots \in Seq(Slots)
  BY DEF QueueStates
<1>1. r = Park(q, s)
  BY DEF Park
<1>2. /\ line \in Seq(Slots)
      /\ \A i, j \in 1..Len(line) : line[i] = line[j] => i = j
      /\ {line[i] : i \in DOMAIN line} = Waiting(q) \cup {s}
  <2>1. CASE s \in Waiting(q)
    BY <1>0, <2>1 DEF OnceInLine, Waiting
  <2>2. CASE s \notin Waiting(q)
    <3>1. \A i \in 1..Len(q.waitingSlots) : q.waitingSlots[i] # s
      BY <1>0, <2>2 DEF Waiting
    <3>2. line = Append(q.waitingSlots, s)
      BY <2>2
    <3> HIDE DEF line
    <3>3. line \in Seq(Slots) /\ Len(line) = Len(q.waitingSlots) + 1
      BY <1>0, <3>2
    <3>4. /\ \A i \in 1..Len(q.waitingSlots) : line[i] = q.waitingSlots[i]
          /\ line[Len(q.waitingSlots) + 1] = s
      BY <1>0, <3>2
    <3>5. \A i, j \in 1..Len(line) : line[i] = line[j] => i = j
      <4> DEFINE n == Len(q.waitingSlots)
      <4>1. n \in Nat /\ \A i \in 1..(n + 1) : i \in 1..n \/ i = n + 1
        BY <1>0
      <4>2. \A i, j \in 1..n : line[i] = line[j] => i = j
        BY <3>4 DEF OnceInLine
      <4>3. \A i \in 1..n : line[i] # line[n + 1]
        BY <3>1, <3>4
      <4> HIDE DEF n
      <4> QED BY <3>3, <4>1, <4>2, <4>3 DEF n
    <3>6. {line[i] : i \in DOMAIN line} = Waiting(q) \cup {s}
      <4> DEFINE n == Len(q.waitingSlots)
      <4>1. /\ DOMAIN line = 1..(n + 1) /\ DOMAIN q.waitingSlots = 1..n
            /\ n \in Nat
        BY <1>0, <3>3
      <4>2. \A i : i \in 1..(n + 1) <=> i \in 1..n \/ i = n + 1
        BY <4>1
      <4>3. line[n + 1] = s /\ \A i \in 1..n : line[i] = q.waitingSlots[i]
        BY <3>4
      <4> DEFINE m == n + 1
      <4> HIDE DEF n, m
      <4>4. \A x : x \in {line[i] : i \in DOMAIN line}
                   <=> (\E i \in 1..n : x = line[i]) \/ x = line[m]
        <5>1. DOMAIN line = 1..m /\ \A i : i \in 1..m <=> i \in 1..n \/ i = m
          BY <4>1, <4>2 DEF m
        <5> QED BY <5>1
      <4>5. \A x : x \in Waiting(q) <=> \E i \in 1..n : x = line[i]
        BY <4>1, <4>3 DEF Waiting
      <4> QED BY <4>3, <4>4, <4>5 DEF m
    <3> QED BY <3>3, <3>5, <3>6
  <2> QED BY <2>1, <2>2
<1> HIDE DEF line
<1>3. /\ r \in QueueStates /\ r.waitingSlots = line
      /\ r.active = q.active /\ r.pendingMessages = q.pendingMessages
      /\ r.waitingTaskFns = q.waitingTaskFns
      /\ r.shuttingDown = q.shuttingDown
  BY <1>0, <1>2 DEF QueueStates
<1> HIDE DEF r
<1>4. OnceInLine(r)
  BY <1>2, <1>3 DEF OnceInLine
<1>5. Waiting(r) = {line[i] : i \in DOMAIN line}
  BY <1>3 DEF Waiting
<1>6. Waiting(r) = Waiting(q) \cup {s}
  BY <1>2, <1>5
<1> QED BY <1>1, <1>3, <1>4, <1>6

(* enqueueMessageCheck records the check of an active chat, and parks the  *)
(* chat at the cap.                                                        *)
LEMMA EnqueueMessageCheckRemembers ==
  ASSUME NEW q, Remembered(q), NEW g \in Chats
  PROVE  Remembered(EnqueueMessageCheck(q, g))
<1> DEFINE P == q.pendingMessages \cup {g}
           p == [q EXCEPT !.pendingMessages = P]
<1>0. q \in QueueStates /\ OnceInLine(q) /\ g \in Slots /\ P \in SUBSET Chats
  BY DEF Remembered, RememberedBut, QueueStates, Slots
<1>1. /\ p \in QueueStates /\ OnceInLine(p) /\ Waiting(p) = Waiting(q)
      /\ p.active = q.active /\ p.pendingMessages = P
      /\ p.waitingTaskFns = q.waitingTaskFns
      /\ p.shuttingDown = q.shuttingDown
  <2> HIDE DEF P
  <2> QED BY <1>0 DEF QueueStates, OnceInLine, Waiting
<1>2. /\ q.shuttingDown \/ q.pendingMessages \ q.active \subseteq Waiting(q)
      /\ q.waitingTaskFns = Waiting(q) \cap Tasks
  BY DEF Remembered, RememberedBut
<1>3. p = [q EXCEPT !.pendingMessages = @ \cup {g}]
  OBVIOUS
<1> HIDE DEF p
<1>4. CASE q.shuttingDown
  BY <1>4 DEF EnqueueMessageCheck
<1>5. CASE ~q.shuttingDown /\ g \in q.active
  <2>1. EnqueueMessageCheck(q, g) = p
    BY <1>3, <1>5 DEF EnqueueMessageCheck
  <2> QED BY <1>1, <1>2, <1>5, <2>1 DEF Remembered, RememberedBut
<1>6. CASE ~q.shuttingDown /\ g \notin q.active /\ q.activeCount >= MaxConcurrent
  <2>1. EnqueueMessageCheck(q, g) = Park(p, g)
    BY <1>3, <1>6 DEF EnqueueMessageCheck
  <2> DEFINE r == Park(p, g)
  <2>2. /\ r \in QueueStates /\ OnceInLine(r)
        /\ Waiting(r) = Waiting(p) \cup {g}
        /\ r.active = p.active /\ r.pendingMessages = p.pendingMessages
        /\ r.waitingTaskFns = p.waitingTaskFns
        /\ r.shuttingDown = p.shuttingDown
    BY <1>0, <1>1, ParkFields
  <2> HIDE DEF r
  <2>3. Remembered(r)
    BY <1>1, <1>2, <2>2, QueueAssumption DEF Remembered, RememberedBut
  <2> QED BY <2>1, <2>3 DEF r
<1>7. CASE /\ ~q.shuttingDown /\ g \notin q.active
           /\ ~(q.activeCount >= MaxConcurrent)
  <2>1. EnqueueMessageCheck(q, g) = StartRuns(q, {g})
    BY <1>7 DEF EnqueueMessageCheck
  <2>2. {g} \in SUBSET Slots
    BY <1>0
  <2> DEFINE r == StartRuns(q, {g})
  <2>3. /\ r \in QueueStates
        /\ r.active = q.active \cup {g}
        /\ r.pendingMessages = q.pendingMessages \ {g}
        /\ r.waitingSlots = q.waitingSlots
        /\ r.waitingTaskFns = q.waitingTaskFns
        /\ r.shuttingDown = q.shuttingDown
    BY <1>0, <2>2, StartRunsFields
  <2> HIDE DEF r
  <2>4. Remembered(r)
    BY <1>0, <1>2, <2>3 DEF Remembered, RememberedBut, OnceInLine, Waiting
  <2> QED BY <2>1, <2>4 DEF r
<1> QED BY <1>4, <1>5, <1>6, <1>7

(* sendMessage's clean-up of an exited process hands the capacity on.      *)
LEMMA SendMessageRemembers ==
  ASSUME NEW q, Remembered(q), NEW g \in Chats, NEW written
  PROVE  Remembered(SendMessage(q, g, written))
<1>0. q \in QueueStates /\ g \in Slots
  BY DEF Remembered, RememberedBut, Slots
<1>1. CASE ~HasContainer(q, g)
  BY <1>1 DEF SendMessage
<1>2. CASE HasContainer(q, g) /\ ~Exited(q, g)
  <2> DEFINE r == SendMessage(q, g, written)
  <2>1. /\ r \in QueueStates /\ r.active = q.active
        /\ r.pendingMessages = q.pendingMessages
        /\ r.waitingSlots = q.waitingSlots
        /\ r.waitingTaskFns = q.waitingTaskFns
        /\ r.shuttingDown = q.shuttingDown
    <3>1. CASE written
      BY <1>0, <1>2, <3>1 DEF SendMessage, QueueStates
    <3>2. CASE ~written
      BY <1>0, <1>2, <3>2 DEF SendMessage, QueueStates
    <3> QED BY <3>1, <3>2
  <2> HIDE DEF r
  <2>2. Remembered(r)
    BY <2>1 DEF Remembered, RememberedBut, OnceInLine, Waiting
  <2> QED BY <2>2 DEF r
<1>3. CASE HasContainer(q, g) /\ Exited(q, g)
  <2> DEFINE p == Release(q, g)
             r == [p EXCEPT !.idleWaiting = @ \ {g},
                            !.pendingMessages = @ \cup {g}]
  <2>1. SendMessage(q, g, written) = DrainGroup(r, g)
    BY <1>3 DEF SendMessage
  <2>2. /\ p \in QueueStates /\ p.active = q.active \ {g}
        /\ p.pendingMessages = q.pendingMessages
        /\ p.waitingSlots = q.waitingSlots
        /\ p.waitingTaskFns = q.waitingTaskFns
        /\ p.shuttingDown = q.shuttingDown
    BY <1>0, ReleaseFields
  <2> HIDE DEF p
  <2>3. /\ r \in QueueStates /\ r.active = p.active
        /\ r.pendingMessages = p.pendingMessages \cup {g}
        /\ r.waitingSlots = p.waitingSlots
        /\ r.waitingTaskFns = p.waitingTaskFns
        /\ r.shuttingDown = p.shuttingDown
    BY <2>2 DEF QueueStates
  <2> HIDE DEF r
  <2>4. RememberedBut(r, {g})
    BY <2>2, <2>3 DEF Remembered, RememberedBut, OnceInLine, Waiting
  <2> QED BY <2>1, <2>4, DrainGroupRemembers
<1> QED BY <1>1, <1>2, <1>3

(* What a step establishes: the state it was given remembered everything.  *)
LEMMA StepRemembers ==
  ASSUME NEW q, Step(q), Remembered(q)
  PROVE  Remembered(queue')
<1> DEFINE known == {a \in Agents : ~FreeLane(q, a)}
           r == [q EXCEPT !.idleWaiting = @ \cap q.active,
                          !.piped = @ \cap q.active,
                          !.agentHasOutput = @ \cap q.active,
                          !.direct = @ \cap known,
                          !.dead = @ \cap known,
                          !.coded = @ \cap known,
                          !.killed = @ \cap known]
<1>0. q \in QueueStates
  BY DEF Remembered, RememberedBut
<1>1. queue' = r
  BY DEF Step, Tidy
<1>2. known \subseteq Agents
  OBVIOUS
<1> HIDE DEF known
<1>3. /\ r \in QueueStates /\ r.active = q.active
      /\ r.pendingMessages = q.pendingMessages
      /\ r.waitingSlots = q.waitingSlots
      /\ r.waitingTaskFns = q.waitingTaskFns
      /\ r.shuttingDown = q.shuttingDown
  BY <1>0, <1>2 DEF QueueStates
<1> HIDE DEF r
<1>4. Remembered(r)
  BY <1>3 DEF Remembered, RememberedBut, OnceInLine, Waiting
<1> QED BY <1>1, <1>4

(* A step that leaves the slots and the line alone and puts off no check   *)
(* of an inactive chat.                                                    *)
LEMMA QuietRemembers ==
  ASSUME Remembered(queue), NEW r \in QueueStates, Step(r),
         r.active = queue.active,
         r.waitingSlots = queue.waitingSlots,
         r.waitingTaskFns = queue.waitingTaskFns,
         queue.shuttingDown => r.shuttingDown,
         r.pendingMessages \subseteq queue.pendingMessages \cup queue.active
  PROVE  Remembered(queue')
<1>1. Remembered(r)
  BY DEF Remembered, RememberedBut, OnceInLine, Waiting
<1> QED BY <1>1, StepRemembers

LEMMA InboundMessageRemembers ==
  ASSUME Remembered(queue), NEW g \in Chats, NEW written,
         InboundMessage(g, written)
  PROVE  Remembered(queue')
<1> DEFINE q == SendMessage(queue, g, written)
           r == IF Piped(queue, g, written) THEN q ELSE EnqueueMessageCheck(q, g)
<1>1. Step(r)
  BY DEF InboundMessage
<1>2. Remembered(q)
  BY SendMessageRemembers
<1> HIDE DEF q
<1>3. Remembered(EnqueueMessageCheck(q, g))
  BY <1>2, EnqueueMessageCheckRemembers
<1>4. Remembered(r)
  BY <1>2, <1>3
<1> QED BY <1>1, <1>4, StepRemembers

(* A task parked at the cap is in the line, with its function.             *)
LEMMA EnqueueTaskRemembers ==
  ASSUME Remembered(queue), NEW t \in Tasks, EnqueueTask(t)
  PROVE  Remembered(queue')
<1> DEFINE p == [queue EXCEPT !.waitingTaskFns = @ \cup {t}]
           r == IF queue.activeCount >= MaxConcurrent THEN Park(p, t)
                ELSE StartRuns(queue, {t})
<1>0. /\ queue \in QueueStates /\ OnceInLine(queue) /\ t \in Slots
      /\ queue.shuttingDown \/
           queue.pendingMessages \ queue.active \subseteq Waiting(queue)
      /\ queue.waitingTaskFns = Waiting(queue) \cap Tasks
      /\ Step(r)
  BY DEF EnqueueTask, Remembered, RememberedBut, Slots
<1>1. CASE queue.activeCount >= MaxConcurrent
  <2>1. /\ p \in QueueStates /\ OnceInLine(p) /\ Waiting(p) = Waiting(queue)
        /\ p.active = queue.active /\ p.pendingMessages = queue.pendingMessages
        /\ p.waitingTaskFns = queue.waitingTaskFns \cup {t}
        /\ p.shuttingDown = queue.shuttingDown
    BY <1>0 DEF QueueStates, OnceInLine, Waiting
  <2>2. r = Park(p, t)
    BY <1>1
  <2> HIDE DEF p, r
  <2>3. /\ r \in QueueStates /\ OnceInLine(r)
        /\ Waiting(r) = Waiting(p) \cup {t}
        /\ r.active = p.active /\ r.pendingMessages = p.pendingMessages
        /\ r.waitingTaskFns = p.waitingTaskFns
        /\ r.shuttingDown = p.shuttingDown
    BY <1>0, <2>1, <2>2, ParkFields
  <2>4. Remembered(r)
    BY <1>0, <2>1, <2>3 DEF Remembered, RememberedBut
  <2> QED BY <1>0, <2>4, StepRemembers
<1>2. CASE ~(queue.activeCount >= MaxConcurrent)
  <2>1. r = StartRuns(queue, {t})
    BY <1>2
  <2>2. {t} \in SUBSET Slots
    BY <1>0
  <2> HIDE DEF r
  <2>3. /\ r \in QueueStates
        /\ r.active = queue.active \cup {t}
        /\ r.pendingMessages = queue.pendingMessages \ {t}
        /\ r.waitingSlots = queue.waitingSlots
        /\ r.waitingTaskFns = queue.waitingTaskFns
        /\ r.shuttingDown = queue.shuttingDown
    BY <1>0, <2>1, <2>2, StartRunsFields
  <2>4. r.pendingMessages \subseteq queue.pendingMessages
    BY <2>3
  <2>5. Remembered(r)
    BY <1>0, <2>3, <2>4 DEF Remembered, RememberedBut, OnceInLine, Waiting
  <2> QED BY <1>0, <2>5, StepRemembers
<1> QED BY <1>1, <1>2

(* A delivery retry is a sendMessage after two flags were reset.           *)
LEMMA DeliveryRetryRemembers ==
  ASSUME Remembered(queue), NEW a \in Agents, NEW written,
         DeliveryRetry(a, written)
  PROVE  Remembered(queue')
<1> DEFINE g == SlotOf(a)
           p == [queue EXCEPT !.piped = @ \ {g}, !.agentHasOutput = @ \ {g}]
<1>1. /\ queue \in QueueStates /\ g \in Chats
      /\ Step(SendMessage(p, g, written))
  BY DEF DeliveryRetry, Remembered, RememberedBut
<1> HIDE DEF g
<1>2. /\ p \in QueueStates /\ p.active = queue.active
      /\ p.pendingMessages = queue.pendingMessages
      /\ p.waitingSlots = queue.waitingSlots
      /\ p.waitingTaskFns = queue.waitingTaskFns
      /\ p.shuttingDown = queue.shuttingDown
  BY <1>1 DEF QueueStates
<1> HIDE DEF p
<1>3. Remembered(p)
  BY <1>2 DEF Remembered, RememberedBut, OnceInLine, Waiting
<1> QED BY <1>1, <1>3, SendMessageRemembers, StepRemembers

(* Spawning, output, the end of a query and the end of a run nobody awaits *)
(* touch neither the slots nor the line.                                   *)
LEMMA RunsRemember ==
  ASSUME Remembered(queue), NEW a \in Agents,
         \/ RegisterProcess(a)
         \/ \E text, success \in BOOLEAN : Output(a, text, success)
         \/ \E success \in BOOLEAN : QueryDone(a, success)
         \/ FinishDirect(a)
  PROVE  Remembered(queue')
<1>0. queue \in QueueStates /\ SlotOf(a) \in Slots
  BY SlotOfAgent DEF Remembered, RememberedBut
<1>1. CASE RegisterProcess(a)
  <2> DEFINE r == [queue EXCEPT !.phase[a] = "query", !.process[SlotOf(a)] = a]
  <2>1. Step(r)
    BY <1>1 DEF RegisterProcess
  <2>2. /\ r \in QueueStates /\ r.active = queue.active
        /\ r.pendingMessages = queue.pendingMessages
        /\ r.waitingSlots = queue.waitingSlots
        /\ r.waitingTaskFns = queue.waitingTaskFns
        /\ r.shuttingDown = queue.shuttingDown
    BY <1>0 DEF QueueStates, Phases
  <2> HIDE DEF r
  <2> QED BY <2>1, <2>2, QuietRemembers
<1>2. ASSUME NEW text \in BOOLEAN, NEW success \in BOOLEAN,
             Output(a, text, success)
      PROVE  Remembered(queue')
  <2> DEFINE s == SlotOf(a)
             idle == IF success THEN queue.idleWaiting \cup {s}
                     ELSE queue.idleWaiting
             pi == IF text THEN queue.piped \ {s} ELSE queue.piped
             ho == IF text /\ s \in Chats THEN queue.agentHasOutput \cup {s}
                   ELSE queue.agentHasOutput
             r == [queue EXCEPT !.idleWaiting = idle, !.piped = pi,
                                !.agentHasOutput = ho]
  <2>1. Step(r)
    BY <1>2 DEF Output
  <2>2. idle \in SUBSET Slots /\ pi \in SUBSET Chats /\ ho \in SUBSET Chats
    BY <1>0 DEF QueueStates
  <2> HIDE DEF idle, pi, ho
  <2>3. /\ r \in QueueStates /\ r.active = queue.active
        /\ r.pendingMessages = queue.pendingMessages
        /\ r.waitingSlots = queue.waitingSlots
        /\ r.waitingTaskFns = queue.waitingTaskFns
        /\ r.shuttingDown = queue.shuttingDown
    BY <1>0, <2>2 DEF QueueStates
  <2> HIDE DEF r
  <2> QED BY <2>1, <2>3, QuietRemembers
<1>3. ASSUME NEW success \in BOOLEAN, QueryDone(a, success)
      PROVE  Remembered(queue')
  <2> DEFINE ph == IF a \notin queue.direct THEN "returning"
                   ELSE IF a \in queue.dead THEN "free" ELSE "serving"
             idle == IF success THEN queue.idleWaiting \cup {SlotOf(a)}
                     ELSE queue.idleWaiting
             r == [queue EXCEPT !.phase[a] = ph, !.idleWaiting = idle]
  <2>1. Step(r)
    BY <1>3 DEF QueryDone
  <2>2. ph \in Phases /\ idle \in SUBSET Slots
    BY <1>0 DEF QueueStates, Phases
  <2> HIDE DEF ph, idle
  <2>3. /\ r \in QueueStates /\ r.active = queue.active
        /\ r.pendingMessages = queue.pendingMessages
        /\ r.waitingSlots = queue.waitingSlots
        /\ r.waitingTaskFns = queue.waitingTaskFns
        /\ r.shuttingDown = queue.shuttingDown
    BY <1>0, <2>2 DEF QueueStates
  <2> HIDE DEF r
  <2> QED BY <2>1, <2>3, QuietRemembers
<1>4. CASE FinishDirect(a)
  <2> DEFINE r == [queue EXCEPT !.phase[a] = "free", !.direct = @ \ {a}]
  <2>1. Step(r)
    BY <1>4 DEF FinishDirect
  <2>2. /\ r \in QueueStates /\ r.active = queue.active
        /\ r.pendingMessages = queue.pendingMessages
        /\ r.waitingSlots = queue.waitingSlots
        /\ r.waitingTaskFns = queue.waitingTaskFns
        /\ r.shuttingDown = queue.shuttingDown
    BY <1>0 DEF QueueStates, Phases
  <2> HIDE DEF r
  <2> QED BY <2>1, <2>2, QuietRemembers
<1> QED BY <1>1, <1>2, <1>3, <1>4

(* The finally block of runForGroup: the slot is kept for an idle agent or *)
(* released, and drainGroup hands on what is pending for its chat.         *)
LEMMA FinishRemembers ==
  ASSUME Remembered(queue), NEW a \in Agents, NEW success, Finish(a, success)
  PROVE  Remembered(queue')
<1> DEFINE g == SlotOf(a)
           ph == IF queue.phase[a] = "starting" \/ a \in queue.dead
                 THEN "free" ELSE "serving"
           q1 == [queue EXCEPT !.phase[a] = ph]
           q2 == IF success THEN [q1 EXCEPT !.retryCount[g] = 0]
                 ELSE ScheduleRetry(q1, g)
           q3 == IF ProcessAlive(q2, g) /\ g \in q2.idleWaiting THEN q2
                 ELSE Release(q2, g)
<1>1. queue \in QueueStates /\ g \in Chats /\ Step(DrainGroup(q3, g))
  BY DEF Finish, Remembered, RememberedBut
<1>2. ph \in Phases
  BY DEF Phases
<1> HIDE DEF g, ph
<1>3. /\ q1 \in QueueStates /\ q1.active = queue.active
      /\ q1.pendingMessages = queue.pendingMessages
      /\ q1.waitingSlots = queue.waitingSlots
      /\ q1.waitingTaskFns = queue.waitingTaskFns
      /\ q1.shuttingDown = queue.shuttingDown
  BY <1>1, <1>2 DEF QueueStates
<1> HIDE DEF q1
<1>4. /\ q2 \in QueueStates /\ q2.active = q1.active
      /\ q2.pendingMessages = q1.pendingMessages
      /\ q2.waitingSlots = q1.waitingSlots
      /\ q2.waitingTaskFns = q1.waitingTaskFns
      /\ q2.shuttingDown = q1.shuttingDown
  <2> DEFINE n == q1.retryCount[g] + 1
  <2>1. q1.retryCount[g] \in 0..MaxRetries
    BY <1>1, <1>3 DEF QueueStates
  <2>2. ~(n > MaxRetries) => n \in 0..MaxRetries
    BY <2>1, QueueAssumption
  <2>3. 0 \in 0..MaxRetries
    BY QueueAssumption
  <2>4. ScheduleRetry(q1, g) =
          IF n > MaxRetries THEN [q1 EXCEPT !.retryCount[g] = 0]
          ELSE [q1 EXCEPT !.retryCount[g] = n,
                          !.retryTimers = @ \cup {g}]
    BY <1>3 DEF ScheduleRetry, QueueStates
  <2>5. \/ q2 = [q1 EXCEPT !.retryCount[g] = 0]
        \/ /\ n \in 0..MaxRetries
           /\ q2 = [q1 EXCEPT !.retryCount[g] = n, !.retryTimers = @ \cup {g}]
    BY <2>2, <2>4
  <2> HIDE DEF n, q2
  <2> DEFINE range == 0..MaxRetries
  <2>6. \A m \in range : [q1.retryCount EXCEPT ![g] = m] \in [Chats -> range]
    BY <1>3 DEF QueueStates
  <2>7. PICK m \in range :
          \/ q2 = [q1 EXCEPT !.retryCount[g] = m]
          \/ q2 = [q1 EXCEPT !.retryCount[g] = m, !.retryTimers = @ \cup {g}]
    BY <2>3, <2>5
  <2>8. [q1.retryCount EXCEPT ![g] = m] \in [Chats -> 0..MaxRetries]
    BY <2>6
  <2> HIDE DEF range
  <2>9. CASE q2 = [q1 EXCEPT !.retryCount[g] = m]
    BY <1>1, <1>3, <2>8, <2>9 DEF QueueStates
  <2>10. CASE q2 = [q1 EXCEPT !.retryCount[g] = m, !.retryTimers = @ \cup {g}]
    BY <1>1, <1>3, <2>8, <2>10 DEF QueueStates
  <2> QED BY <2>7, <2>9, <2>10
<1> HIDE DEF q2
<1>5. q3 = q2 \/ q3 = Release(q2, g)
  OBVIOUS
<1>6. /\ q3 \in QueueStates /\ queue.active \ {g} \subseteq q3.active
      /\ q3.pendingMessages = queue.pendingMessages
      /\ q3.waitingSlots = queue.waitingSlots
      /\ q3.waitingTaskFns = queue.waitingTaskFns
      /\ q3.shuttingDown = queue.shuttingDown
  <2>1. g \in Slots
    BY <1>1 DEF Slots
  <2> DEFINE r == Release(q2, g)
  <2>2. /\ r \in QueueStates /\ r.active = q2.active \ {g}
        /\ r.pendingMessages = q2.pendingMessages
        /\ r.waitingSlots = q2.waitingSlots
        /\ r.waitingTaskFns = q2.waitingTaskFns
        /\ r.shuttingDown = q2.shuttingDown
    BY <1>4, <2>1, ReleaseFields
  <2> HIDE DEF r, q3
  <2>3. q3 = q2 \/ q3 = r
    BY <1>5 DEF r
  <2> QED BY <1>3, <1>4, <2>2, <2>3
<1> HIDE DEF q3
<1>7. RememberedBut(q3, {g})
  BY <1>6 DEF Remembered, RememberedBut, OnceInLine, Waiting
<1> QED BY <1>1, <1>7, DrainGroupRemembers, StepRemembers

(* The finally block of runTask: a task slot has no check of its own.      *)
LEMMA FinishTaskRemembers ==
  ASSUME Remembered(queue), NEW a \in Agents, FinishTask(a)
  PROVE  Remembered(queue')
<1> DEFINE t == SlotOf(a)
           q == [queue EXCEPT !.phase[a] = "free"]
           r == Release(q, t)
<1>1. queue \in QueueStates /\ t \in Tasks /\ Step(DrainWaiting(r))
  BY DEF FinishTask, Remembered, RememberedBut
<1>2. t \in Slots /\ t \notin Chats
  BY <1>1, QueueAssumption DEF Slots
<1> HIDE DEF t
<1>3. /\ q \in QueueStates /\ q.active = queue.active
      /\ q.pendingMessages = queue.pendingMessages
      /\ q.waitingSlots = queue.waitingSlots
      /\ q.waitingTaskFns = queue.waitingTaskFns
      /\ q.shuttingDown = queue.shuttingDown
  BY <1>1 DEF QueueStates, Phases
<1> HIDE DEF q
<1>4. /\ r \in QueueStates /\ r.active = q.active \ {t}
      /\ r.pendingMessages = q.pendingMessages
      /\ r.waitingSlots = q.waitingSlots
      /\ r.waitingTaskFns = q.waitingTaskFns
      /\ r.shuttingDown = q.shuttingDown
  BY <1>2, <1>3, ReleaseFields
<1> HIDE DEF r
<1>5. r.pendingMessages \ r.active = queue.pendingMessages \ queue.active
  BY <1>1, <1>2, <1>3, <1>4 DEF QueueStates
<1>6. Remembered(r)
  BY <1>3, <1>4, <1>5 DEF Remembered, RememberedBut, OnceInLine, Waiting
<1> QED BY <1>1, <1>6, DrainWaitingRemembers, StepRemembers

(* The exit listener releases the slot and drains its home; a task's slot  *)
(* has no check of its own.                                                *)
LEMMA ExitRemembers ==
  ASSUME Remembered(queue), NEW a \in Agents, NEW code, Exit(a, code)
  PROVE  Remembered(queue')
<1> DEFINE s == SlotOf(a)
           ph == IF queue.phase[a] = "serving" THEN "free" ELSE queue.phase[a]
           cd == IF code THEN queue.coded \cup {a} ELSE queue.coded
           q == [queue EXCEPT !.phase[a] = ph, !.dead = @ \cup {a}, !.coded = cd]
<1>1. queue \in QueueStates /\ s \in Slots /\ Step(OnExit(q, s))
  <2>1. Step(OnExit(q, s))
    BY DEF Exit, Remembered, RememberedBut, QueueStates
  <2> QED BY <2>1, SlotOfAgent DEF Remembered, RememberedBut
<1>2. ph \in Phases /\ cd \in SUBSET Agents
  BY <1>1 DEF QueueStates, Phases
<1> HIDE DEF s, ph, cd
<1>3. /\ q \in QueueStates /\ q.active = queue.active
      /\ q.pendingMessages = queue.pendingMessages
      /\ q.waitingSlots = queue.waitingSlots
      /\ q.waitingTaskFns = queue.waitingTaskFns
      /\ q.shuttingDown = queue.shuttingDown
  BY <1>1, <1>2 DEF QueueStates
<1> HIDE DEF q
<1>4. Remembered(q)
  BY <1>3 DEF Remembered, RememberedBut, OnceInLine, Waiting
<1>5. CASE ~ExitFires(q, s)
  <2>1. OnExit(q, s) = q
    BY <1>5 DEF OnExit
  <2> QED BY <1>1, <1>4, <2>1, StepRemembers
<1>6. CASE ExitFires(q, s)
  <2> DEFINE g == Home(s)
             p == Release(q, s)
             stale == q.process[s] # NoAgent /\ g \in q.unread
             un == IF stale THEN q.unread \ {g} ELSE q.unread
             pm == IF stale /\ s = g THEN q.pendingMessages \cup {g}
                   ELSE q.pendingMessages
             r == [p EXCEPT !.idleWaiting = @ \ {s}, !.unread = un,
                            !.pendingMessages = pm]
  <2>1. g \in Chats /\ (s \in Chats => s = g)
    BY <1>1, QueueAssumption DEF Home, Slots
  <2>2. un \in SUBSET Chats /\ pm \in SUBSET Chats
        /\ pm \subseteq q.pendingMessages \cup {g}
    BY <1>3, <2>1 DEF QueueStates
  <2>3. /\ p \in QueueStates /\ p.active = q.active \ {s}
        /\ p.idleWaiting = q.idleWaiting /\ p.unread = q.unread
        /\ p.pendingMessages = q.pendingMessages
        /\ p.waitingSlots = q.waitingSlots
        /\ p.waitingTaskFns = q.waitingTaskFns
        /\ p.shuttingDown = q.shuttingDown
    BY <1>1, <1>3, ReleaseFields
  <2>4. OnExit(q, s) = DrainGroup(r, g)
    BY <1>6, <2>3 DEF OnExit
  <2> HIDE DEF g, p, un, pm
  <2>5. /\ r \in QueueStates /\ r.active = q.active \ {s}
        /\ r.pendingMessages = pm
        /\ r.waitingSlots = q.waitingSlots
        /\ r.waitingTaskFns = q.waitingTaskFns
        /\ r.shuttingDown = q.shuttingDown
    BY <2>2, <2>3 DEF QueueStates
  <2> HIDE DEF r
  <2>6. r.pendingMessages \ r.active
          \subseteq (q.pendingMessages \ q.active) \cup {g}
    BY <2>1, <2>2, <2>5
  <2>7. RememberedBut(r, {g})
    BY <1>4, <2>5, <2>6 DEF Remembered, RememberedBut, OnceInLine, Waiting
  <2> QED BY <1>1, <2>1, <2>4, <2>7, DrainGroupRemembers, StepRemembers
<1> QED BY <1>5, <1>6

(* The backoff timer is an enqueueMessageCheck.                            *)
LEMMA RetryTimerRemembers ==
  ASSUME Remembered(queue), NEW g \in Chats, NEW more, RetryTimer(g, more)
  PROVE  Remembered(queue')
<1> DEFINE armed == IF more THEN queue.retryTimers ELSE queue.retryTimers \ {g}
           q == [queue EXCEPT !.retryTimers = armed]
<1>1. queue \in QueueStates /\ Step(EnqueueMessageCheck(q, g))
  BY DEF RetryTimer, Remembered, RememberedBut
<1>2. armed \in SUBSET Chats
  BY <1>1 DEF QueueStates
<1> HIDE DEF armed
<1>3. /\ q \in QueueStates /\ q.active = queue.active
      /\ q.pendingMessages = queue.pendingMessages
      /\ q.waitingSlots = queue.waitingSlots
      /\ q.waitingTaskFns = queue.waitingTaskFns
      /\ q.shuttingDown = queue.shuttingDown
  BY <1>1, <1>2 DEF QueueStates
<1> HIDE DEF q
<1>4. Remembered(q)
  BY <1>3 DEF Remembered, RememberedBut, OnceInLine, Waiting
<1> QED BY <1>1, <1>4, EnqueueMessageCheckRemembers, StepRemembers

(* An abort drops what was put off, with the user's will; a recycled agent *)
(* is active.                                                              *)
LEMMA SignalsRemember ==
  ASSUME Remembered(queue),
         \/ \E g \in Chats : KillActive(g) \/ Recycle(g) \/ AgentReads(g)
         \/ Shutdown
  PROVE  Remembered(queue')
<1>0. queue \in QueueStates
  BY DEF Remembered, RememberedBut
<1>1. ASSUME NEW g \in Chats, KillActive(g)
      PROVE  Remembered(queue')
  <2> DEFINE un == IF queue.process[g] # NoAgent THEN queue.unread \ {g}
                   ELSE queue.unread
             pm == queue.pendingMessages \ {g}
             kl == queue.killed \cup ({queue.process[g]} \ {NoAgent})
             r == [queue EXCEPT !.unread = un, !.pendingMessages = pm,
                                !.killed = kl]
  <2>1. Step(r)
    BY <1>1 DEF KillActive
  <2>2. un \in SUBSET Chats /\ pm \in SUBSET Chats /\ kl \in SUBSET Agents
        /\ pm \subseteq queue.pendingMessages
    BY <1>0 DEF QueueStates, Slots
  <2> HIDE DEF un, pm, kl
  <2>3. /\ r \in QueueStates /\ r.active = queue.active
        /\ r.pendingMessages = pm
        /\ r.waitingSlots = queue.waitingSlots
        /\ r.waitingTaskFns = queue.waitingTaskFns
        /\ r.shuttingDown = queue.shuttingDown
    BY <1>0, <2>2 DEF QueueStates
  <2> HIDE DEF r
  <2>4. r.pendingMessages \subseteq queue.pendingMessages \cup queue.active
    BY <2>2, <2>3
  <2> QED BY <2>1, <2>3, <2>4, QuietRemembers
<1>2. ASSUME NEW g \in Chats, Recycle(g)
      PROVE  Remembered(queue')
  <2> DEFINE pm == queue.pendingMessages \cup {g}
             r == [queue EXCEPT !.pendingMessages = pm]
  <2>1. Step(r) /\ g \in queue.active
    BY <1>2 DEF Recycle
  <2>2. pm \in SUBSET Chats
        /\ pm \subseteq queue.pendingMessages \cup queue.active
    BY <1>0, <2>1 DEF QueueStates
  <2> HIDE DEF pm
  <2>3. /\ r \in QueueStates /\ r.active = queue.active
        /\ r.pendingMessages = pm
        /\ r.waitingSlots = queue.waitingSlots
        /\ r.waitingTaskFns = queue.waitingTaskFns
        /\ r.shuttingDown = queue.shuttingDown
    BY <1>0, <2>2 DEF QueueStates
  <2> HIDE DEF r
  <2>4. r.pendingMessages \subseteq queue.pendingMessages \cup queue.active
    BY <2>2, <2>3
  <2> QED BY <2>1, <2>3, <2>4, QuietRemembers
<1>3. ASSUME NEW g \in Chats, AgentReads(g)
      PROVE  Remembered(queue')
  <2> DEFINE r == [queue EXCEPT !.unread = @ \ {g}]
  <2>1. Step(r)
    BY <1>3 DEF AgentReads
  <2>2. /\ r \in QueueStates /\ r.active = queue.active
        /\ r.pendingMessages = queue.pendingMessages
        /\ r.waitingSlots = queue.waitingSlots
        /\ r.waitingTaskFns = queue.waitingTaskFns
        /\ r.shuttingDown = queue.shuttingDown
    BY <1>0 DEF QueueStates
  <2> HIDE DEF r
  <2> QED BY <2>1, <2>2, QuietRemembers
<1>4. CASE Shutdown
  <2> DEFINE r == [queue EXCEPT !.shuttingDown = TRUE]
  <2>1. Step(r)
    BY <1>4 DEF Shutdown
  <2>2. /\ r \in QueueStates /\ r.active = queue.active
        /\ r.pendingMessages = queue.pendingMessages
        /\ r.waitingSlots = queue.waitingSlots
        /\ r.waitingTaskFns = queue.waitingTaskFns
        /\ r.shuttingDown
    BY <1>0 DEF QueueStates
  <2> HIDE DEF r
  <2> QED BY <2>1, <2>2, QuietRemembers
<1> QED BY <1>1, <1>2, <1>3, <1>4

LEMMA InitRemembers == Init => Remembered(queue)
<1> SUFFICES ASSUME Init PROVE Remembered(queue)
  OBVIOUS
<1>1. queue \in QueueStates
  BY InitIInv DEF IInv, Core
<1>2. /\ queue.pendingMessages = {} /\ queue.waitingTaskFns = {}
      /\ queue.waitingSlots = << >>
  BY DEF Init
<1> QED BY <1>1, <1>2 DEF Remembered, RememberedBut, OnceInLine, Waiting

LEMMA NextRemembers ==
  ASSUME Remembered(queue), [Next]_queue
  PROVE  Remembered(queue')
<1>1. ASSUME NEW g \in Chats, NEW written \in BOOLEAN, InboundMessage(g, written)
      PROVE  Remembered(queue')
  BY <1>1, InboundMessageRemembers
<1>2. ASSUME NEW t \in Tasks, EnqueueTask(t)
      PROVE  Remembered(queue')
  BY <1>2, EnqueueTaskRemembers
<1>3. ASSUME NEW a \in Agents, RunStep(a)
      PROVE  Remembered(queue')
  <2>1. CASE RegisterProcess(a) \/ FinishDirect(a)
    BY <2>1, RunsRemember
  <2>2. ASSUME NEW success \in BOOLEAN, QueryDone(a, success)
        PROVE  Remembered(queue')
    BY <2>2, RunsRemember
  <2>3. ASSUME NEW success \in BOOLEAN, Finish(a, success)
        PROVE  Remembered(queue')
    BY <2>3, FinishRemembers
  <2>4. CASE FinishTask(a)
    BY <2>4, FinishTaskRemembers
  <2> QED BY <1>3, <2>1, <2>2, <2>3, <2>4 DEF RunStep
<1>4. ASSUME NEW a \in Agents, NEW text \in BOOLEAN, NEW success \in BOOLEAN,
             Output(a, text, success)
      PROVE  Remembered(queue')
  BY <1>4, RunsRemember
<1>5. ASSUME NEW a \in Agents, NEW written \in BOOLEAN, DeliveryRetry(a, written)
      PROVE  Remembered(queue')
  BY <1>5, DeliveryRetryRemembers
<1>6. ASSUME NEW a \in Agents, NEW code \in BOOLEAN, Exit(a, code)
      PROVE  Remembered(queue')
  BY <1>6, ExitRemembers
<1>7. ASSUME NEW g \in Chats, NEW more \in BOOLEAN, RetryTimer(g, more)
      PROVE  Remembered(queue')
  BY <1>7, RetryTimerRemembers
<1>8. ASSUME \/ \E g \in Chats : KillActive(g) \/ Recycle(g) \/ AgentReads(g)
             \/ Shutdown
      PROVE  Remembered(queue')
  BY <1>8, SignalsRemember
<1>9. CASE UNCHANGED queue
  BY <1>9 DEF Remembered, RememberedBut, OnceInLine, Waiting
<1> QED BY <1>1, <1>2, <1>3, <1>4, <1>5, <1>6, <1>7, <1>8, <1>9 DEF Next

(* Before shutdown no message check that was put off and no parked task is *)
(* ever forgotten, whatever the exit listener and sendMessage overlap: the *)
(* chat is running or in the line, and the line holds the parked tasks.    *)
THEOREM NoneForgotten == Spec => []NothingForgotten
<1>1. Init => Remembered(queue)
  BY InitRemembers
<1>2. Remembered(queue) /\ [Next]_queue => Remembered(queue)'
  BY NextRemembers
<1>3. Remembered(queue) => NothingForgotten
  BY DEF Remembered, RememberedBut, NothingForgotten
<1> QED BY <1>1, <1>2, <1>3, PTL DEF Spec

(* The queue object stays well typed under every overlap.                  *)
THEOREM TypeCorrect == Spec => []TypeOK
<1>1. Init => Remembered(queue)
  BY InitRemembers
<1>2. Remembered(queue) /\ [Next]_queue => Remembered(queue)'
  BY NextRemembers
<1>3. Remembered(queue) => TypeOK
  BY DEF Remembered, RememberedBut, TypeOK
<1> QED BY <1>1, <1>2, <1>3, PTL DEF Spec
=============================================================================
