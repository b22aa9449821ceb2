----------------------------- MODULE GroupQueue -----------------------------
(***************************************************************************)
(* The GroupQueue class of src/group-queue.ts: it decides when an agent of *)
(* a chat, or of a detached scheduled task, may run.  Each chat and each   *)
(* task has a slot; at most MAX_CONCURRENT_CONTAINERS slots are active and *)
(* the others wait in the order they came.                                 *)
(*                                                                         *)
(* Methods of the class are operators from a queue state to a queue state, *)
(* because the code calls them from one another without yielding; an       *)
(* action of this module is one turn of the JavaScript event loop.         *)
(*                                                                         *)
(* A run is one call of processGroupMessages (or of a task's function) and *)
(* the agent process it spawns; the pair <<slot, lane>> names both.  A run *)
(* started by runForGroup or runTask is awaited: its `finally' block is    *)
(* still to come.  A run started by the idle branch of drainGroup is not   *)
(* awaited by anybody (`direct').                                          *)
(***************************************************************************)
EXTENDS Integers, Sequences, FiniteSets

CONSTANTS
  Chats,          \* chat slots, keyed by the chat's JID
  Tasks,          \* task slots, keyed by taskSlotKey(chat, task)
  ChatOf,         \* [Tasks -> Chats], the chat a task reports to
  MaxConcurrent,  \* MAX_CONCURRENT_CONTAINERS
  MaxRetries,     \* MAX_RETRIES
  Lanes,          \* bound: runs of one slot that may overlap
  Overlaps,       \* the events admitted while the slot's run is awaited
  NoAgent         \* the null of state.process

ASSUME QueueAssumption ==
  /\ IsFiniteSet(Chats) /\ IsFiniteSet(Tasks) /\ Chats \cap Tasks = {}
  /\ ChatOf \in [Tasks -> Chats]
  /\ MaxConcurrent \in Nat \ {0}
  /\ MaxRetries \in Nat
  /\ Overlaps \subseteq {"exit", "send"}
  /\ NoAgent \notin (Chats \cup Tasks) \X Lanes

VARIABLE
  queue           \* the GroupQueue object and the runs it started

Slots == Chats \cup Tasks
Agents == Slots \X Lanes
SlotOf(a) == a[1]
Home(s) == IF s \in Tasks THEN ChatOf[s] ELSE s

(* A run is "starting" until it spawns its process, in "query" until       *)
(* runAgent returns, "returning" until processGroupMessages does, and then *)
(* its process is "serving" piped messages.  A "free" lane has neither.    *)
Phases == {"free", "starting", "query", "returning", "serving"}

QueueStates ==
  [ active          : SUBSET Slots,
    idleWaiting     : SUBSET Slots,
    pendingMessages : SUBSET Chats,
    piped           : SUBSET Chats,      \* pipedSinceOutput > 0
    agentHasOutput  : SUBSET Chats,
    process         : [Slots -> Agents \cup {NoAgent}],
    retryCount      : [Chats -> 0..MaxRetries],
    activeCount     : Int,
    waitingSlots    : Seq(Slots),
    waitingTaskFns  : SUBSET Tasks,
    shuttingDown    : BOOLEAN,
    phase           : [Agents -> Phases],
    direct          : SUBSET Agents,     \* runs nobody awaits
    dead            : SUBSET Agents,     \* processes that have exited
    coded           : SUBSET Agents,     \* ... with a non-null exitCode
    killed          : SUBSET Agents,     \* proc.killed is set
    retryTimers     : SUBSET Chats,      \* chats with a backoff timer armed
    unread          : SUBSET Chats,      \* chats with *.json in the IPC input
    laneless        : SUBSET Slots ]     \* starts beyond the bound Lanes

Init ==
  queue =
    [ active |-> {}, idleWaiting |-> {}, pendingMessages |-> {}, piped |-> {},
      agentHasOutput |-> {}, process |-> [s \in Slots |-> NoAgent],
      retryCount |-> [g \in Chats |-> 0], activeCount |-> 0,
      waitingSlots |-> << >>, waitingTaskFns |-> {}, shuttingDown |-> FALSE,
      phase |-> [a \in Agents |-> "free"], direct |-> {}, dead |-> {},
      coded |-> {}, killed |-> {}, retryTimers |-> {}, unread |-> {},
      laneless |-> {} ]

-----------------------------------------------------------------------------
(* What the class can see of a slot.                                       *)

(* The runs of slot s whose `finally' block is still to come.              *)
InFlight(q, a) ==
  q.phase[a] \in {"starting", "query", "returning"} /\ a \notin q.direct
Awaited(q, s) == {a \in Agents : SlotOf(a) = s /\ InFlight(q, a)}

(* The process of slot s passes the liveness test of runForGroup: a        *)
(* process ended by a signal has a null exitCode, and passes it too.       *)
ProcessAlive(q, s) ==
  q.process[s] # NoAgent /\ q.process[s] \notin q.coded \cup q.killed

FreeLane(q, a) == q.phase[a] = "free" /\ q.process[SlotOf(a)] # a
FreeLanes(q, s) == {a \in Agents : SlotOf(a) = s /\ FreeLane(q, a)}
LaneFor(q, s) == CHOOSE a \in FreeLanes(q, s) : TRUE

Waiting(q) == {q.waitingSlots[i] : i \in DOMAIN q.waitingSlots}

(* The slots drainWaiting would start rather than skip.                    *)
Work(q) == q.waitingTaskFns \cup q.pendingMessages

-----------------------------------------------------------------------------
(* Starting and releasing a slot.                                          *)

(* Spawn on a free lane of each slot of W.                                 *)
TakeLanes(q, W) ==
  LET ready == {s \in W : FreeLanes(q, s) # {}}
      lanes == {LaneFor(q, s) : s \in ready}
  IN [q EXCEPT !.phase = [a \in Agents |->
                            IF a \in lanes THEN "starting" ELSE q.phase[a]],
               !.direct = @ \ lanes,
               !.dead = @ \ lanes,
               !.coded = @ \ lanes,
               !.killed = @ \ lanes,
               !.laneless = @ \cup (W \ ready)]

(* runForGroup and runTask up to their first await, for every slot of W.   *)
StartRuns(q, W) ==
  [TakeLanes(q, W) EXCEPT
     !.active = @ \cup W,
     !.idleWaiting = @ \ W,
     !.pendingMessages = @ \ W,
     !.piped = @ \ W,
     !.agentHasOutput = @ \ W,
     !.activeCount = @ + Cardinality(W)]

(* The idle branch of drainGroup: processMessagesFn outside runForGroup.   *)
StartDirect(q, g) ==
  LET r == TakeLanes([q EXCEPT !.pendingMessages = @ \ {g}], {g})
  IN [r EXCEPT !.direct =
        @ \cup {a \in Agents : q.phase[a] = "free" /\ r.phase[a] = "starting"}]

(* Mutant: the decrement is missing.                                       *)
ReleaseUncounted(q, s) == [q EXCEPT !.active = @ \ {s}, !.process[s] = NoAgent]

(* active = false, process = null, activeCount--                           *)
Release(q, s) ==
  [q EXCEPT !.active = @ \ {s},
            !.process[s] = NoAgent,
            !.activeCount = @ - 1]

-----------------------------------------------------------------------------
(* The private methods that hand capacity on.                              *)

(* The loop of drainWaiting as one step: it shifts the shortest prefix of  *)
(* waitingSlots that fills the capacity, starts the slots of the prefix    *)
(* that have work, and drops the others.                                   *)
Started(q, n) == {q.waitingSlots[i] : i \in 1..n} \cap Work(q)
Fills(q, n) == q.activeCount + Cardinality(Started(q, n)) >= MaxConcurrent
Shifted(q) ==
  CHOOSE n \in 0..Len(q.waitingSlots) :
    /\ n = Len(q.waitingSlots) \/ Fills(q, n)
    /\ \A m \in 0..(n - 1) : ~Fills(q, m)

DrainWaiting(q) ==
  LET n == Shifted(q)
      W == Started(q, n)
  IN [StartRuns(q, W) EXCEPT
        !.waitingSlots = SubSeq(@, n + 1, Len(@)),
        !.waitingTaskFns = @ \ W]

(* Mutant: a slot with nothing pending keeps its capacity to itself.       *)
DrainGroupOnly(q, g) ==
  IF q.shuttingDown \/ g \notin q.pendingMessages THEN q ELSE StartRuns(q, {g})

DrainGroup(q, g) ==
  IF q.shuttingDown THEN q
  ELSE IF g \notin q.pendingMessages THEN DrainWaiting(q)
  ELSE IF /\ g \in q.active \cap q.idleWaiting
          /\ q.process[g] # NoAgent /\ q.process[g] \notin q.killed
       THEN StartDirect(q, g)
       ELSE StartRuns(q, {g})

ScheduleRetry(q, g) ==
  IF q.retryCount[g] + 1 > MaxRetries
  THEN [q EXCEPT !.retryCount[g] = 0]
  ELSE [q EXCEPT !.retryCount[g] = @ + 1, !.retryTimers = @ \cup {g}]

Park(q, s) ==
  [q EXCEPT !.waitingSlots = IF s \in Waiting(q) THEN @ ELSE Append(@, s)]

(* Mutant: at the cap the check is recorded but the slot is not parked.    *)
EnqueueMessageCheckUnparked(q, g) ==
  IF q.shuttingDown THEN q
  ELSE IF g \in q.active \/ q.activeCount >= MaxConcurrent
       THEN [q EXCEPT !.pendingMessages = @ \cup {g}]
       ELSE StartRuns(q, {g})

EnqueueMessageCheck(q, g) ==
  IF q.shuttingDown THEN q
  ELSE IF g \in q.active THEN [q EXCEPT !.pendingMessages = @ \cup {g}]
  ELSE IF q.activeCount >= MaxConcurrent
       THEN Park([q EXCEPT !.pendingMessages = @ \cup {g}], g)
       ELSE StartRuns(q, {g})

-----------------------------------------------------------------------------
(* sendMessage: pipe a message into the slot's agent.                      *)

HasContainer(q, g) == g \in q.active /\ q.process[g] # NoAgent
Exited(q, g) == HasContainer(q, g) /\ q.process[g] \in q.coded

(* The return value; `written' is false when the IPC file cannot be        *)
(* written.                                                                *)
Piped(q, g, written) == HasContainer(q, g) /\ ~Exited(q, g) /\ written

SendMessage(q, g, written) ==
  IF ~HasContainer(q, g) THEN q
  ELSE IF Exited(q, g)
  THEN DrainGroup([Release(q, g) EXCEPT !.idleWaiting = @ \ {g},
                                        !.pendingMessages = @ \cup {g}], g)
  ELSE IF written
  THEN [q EXCEPT !.idleWaiting = @ \ {g},
                 !.piped = @ \cup {g},
                 !.unread = @ \cup {g}]
  ELSE [q EXCEPT !.idleWaiting = @ \ {g}]

(* Without "send" in Overlaps no message meets an agent that has exited    *)
(* while the run that spawned it is still awaited.                         *)
MaySend(q, g) ==
  Exited(q, g) /\ Awaited(q, g) # {} => "send" \in Overlaps

-----------------------------------------------------------------------------
(* The actions.  A step beyond the bound Lanes is not taken.  What no code *)
(* reads before it is reset is dropped: the flags of an inactive slot and  *)
(* those of a run that is over and that no slot refers to.  (Binding r     *)
(* evaluates the argument once.)                                           *)

Tidy(q) ==
  LET known == {a \in Agents : ~FreeLane(q, a)}
  IN [q EXCEPT !.idleWaiting = @ \cap q.active,
               !.piped = @ \cap q.active,
               !.agentHasOutput = @ \cap q.active,
               !.direct = @ \cap known,
               !.dead = @ \cap known,
               !.coded = @ \cap known,
               !.killed = @ \cap known]

Step(q) == \E r \in {q} : r.laneless = {} /\ queue' = Tidy(r)

(* startMessageLoop hands a batch of messages to the queue.                *)
InboundMessage(g, written) ==
  /\ MaySend(queue, g)
  /\ LET q == SendMessage(queue, g, written)
     IN Step(IF Piped(queue, g, written) THEN q ELSE EnqueueMessageCheck(q, g))

(* The scheduler finds task t due.  While a run of t is awaited after its  *)
(* slot was released ("exit" in Overlaps) the task is not enqueued again.  *)
EnqueueTask(t) ==
  /\ ~queue.shuttingDown
  /\ t \notin queue.active \cup queue.waitingTaskFns
  /\ Awaited(queue, t) = {}
  /\ Step(IF queue.activeCount >= MaxConcurrent
          THEN Park([queue EXCEPT !.waitingTaskFns = @ \cup {t}], t)
          ELSE StartRuns(queue, {t}))

(* The run spawns its process and registers it on the slot.                *)
RegisterProcess(a) ==
  /\ queue.phase[a] = "starting"
  /\ Step([queue EXCEPT !.phase[a] = "query",
                        !.process[SlotOf(a)] = a])

(* The output callback of the run, with user-visible text or without it.   *)
(* Callbacks are chained, so one may come after the process has exited.    *)
Output(a, text, success) ==
  LET s == SlotOf(a) IN
  /\ queue.phase[a] \in {"query", "returning", "serving"}
  /\ Step([queue EXCEPT
        !.idleWaiting = IF success THEN @ \cup {s} ELSE @,
        !.piped = IF text THEN @ \ {s} ELSE @,
        !.agentHasOutput = IF text /\ s \in Chats THEN @ \cup {s} ELSE @])

(* The terminal delivery of a follow-up turn failed: requestDeliveryRetry. *)
DeliveryRetry(a, written) ==
  LET g == SlotOf(a) IN
  /\ g \in Chats
  /\ queue.phase[a] \in {"query", "returning", "serving"}
  /\ MaySend(queue, g)
  /\ Step(SendMessage([queue EXCEPT !.piped = @ \ {g},
                                    !.agentHasOutput = @ \ {g}], g, written))

(* runAgent returns to processGroupMessages; on status success it has      *)
(* called markIdle.  Once the process is gone only an exit code makes a    *)
(* success.                                                                *)
QueryDone(a, success) ==
  LET g == SlotOf(a) IN
  /\ g \in Chats
  /\ queue.phase[a] = "query"
  /\ success => a \notin queue.dead \ queue.coded
  /\ Step([queue EXCEPT
        !.phase[a] = IF a \notin queue.direct THEN "returning"
                     ELSE IF a \in queue.dead THEN "free" ELSE "serving",
        !.idleWaiting = IF success THEN @ \cup {g} ELSE @])

(* processGroupMessages settles (early, when it found nothing to do or     *)
(* threw before the spawn) and runForGroup goes through its finally block. *)
Finish(a, success) ==
  LET g == SlotOf(a)
      q1 == [queue EXCEPT !.phase[a] =
               IF @ = "starting" \/ a \in queue.dead THEN "free" ELSE "serving"]
      q2 == IF success THEN [q1 EXCEPT !.retryCount[g] = 0]
            ELSE ScheduleRetry(q1, g)
      q3 == IF ProcessAlive(q2, g) /\ g \in q2.idleWaiting THEN q2
            ELSE Release(q2, g)
  IN /\ g \in Chats
     /\ queue.phase[a] \in {"starting", "returning"}
     /\ a \notin queue.direct
     /\ Step(DrainGroup(q3, g))

(* A direct run settles before it spawned anything.                        *)
FinishDirect(a) ==
  /\ queue.phase[a] = "starting"
  /\ a \in queue.direct
  /\ Step([queue EXCEPT !.phase[a] = "free", !.direct = @ \ {a}])

(* A task's function settles: it has reaped its process (closeTaskStdin),  *)
(* and runTask drops the slot.                                             *)
FinishTask(a) ==
  LET t == SlotOf(a)
      q1 == Release([queue EXCEPT !.phase[a] = "free"], t)
  IN /\ t \in Tasks
     /\ queue.phase[a] \in {"starting", "query"}
     /\ Step(DrainWaiting(q1))

(* The exit listener of registerProcess.  It looks at the slot and not at  *)
(* which process exited.                                                   *)
ExitFires(q, s) ==
  s \in q.active /\ s \in q.idleWaiting \cup q.piped \cup q.agentHasOutput

OnExit(q, s) ==
  LET g == Home(s)
      stale == q.process[s] # NoAgent /\ g \in q.unread
      q1 == [Release(q, s) EXCEPT
               !.idleWaiting = @ \ {s},
               !.unread = IF stale THEN @ \ {g} ELSE @,
               !.pendingMessages = IF stale /\ s = g THEN @ \cup {g} ELSE @]
  IN IF ExitFires(q, s) THEN DrainGroup(q1, g) ELSE q

(* The process of run a exits, with an exit code or by a signal.  Without  *)
(* "exit" in Overlaps it does not do so while the listener would fire and  *)
(* a run of the slot is awaited.                                           *)
Exit(a, code) ==
  LET s == SlotOf(a)
      q1 == [queue EXCEPT
               !.phase[a] = IF @ = "serving" THEN "free" ELSE @,
               !.dead = @ \cup {a},
               !.coded = IF code THEN @ \cup {a} ELSE @]
  IN /\ queue.phase[a] \in {"query", "returning", "serving"}
     /\ a \notin queue.dead
     /\ ExitFires(queue, s) /\ Awaited(queue, s) # {} => "exit" \in Overlaps
     /\ Step(OnExit(q1, s))

(* The backoff timer of scheduleRetry; `more' when another one is armed.   *)
RetryTimer(g, more) ==
  /\ g \in queue.retryTimers
  /\ Step(EnqueueMessageCheck(
            [queue EXCEPT !.retryTimers = IF more THEN @ ELSE @ \ {g}], g))

(* Mutant: an abort frees the slot at once, before the process has exited. *)
KillActiveReleasing(g) ==
  /\ g \in queue.active
  /\ Step([Release(queue, g) EXCEPT !.pendingMessages = @ \ {g}])

(* The user aborts the running agent: killActive.                          *)
KillActive(g) ==
  /\ g \in queue.active
  /\ Step([queue EXCEPT
        !.unread = IF queue.process[g] # NoAgent THEN @ \ {g} ELSE @,
        !.pendingMessages = @ \ {g},
        !.killed = @ \cup ({queue.process[g]} \ {NoAgent})])

(* recycleIdleForAuthRefresh signals the idle agent instead of piping; the *)
(* process group is signalled, so proc.killed stays false.                 *)
Recycle(g) ==
  /\ g \in queue.active \cap queue.idleWaiting
  /\ ProcessAlive(queue, g)
  /\ Step([queue EXCEPT !.pendingMessages = @ \cup {g}])

(* An agent of the group takes the files of the IPC input directory.       *)
AgentReads(g) ==
  /\ g \in queue.unread
  /\ \E a \in Agents : /\ Home(SlotOf(a)) = g
                       /\ queue.phase[a] \in {"query", "returning", "serving"}
                       /\ a \notin queue.dead
  /\ Step([queue EXCEPT !.unread = @ \ {g}])

(* shutdown: new work is refused and every process is signalled.           *)
Shutdown ==
  /\ ~queue.shuttingDown
  /\ Step([queue EXCEPT !.shuttingDown = TRUE])

(* What moves a run on without anybody's doing.                            *)
RunStep(a) ==
  \/ RegisterProcess(a)
  \/ \E success \in BOOLEAN : QueryDone(a, success) \/ Finish(a, success)
  \/ FinishDirect(a)
  \/ FinishTask(a)

Next ==
  \/ \E g \in Chats, written \in BOOLEAN : InboundMessage(g, written)
  \/ \E t \in Tasks : EnqueueTask(t)
  \/ \E a \in Agents : RunStep(a)
  \/ \E a \in Agents, text, success \in BOOLEAN : Output(a, text, success)
  \/ \E a \in Agents, written \in BOOLEAN : DeliveryRetry(a, written)
  \/ \E a \in Agents, code \in BOOLEAN : Exit(a, code)
  \/ \E g \in Chats, more \in BOOLEAN : RetryTimer(g, more)
  \/ \E g \in Chats : KillActive(g)
  \/ \E g \in Chats : Recycle(g)
  \/ \E g \in Chats : AgentReads(g)
  \/ Shutdown

Spec == Init /\ [][Next]_queue

-----------------------------------------------------------------------------
(* Types.                                                                  *)
TypeOK == queue \in QueueStates

(* The counter that gates every start is the number of active slots: no    *)
(* path releases a slot twice (exit listener, sendMessage's clean-up and   *)
(* the finally blocks all decrement it).                                   *)
SlotAccounting == queue.activeCount = Cardinality(queue.active)

(* MAX_CONCURRENT_CONTAINERS caps the slots that are active, although      *)
(* drainGroup starts a run without looking at the counter.                 *)
CapRespected == Cardinality(queue.active) <= MaxConcurrent

(* The cap is held by a counter that is right: the two together.           *)
CapHeld == SlotAccounting /\ CapRespected

(* A slot waits only while the cap is reached: no release forgets to hand  *)
(* the capacity on.                                                        *)
WorkConserving ==
  queue.waitingSlots # << >> =>
    queue.activeCount >= MaxConcurrent \/ queue.shuttingDown

(* A message check that was put off is not forgotten before shutdown: its  *)
(* chat is running or stands in the waiting line; so does a parked task.   *)
NothingForgotten ==
  /\ queue.shuttingDown \/ queue.pendingMessages \ queue.active \subseteq Waiting(queue)
  /\ queue.waitingTaskFns = Waiting(queue) \cap Tasks

(* A slot has one awaited run at most, and is active while it has one.     *)
OneRunPerSlot ==
  \A s \in Slots : /\ Cardinality(Awaited(queue, s)) <= 1
                   /\ Awaited(queue, s) # {} => s \in queue.active
=============================================================================
