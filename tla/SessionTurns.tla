----------------------------- MODULE SessionTurns -----------------------------
(***************************************************************************)
(* The turns of one session of the two-database path.  The host owns       *)
(* inbound.db (rows of messages_in: src/db/session-db.ts,                  *)
(* src/modules/scheduling) and sweeps it (src/host-sweep.ts); the          *)
(* container owns outbound.db, where its poll loop                         *)
(* (container/agent-runner/src/poll-loop.ts) acknowledges rows, and a      *)
(* heartbeat file.  They share nothing else: every decision is taken from  *)
(* what the other wrote some time ago.                                     *)
(*                                                                         *)
(* Starting and stopping containers is external (stubs in                  *)
(* src/container-runner.ts): a woken container starts without a heartbeat, *)
(* a killed one is gone.  Time is abstract: a retry comes due, a claim     *)
(* exceeds its tolerance and a heartbeat the ceiling at any moment.        *)
(***************************************************************************)
EXTENDS Integers, FiniteSets, FiniteSetsExt

CONSTANTS
  MaxRows,      \* bound: rows of messages_in
  Arrivals,     \* bound: the kinds of message that may arrive as a row
  MaxPrompt,    \* maxMessagesPerPrompt
  MaxTries,     \* MAX_TRIES
  Ceiling,      \* is absoluteCeilingMs set?  (by default it is 0, off)
  MaxEvents,    \* bound: events of one query
  MaxStops      \* bound: crashes of containers and restarts of the host

ASSUME SessionAssumption ==
  /\ {MaxRows, MaxTries, MaxEvents, MaxStops} \subseteq Nat
  /\ MaxPrompt \in Nat \ {0}
  /\ Ceiling \in BOOLEAN
  /\ Arrivals \in [1..MaxRows -> SUBSET {"message", "context", "command", "task"}]

VARIABLES
  rows,       \* messages_in, by seq
  ack,        \* processing_ack
  heartbeat,  \* the age of the heartbeat file
  container,  \* the container and its poll loop
  sweep,      \* where sweepSession waits
  past        \* ghost: what happened, and how often

vars == <<rows, ack, heartbeat, container, sweep, past>>

Rows == 1..MaxRows
Kinds == {"message", "context", "command", "task"}   \* "context": trigger = 0

RowStates ==
  [ kind   : Kinds,
    status : {"absent", "pending", "paused", "completed", "failed"},
    tries  : 0..MaxTries,
    later  : BOOLEAN,             \* process_after lies ahead
    series : 0..MaxRows,          \* series_id: the first row of the task
    recurs : BOOLEAN ]            \* recurrence is not NULL

(* A row of processing_ack: a claim, as the sweep judges it (there was a   *)
(* heartbeat since; there was none; for longer than the tolerance), or the *)
(* word that the row is done.                                              *)
ClaimStates == {"heard", "quiet", "overdue"}
AckStates == ClaimStates \cup {"none", "completed"}

ContainerStates ==
  [ phase  : {"off", "booting", "idle", "scripts", "query"},
    batch  : SUBSET Rows,         \* processingIds of the outer loop
    follow : SUBSET Rows,         \* follow-ups whose scripts are awaited
    late   : SUBSET Rows,         \* ... though their query is over
    ended  : BOOLEAN,             \* endedForCommand
    events : 0..MaxEvents ]

NoRow == [ kind |-> "message", status |-> "absent", tries |-> 0,
           later |-> FALSE, series |-> 0, recurs |-> FALSE ]
Off == [ phase |-> "off", batch |-> {}, follow |-> {}, late |-> {},
         ended |-> FALSE, events |-> 0 ]

Init ==
  /\ rows = [i \in Rows |-> NoRow]
  /\ ack = [i \in Rows |-> "none"]
  /\ heartbeat = "none"
  /\ container = Off
  /\ sweep = "rest"
  /\ past = [ stops |-> 0, torn |-> 0, regular |-> {} ]

-----------------------------------------------------------------------------
(* The two databases                                                       *)

IsDue(i) == rows[i].status = "pending" /\ ~rows[i].later
Triggers(i) == rows[i].kind # "context"
Claims(a) == {i \in Rows : a[i] \in ClaimStates}
Running == container.phase # "off"

Mark(a, S, status) == [i \in Rows |-> IF i \in S THEN status ELSE a[i]]
Unclaimed(a) == Mark(a, Claims(a), "none")      \* DELETE ... 'processing'
Complete(a, S) == Mark(a, S, "completed")       \* markCompleted
Touched(a) == Mark(a, Claims(a), "heard")       \* touchHeartbeat

(* getPendingMessages: of the newest rows that are due, those without an   *)
(* acknowledgement of any kind.                                            *)
Newest(S) == {i \in S : Cardinality({j \in S : j > i}) < MaxPrompt}
Pending == {i \in Newest({j \in Rows : IsDue(j)}) : ack[i] = "none"}

(* The next row of messages_in, pending.                                   *)
Free == {i \in Rows : rows[i].status = "absent"}
Insert(R, i, row) == [R EXCEPT ![i] = row]

(* wakeContainer: what starts has no heartbeat yet.                        *)
Started == [Off EXCEPT !.phase = "booting"]
Wake(ok) ==
  IF ok /\ ~Running
  THEN /\ container' = Started
       /\ heartbeat' = "none"
       /\ ack' = Mark(ack, {i \in Rows : ack[i] = "heard"}, "quiet")
  ELSE UNCHANGED <<container, heartbeat, ack>>

-----------------------------------------------------------------------------
(* The host writes rows                                                    *)

(* The router stores an inbound message and wakes the container for one    *)
(* that triggers.                                                          *)
Receive(kind, woken) ==
  /\ Free # {}
  /\ kind \in Arrivals[Min(Free)] \ {"task"}
  /\ rows' = Insert(rows, Min(Free), [NoRow EXCEPT !.kind = kind,
                                                   !.status = "pending",
                                                   !.series = Min(Free)])
  /\ IF kind # "context" THEN Wake(woken)
     ELSE UNCHANGED <<container, heartbeat, ack>>
  /\ UNCHANGED <<sweep, past>>

(* handleScheduleTask; a task that is due at once comes due at once.  The  *)
(* bound leaves a recurring one a row to be cloned into.                   *)
Schedule(recurring) ==
  /\ Free # {}
  /\ "task" \in Arrivals[Min(Free)]
  /\ recurring => Cardinality(Free) > 1
  /\ rows' = Insert(rows, Min(Free),
               [ kind |-> "task", status |-> "pending", tries |-> 0,
                 later |-> TRUE, series |-> Min(Free), recurs |-> recurring ])
  /\ past' = IF recurring THEN [past EXCEPT !.regular = @ \cup {Min(Free)}]
             ELSE past
  /\ UNCHANGED <<ack, heartbeat, container, sweep>>

(* A row that is done; nothing reads its process_after any more.           *)
Done(row) == [row EXCEPT !.status = "completed", !.later = FALSE]

(* cancelTask, pauseTask, resumeTask: of the rows of a series those that   *)
(* are live, whichever row the agent remembers.                            *)
Live(s, statuses) ==
  {i \in Rows : rows[i].kind = "task" /\ rows[i].series = s
                 /\ rows[i].status \in statuses}

(* The rows of S become those of new.                                      *)
Order(S, new) ==
  /\ S # {}
  /\ rows' = [i \in Rows |-> IF i \in S THEN new[i] ELSE rows[i]]
  /\ UNCHANGED <<ack, heartbeat, container, sweep>>

CancelTask(s) ==
  /\ Order(Live(s, {"pending", "paused"}),
           [i \in Rows |-> [Done(rows[i]) EXCEPT !.recurs = FALSE]])
  /\ past' = [past EXCEPT !.regular = @ \ {s}]

PauseTask(s) ==
  /\ Order(Live(s, {"pending"}), [i \in Rows |-> [rows[i] EXCEPT !.status = "paused"]])
  /\ UNCHANGED past

ResumeTask(s) ==
  /\ Order(Live(s, {"paused"}), [i \in Rows |-> [rows[i] EXCEPT !.status = "pending"]])
  /\ UNCHANGED past

-----------------------------------------------------------------------------
(* The sweep of the host                                                   *)

(* syncProcessingAcks                                                      *)
Synced ==
  [i \in Rows |-> IF ack[i] = "completed" THEN Done(rows[i]) ELSE rows[i]]

(* One claimed row of resetStuckProcessingRows.                            *)
Retry(R, i) ==
  IF R[i].status # "pending" \/ R[i].later THEN R[i]
  ELSE IF R[i].tries >= MaxTries THEN [R[i] EXCEPT !.status = "failed"]
  ELSE [R[i] EXCEPT !.tries = @ + 1, !.later = TRUE]

(* resetStuckProcessingRows; deleting the claims may fail.                 *)
Reset(R, deleted) ==
  /\ rows' = [i \in Rows |-> IF i \in Claims(ack) THEN Retry(R, i) ELSE R[i]]
  /\ ack' = IF deleted THEN Unclaimed(ack) ELSE ack

(* Mutant: a container is judged by its heartbeat only.                    *)
StuckByHeartbeat == Ceiling /\ heartbeat = "stale"

(* decideStuckAction                                                       *)
Stuck ==
  \/ Ceiling /\ heartbeat = "stale"
  \/ \E i \in Rows : ack[i] = "overdue"

(* getCompletedRecurring; without any the sweep is over.                   *)
Completed(R) == {i \in Rows : R[i].status = "completed" /\ R[i].recurs}
GoOn == sweep' = IF Completed(rows') = {} THEN "rest" ELSE "recurring"

(* Mutant: the rows are reset and the container lives on.                  *)
InspectSparing(R, deleted) ==
  /\ IF ~Running \/ Stuck THEN Reset(R, deleted)
     ELSE rows' = R /\ UNCHANGED ack
  /\ UNCHANGED container
  /\ GoOn

(* A container that is stuck is killed; claims without a container are     *)
(* retried.  Recurrences follow after an await.                            *)
Inspect(R, deleted) ==
  /\ IF ~Running \/ Stuck
     THEN Reset(R, deleted) /\ container' = Off
     ELSE rows' = R /\ UNCHANGED <<ack, container>>
  /\ GoOn

WorkWaits(R) ==
  \E i \in Rows : R[i].status = "pending" /\ ~R[i].later /\ Triggers(i)

(* sweepSession, with nothing to wake a container for.                     *)
Sweep(deleted) ==
  /\ sweep = "rest"
  /\ ~WorkWaits(Synced) \/ Running
  /\ Inspect(Synced, deleted)
  /\ UNCHANGED <<heartbeat, past>>

(* sweepSession, which wakes a container for due rows and awaits it.       *)
SweepWakes(woken) ==
  /\ sweep = "rest"
  /\ WorkWaits(Synced)
  /\ ~Running
  /\ rows' = Synced
  /\ Wake(woken)
  /\ sweep' = "waking"
  /\ UNCHANGED past

SweepWoken(deleted) ==
  /\ sweep = "waking"
  /\ Inspect(rows, deleted)
  /\ UNCHANGED <<heartbeat, past>>

Clone(i) == [rows[i] EXCEPT !.status = "pending", !.tries = 0, !.later = TRUE]

(* Mutant: the original loses its recurrence before the clone exists.      *)
TornBackwards(i, j) == [rows EXCEPT ![i].recurs = FALSE]

(* handleRecurrence stopped between insertRecurrence and clearRecurrence.  *)
Torn(i, j) == Insert(rows, j, Clone(i))

(* One row of handleRecurrence.                                            *)
Recur(i) ==
  /\ sweep = "recurring"
  /\ i \in Completed(rows)
  /\ Free # {}
  /\ rows' = [Insert(rows, Min(Free), Clone(i)) EXCEPT ![i].recurs = FALSE]
  /\ UNCHANGED <<ack, heartbeat, container, sweep, past>>

SweepOver ==
  /\ sweep = "recurring"
  /\ Completed(rows) = {} \/ Free = {}
  /\ sweep' = "rest"
  /\ UNCHANGED <<rows, ack, heartbeat, container, past>>

(* The host stops and starts again, which stops the containers it left.    *)
HostRestart ==
  /\ past.stops < MaxStops
  /\ container' = Off
  /\ sweep' = "rest"
  /\ UNCHANGED <<ack, heartbeat>>

Restart ==
  /\ HostRestart
  /\ past' = [past EXCEPT !.stops = @ + 1]
  /\ UNCHANGED rows

RestartInRecurrence(i) ==
  /\ HostRestart
  /\ sweep = "recurring"
  /\ i \in Completed(rows)
  /\ Free # {}
  /\ rows' = Torn(i, Min(Free))
  /\ past' = [past EXCEPT !.stops = @ + 1, !.torn = @ + 1]

-----------------------------------------------------------------------------
(* The poll loop of the container                                          *)

(* Mutant: all acknowledgements are cleared, not only the claims.          *)
BootForgetful ==
  /\ container.phase = "booting"
  /\ container' = [container EXCEPT !.phase = "idle"]
  /\ ack' = [i \in Rows |-> "none"]
  /\ UNCHANGED <<rows, heartbeat, sweep, past>>

(* clearStaleProcessingAcks                                                *)
Boot ==
  /\ container.phase = "booting"
  /\ container' = [container EXCEPT !.phase = "idle"]
  /\ ack' = Unclaimed(ack)
  /\ UNCHANGED <<rows, heartbeat, sweep, past>>

Tasks(S) == {i \in S : rows[i].kind = "task"}
Commands(S) == {i \in S : rows[i].kind = "command"}

(* markProcessing of S, and the script that starts if a task has one.      *)
(* A claim is timed in whole seconds, so a heartbeat of the same second    *)
(* counts as a later one, whenever it was.                                 *)
Claim(S, a, seen, scripted) ==
  /\ scripted => seen /\ Tasks(S) # {}
  /\ seen => scripted \/ heartbeat = "fresh"
  /\ ack' = Mark(IF scripted THEN Touched(a) ELSE a, S,
                 IF seen THEN "heard" ELSE "quiet")
  /\ heartbeat' = IF scripted THEN "fresh" ELSE heartbeat

(* applyPreTaskScripts has run for S: it gates the tasks in skipped, and   *)
(* then the rows in done are done.                                         *)
Scripted(S, skipped, touched, done) ==
  /\ skipped \subseteq Tasks(S)
  /\ skipped # {} => touched
  /\ touched => Tasks(S) # {}
  /\ ack' = Complete(IF touched THEN Touched(ack) ELSE ack, done)
  /\ heartbeat' = IF touched THEN "fresh" ELSE heartbeat

(* runPollLoop takes what is pending if something in it triggers.  A       *)
(* /clear is done at once, the rest is the batch.                          *)
Poll(cleared, seen, scripted) ==
  LET batch == Pending \ cleared
  IN /\ container.phase = "idle"
     /\ \E i \in Pending : Triggers(i)
     /\ cleared \subseteq Commands(Pending)
     /\ Claim(batch, Complete(ack, cleared), seen, scripted)
     /\ container' = IF batch = {} THEN container
                     ELSE [container EXCEPT !.phase = "scripts",
                                            !.batch = batch]
     /\ UNCHANGED <<rows, sweep, past>>

(* The scripts of the batch have run; what they keep goes to the agent.    *)
ScriptsRan(skipped, touched) ==
  LET keep == container.batch \ skipped
  IN /\ container.phase = "scripts"
     /\ Scripted(container.batch, skipped, touched, skipped)
     /\ container' = [container EXCEPT
                        !.phase = IF keep = {} THEN "idle" ELSE "query",
                        !.batch = keep, !.ended = FALSE, !.events = 0]
     /\ UNCHANGED <<rows, sweep, past>>

(* The poll of an open query: a command ends the stream, anything else is  *)
(* claimed, context included.                                              *)
EndForCommand ==
  /\ container.phase = "query"
  /\ container.follow = {}
  /\ ~container.ended
  /\ Commands(Pending) # {}
  /\ container' = [container EXCEPT !.ended = TRUE]
  /\ UNCHANGED <<rows, ack, heartbeat, sweep, past>>

FollowUp(seen, scripted) ==
  /\ container.phase = "query"
  /\ container.follow = {}
  /\ ~container.ended
  /\ Pending # {} /\ Commands(Pending) = {}
  /\ Claim(Pending, ack, seen, scripted)
  /\ container' = [container EXCEPT !.follow = Pending]
  /\ UNCHANGED <<rows, sweep, past>>

(* The scripts of follow-ups have run while the query is open: what they   *)
(* keep is pushed and counts as done, or an error leaves it claimed.       *)
Pushed(skipped, touched, ok) ==
  /\ container.phase = "query"
  /\ container.follow # {}
  /\ Scripted(container.follow, skipped, touched,
              IF ok THEN container.follow ELSE skipped)
  /\ container' = [container EXCEPT !.follow = {}]
  /\ UNCHANGED <<rows, sweep, past>>

(* They have run, but the query is over: what they keep stays claimed.     *)
PushedTooLate(skipped, touched) ==
  /\ container.late # {}
  /\ Scripted(container.late, skipped, touched, skipped)
  /\ container' = [container EXCEPT !.late = {}]
  /\ UNCHANGED <<rows, sweep, past>>

(* An event of the query touches the heartbeat; a result completes the     *)
(* batch and leaves the query open.                                        *)
Event(result) ==
  /\ container.phase = "query"
  /\ container.events < MaxEvents
  /\ heartbeat' = "fresh"
  /\ ack' = Complete(Touched(ack), IF result THEN container.batch ELSE {})
  /\ container' = [container EXCEPT !.events = @ + 1]
  /\ UNCHANGED <<rows, sweep, past>>

(* The stream ends or fails; the batch is done in any case.                *)
QueryOver ==
  /\ container.phase = "query"
  /\ ack' = Complete(ack, container.batch)
  /\ container' = [container EXCEPT
                     !.phase = "idle", !.batch = {}, !.follow = {},
                     !.late = @ \cup container.follow,
                     !.ended = FALSE, !.events = 0]
  /\ UNCHANGED <<rows, heartbeat, sweep, past>>

Crash ==
  /\ Running
  /\ past.stops < MaxStops
  /\ container' = Off
  /\ past' = [past EXCEPT !.stops = @ + 1]
  /\ UNCHANGED <<rows, ack, heartbeat, sweep>>

-----------------------------------------------------------------------------
(* Time                                                                    *)

ComesDue(i) ==
  /\ rows[i].later
  /\ rows' = [rows EXCEPT ![i].later = FALSE]
  /\ UNCHANGED <<ack, heartbeat, container, sweep, past>>

ClaimAges(i) ==
  /\ ack[i] = "quiet"
  /\ ack' = [ack EXCEPT ![i] = "overdue"]
  /\ UNCHANGED <<rows, heartbeat, container, sweep, past>>

HeartbeatAges ==
  /\ heartbeat = "fresh"
  /\ heartbeat' = "stale"
  /\ UNCHANGED <<rows, ack, container, sweep, past>>

-----------------------------------------------------------------------------
Sweeping ==
  \/ \E deleted \in BOOLEAN : Sweep(deleted)
  \/ \E woken \in BOOLEAN : SweepWakes(woken)
  \/ \E deleted \in BOOLEAN : SweepWoken(deleted)
  \/ SweepOver

AnyPoll ==
  \E cleared \in SUBSET Rows, seen, scripted \in BOOLEAN :
    Poll(cleared, seen, scripted)
AnyScriptsRan ==
  \E skipped \in SUBSET Rows, touched \in BOOLEAN : ScriptsRan(skipped, touched)

Next ==
  \/ \E kind \in Kinds, woken \in BOOLEAN : Receive(kind, woken)
  \/ \E recurring \in BOOLEAN : Schedule(recurring)
  \/ \E s \in Rows : CancelTask(s) \/ PauseTask(s) \/ ResumeTask(s)
  \/ Sweeping
  \/ \E i \in Rows : Recur(i)
  \/ Restart
  \/ \E i \in Rows : RestartInRecurrence(i)
  \/ Boot
  \/ AnyPoll
  \/ AnyScriptsRan
  \/ EndForCommand
  \/ \E seen, scripted \in BOOLEAN : FollowUp(seen, scripted)
  \/ \E skipped \in SUBSET Rows, touched, ok \in BOOLEAN :
       Pushed(skipped, touched, ok)
  \/ \E skipped \in SUBSET Rows, touched \in BOOLEAN :
       PushedTooLate(skipped, touched)
  \/ \E result \in BOOLEAN : Event(result)
  \/ QueryOver
  \/ Crash
  \/ \E i \in Rows : ComesDue(i)
  \/ \E i \in Rows : ClaimAges(i)
  \/ HeartbeatAges

Spec == Init /\ [][Next]_vars

(* Both loops go on, scripts are killed after a while, time passes, and    *)
(* neither starting a container nor deleting its claims fails for ever.    *)
(* Nothing makes an agent answer: a query may be silent for good.          *)
FairSpec ==
  /\ Spec
  /\ SF_vars(Sweep(TRUE))
  /\ SF_vars(SweepWoken(TRUE))
  /\ SF_vars(SweepWakes(TRUE))
  /\ WF_vars(\E i \in Rows : Recur(i))
  /\ WF_vars(SweepOver)
  /\ WF_vars(Boot)
  /\ WF_vars(AnyPoll)
  /\ WF_vars(AnyScriptsRan)
  /\ \A i \in Rows : WF_vars(ComesDue(i)) /\ WF_vars(ClaimAges(i))
  /\ WF_vars(HeartbeatAges)

-----------------------------------------------------------------------------
(* Types.                                                                  *)
TypeOK ==
  /\ rows \in [Rows -> RowStates]
  /\ ack \in [Rows -> AckStates]
  /\ heartbeat \in {"none", "fresh", "stale"}
  /\ container \in ContainerStates
  /\ sweep \in {"rest", "waking", "recurring"}
  /\ past \in [ stops : 0..MaxStops, torn : 0..MaxStops,
                regular : SUBSET Rows ]

(* What a container has finished is never claimed again, by it or by a     *)
(* later one, whatever is lost between its acknowledgement and the host's  *)
(* next sweep.                                                             *)
DoneStaysDone ==
  [][\A i \in Rows : ack[i] = "completed" => ack'[i] = "completed"]_vars

(* The rows a live container works on stay claimed by it, so nothing else  *)
(* retries them or takes them: the host writes into the container's        *)
(* database only when the container is gone.                               *)
WorkIsClaimed ==
  \A i \in container.batch \cup container.follow \cup container.late :
    ack[i] # "none"

Carriers(s) == {i \in Rows : rows[i].series = s /\ rows[i].recurs}

(* A recurring task that was not cancelled has a row that carries it on,   *)
(* wherever the host stops in between, and another one only if the host    *)
(* stopped after cloning a row and before clearing the original.           *)
OneCarrier ==
  \A s \in past.regular :
    Cardinality(Carriers(s)) \in 1..(1 + past.torn)

(* More rows than a prompt holds are due and newer than i, and none of     *)
(* them triggers: the container's query does not reach i.                  *)
Buried(i) == i \notin Newest({j \in Rows : IsDue(j)})

(* If the ceiling is enabled, every row that triggers is settled in the    *)
(* end, however its containers crash, fall silent or leave it claimed: it  *)
(* is completed or failed, or paused, or buried under newer context.       *)
EventuallySettled ==
  \A i \in Rows :
    (Ceiling /\ rows[i].status = "pending" /\ Triggers(i))
      ~> (rows[i].status \in {"completed", "failed", "paused"} \/ Buried(i))
=============================================================================
