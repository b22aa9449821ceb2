---------------------------- MODULE TaskScheduler ----------------------------
(***************************************************************************)
(* Scheduled tasks: the rows of scheduled_tasks (src/db.ts), the loop that *)
(* finds due ones and the function that runs one (src/task-scheduler.ts),  *)
(* the calls of agents and users that change rows meanwhile (src/ipc.ts),  *)
(* and the daily summary every spawn of an agent re-registers              *)
(* (src/memory/cron.ts).                                                   *)
(*                                                                         *)
(* A run works with the row as it was when the loop found it: it may wait  *)
(* for a slot of the queue and take any time, and rows change meanwhile.   *)
(* The queue has one run of a task at a time (GroupQueue, EnqueueTask).    *)
(* Time is counted in ticks from 1; a cron schedule is every k-th tick.    *)
(***************************************************************************)
EXTENDS Integers

CONSTANTS
  Tasks,
  SystemTasks,   \* tasks of kind `system': the daily summary
  Legacy,        \* tasks whose row has a malformed group folder at first
  Periods,       \* schedule values of intervals and crons
  MaxMissing,    \* MAX_CONSECUTIVE_GROUP_MISSING
  MaxTime,       \* bound: ticks
  MaxMoves       \* bound: calls, restarts, groups that come and go

ASSUME SchedulerAssumption ==
  /\ SystemTasks \subseteq Tasks /\ Legacy \subseteq Tasks
  /\ Periods \subseteq Nat \ {0} /\ Periods # {}
  /\ MaxMissing \in Nat \ {0}
  /\ MaxTime \in Nat /\ MaxMoves \in Nat

VARIABLES
  now,
  row,           \* the table
  run,           \* the run of a task, waiting or in progress, with its row
  registered,    \* is the group of the tasks registered?
  moves,
  past           \* ghost: what became of earlier runs

vars == <<now, row, run, registered, moves, past>>

NULL == 0

Rows ==
  [ status  : {"absent", "active", "paused", "completed"},
    valid   : BOOLEAN,                 \* does group_folder resolve?
    type    : {"once", "interval", "cron"},
    every   : Periods,                 \* schedule_value
    cron    : BOOLEAN,                 \* is schedule_value a cron expression?
    next    : Nat,                     \* next_run, or NULL
    missing : 0..MaxMissing ]          \* consecutive_group_missing

SomePeriod == CHOOSE p \in Periods : TRUE

Absent ==
  [ status |-> "absent", valid |-> TRUE, type |-> "once",
    every |-> SomePeriod, cron |-> FALSE, next |-> NULL, missing |-> 0 ]

NoRun == [phase |-> "none", row |-> Absent]

Runs == [phase : {"none", "waiting", "running"}, row : Rows]

Pasts ==
  [ ran    : Nat,     \* the latest due time whose run is over
    streak : Nat,     \* latest runs in a row that missed the group
    origin : Nat ]    \* next_run when the interval was set, if no run was on

Init ==
  /\ now = 1
  /\ row = [t \in Tasks |->
              IF t \in Legacy
              THEN [Absent EXCEPT !.status = "active", !.valid = FALSE, !.next = 1]
              ELSE Absent]
  /\ run = [t \in Tasks |-> NoRun]
  /\ registered = TRUE
  /\ moves = 0
  /\ past = [t \in Tasks |-> [ran |-> 0, streak |-> 0, origin |-> 0]]

-----------------------------------------------------------------------------
(* When a task runs next.                                                  *)

NextCron(every, time) == every * (time \div every + 1)

(* The first run of a new schedule.                                        *)
FirstRun(type, every, time) ==
  IF type = "cron" THEN NextCron(every, time) ELSE time + every

(* Mutant: an interval starts again from when the run was over.            *)
ComputeNextRunFromNow(r, time) ==
  CASE r.type = "once" -> NULL
    [] r.type = "cron" -> NextCron(r.every, time)
    [] r.type = "interval" -> time + r.every

(* An interval is anchored to the scheduled time; what was missed is       *)
(* skipped.  An interval whose value is a cron expression (see Drifted) is *)
(* due again at once: the number it begins with is taken for milliseconds. *)
ComputeNextRun(r, time) ==
  CASE r.type = "once" -> NULL
    [] r.type = "cron" -> NextCron(r.every, time)
    [] r.type = "interval" ->
         IF r.cron THEN time + 1
         ELSE IF r.next > time THEN r.next + r.every
         ELSE r.next + r.every * ((time - r.next) \div r.every + 1)

(* updateTaskAfterRun, which finds no row when the task was cancelled.     *)
UpdateTaskAfterRun(r, next) ==
  IF r.status = "absent" THEN r
  ELSE [r EXCEPT !.next = next,
                 !.status = IF next = NULL THEN "completed" ELSE @]

-----------------------------------------------------------------------------
(* The scheduler.                                                          *)

Due(t) == /\ row[t].status = "active"
          /\ row[t].next # NULL
          /\ row[t].next <= now

(* The loop hands every due task to the queue, which skips those it has.   *)
Poll ==
  LET found == {t \in Tasks : Due(t) /\ run[t].phase = "none"} IN
  /\ found # {}
  /\ run' = [t \in Tasks |->
               IF t \in found THEN [phase |-> "waiting", row |-> row[t]]
               ELSE run[t]]
  /\ UNCHANGED <<now, row, registered, moves, past>>

Over(t) == run' = [run EXCEPT ![t] = NoRun]

(* Mutant: a run that cannot start leaves the task due.                    *)
StartMalformedUnpaused(t) ==
  /\ run[t].phase = "waiting"
  /\ ~run[t].row.valid
  /\ Over(t)
  /\ UNCHANGED <<now, row, registered, moves, past>>

(* The queue has a slot for the run, and the folder is malformed.          *)
StartMalformed(t) ==
  /\ run[t].phase = "waiting"
  /\ ~run[t].row.valid
  /\ row' = [row EXCEPT ![t].status = IF @ = "absent" THEN @ ELSE "paused"]
  /\ Over(t)
  /\ UNCHANGED <<now, registered, moves, past>>

(* Mutant: a task that misses its group stays due.                         *)
MissedAgain(t) ==
  LET m == row[t].missing + 1 IN
  IF row[t].status = "absent" THEN row[t]
  ELSE IF m >= MaxMissing /\ t \in SystemTasks THEN Absent
  ELSE [row[t] EXCEPT !.missing = IF m > MaxMissing THEN @ ELSE m,
                      !.status = IF m >= MaxMissing THEN "paused" ELSE @]

(* The row after the group was missed: counted, and at the limit paused,   *)
(* or deleted if the task is the system's.  (The count is capped here; no  *)
(* code tells numbers beyond the limit apart.)                             *)
Missed(t) ==
  LET m == row[t].missing + 1
      counted == [row[t] EXCEPT
                    !.missing = IF m > MaxMissing THEN @ ELSE m,
                    !.status = IF m >= MaxMissing THEN "paused" ELSE @]
  IN IF row[t].status = "absent" THEN row[t]
     ELSE IF m >= MaxMissing /\ t \in SystemTasks THEN Absent
     ELSE UpdateTaskAfterRun(counted, ComputeNextRun(run[t].row, now))

StartMissing(t) ==
  /\ run[t].phase = "waiting"
  /\ run[t].row.valid
  /\ ~registered
  /\ row' = [row EXCEPT ![t] = Missed(t)]
  /\ Over(t)
  /\ past' = [past EXCEPT ![t].ran = run[t].row.next, ![t].streak = @ + 1]
  /\ UNCHANGED <<now, registered, moves>>

(* Mutant: the count of misses outlives the group's return.                *)
StartUncleared(t) ==
  /\ run[t].phase = "waiting"
  /\ run[t].row.valid
  /\ registered
  /\ run' = [run EXCEPT ![t].phase = "running"]
  /\ past' = [past EXCEPT ![t].streak = 0]
  /\ UNCHANGED <<now, row, registered, moves>>

(* The group is there: the count is cleared if the captured row has one,   *)
(* and the agent started.                                                  *)
Start(t) ==
  /\ run[t].phase = "waiting"
  /\ run[t].row.valid
  /\ registered
  /\ run' = [run EXCEPT ![t].phase = "running"]
  /\ row' = [row EXCEPT ![t].missing = IF run[t].row.missing > 0 THEN 0 ELSE @]
  /\ past' = [past EXCEPT ![t].streak = 0]
  /\ UNCHANGED <<now, registered, moves>>

(* The agent has answered or failed; the row is moved on from the captured *)
(* schedule.                                                               *)
End(t) ==
  /\ run[t].phase = "running"
  /\ row' = [row EXCEPT ![t] =
               UpdateTaskAfterRun(@, ComputeNextRun(run[t].row, now))]
  /\ Over(t)
  /\ past' = [past EXCEPT ![t].ran = run[t].row.next]
  /\ UNCHANGED <<now, registered, moves>>

-----------------------------------------------------------------------------
(* What happens to rows meanwhile.                                         *)

Move == moves < MaxMoves /\ moves' = moves + 1

Origin(t, type, next) ==
  IF type = "interval" /\ run[t].phase = "none" THEN next ELSE 0

(* schedule_task; a task that is to run once may be late already.          *)
Schedule(t, type, every, at) ==
  LET next == IF type = "once" THEN at ELSE FirstRun(type, every, now) IN
  /\ Move
  /\ t \notin SystemTasks
  /\ row[t].status = "absent"
  /\ registered
  /\ row' = [row EXCEPT ![t] =
               [Absent EXCEPT !.status = "active", !.type = type,
                              !.every = every, !.cron = type = "cron",
                              !.next = next]]
  /\ past' = [past EXCEPT ![t] = [ran |-> 0, streak |-> 0,
                                  origin |-> Origin(t, type, next)]]
  /\ UNCHANGED <<now, run, registered>>

SetStatus(t, status) ==
  /\ Move
  /\ row[t].status # "absent"
  /\ row' = [row EXCEPT ![t].status = status]
  /\ UNCHANGED <<now, run, registered, past>>

PauseTask(t) == SetStatus(t, "paused")
ResumeTask(t) == SetStatus(t, "active")

CancelTask(t) ==
  /\ Move
  /\ row[t].status # "absent"
  /\ row' = [row EXCEPT ![t] = Absent]
  /\ UNCHANGED <<now, run, registered, past>>

(* update_task: a new cron or interval also moves next_run.                *)
UpdateTask(t, type, every) ==
  LET next == IF type = "once" THEN row[t].next ELSE FirstRun(type, every, now)
  IN /\ Move
     /\ row[t].status # "absent"
     /\ row' = [row EXCEPT ![t].type = type, ![t].every = every,
                           ![t].cron = type = "cron", ![t].next = next]
     /\ past' = [past EXCEPT ![t].origin = Origin(t, type, next)]
     /\ UNCHANGED <<now, run, registered>>

(* ensureDailySummaryTask, on the spawn of an agent; `every' is the        *)
(* configured schedule.  An interval that update_task gave the row is      *)
(* overwritten by the cron expression, and the row stays an interval.      *)
Drifted(r, every) ==
  IF r.cron /\ r.every = every THEN r
  ELSE [r EXCEPT !.every = every, !.cron = TRUE, !.next = NextCron(every, now)]

Resumed(r, was, every) ==
  IF was.status = "paused" /\ was.missing > 0
  THEN [r EXCEPT !.status = "active", !.missing = 0, !.next = NextCron(every, now)]
  ELSE r

EnsureDailySummary(t, enabled, every) ==
  LET old == row[t] IN
  /\ t \in SystemTasks
  /\ registered
  /\ Move
  /\ row' = [row EXCEPT ![t] =
       IF ~enabled
       THEN [old EXCEPT !.status = IF @ = "active" THEN "paused" ELSE @]
       ELSE IF old.status = "absent"
       THEN [Absent EXCEPT !.status = "active", !.type = "cron", !.every = every,
                           !.cron = TRUE, !.next = NextCron(every, now)]
       ELSE Resumed(Drifted(old, every), old, every)]
  /\ past' = [past EXCEPT ![t] =
       IF ~enabled THEN @
       ELSE IF old.status = "absent" THEN [ran |-> 0, streak |-> 0, origin |-> 0]
       ELSE [@ EXCEPT !.origin = 0]]
  /\ UNCHANGED <<now, run, registered>>

(* The group of the tasks is unregistered, or comes back.                  *)
GroupChange ==
  /\ Move
  /\ registered' = ~registered
  /\ UNCHANGED <<now, row, run, past>>

(* The daemon stops at any point and starts again: runs are forgotten.     *)
Restart ==
  /\ Move
  /\ run' = [t \in Tasks |-> NoRun]
  /\ UNCHANGED <<now, row, registered, past>>

Tick ==
  /\ now < MaxTime
  /\ now' = now + 1
  /\ UNCHANGED <<row, run, registered, moves, past>>

-----------------------------------------------------------------------------
RunStep(t) == StartMalformed(t) \/ StartMissing(t) \/ Start(t) \/ End(t)

Types == {"once", "interval", "cron"}

Next ==
  \/ Poll
  \/ \E t \in Tasks : StartMalformed(t)
  \/ \E t \in Tasks : StartMissing(t)
  \/ \E t \in Tasks : Start(t)
  \/ \E t \in Tasks : End(t)
  \/ \E t \in Tasks, type \in Types, every \in Periods, at \in 1..MaxTime :
       Schedule(t, type, every, at)
  \/ \E t \in Tasks : PauseTask(t)
  \/ \E t \in Tasks : ResumeTask(t)
  \/ \E t \in Tasks : CancelTask(t)
  \/ \E t \in Tasks, type \in Types, every \in Periods : UpdateTask(t, type, every)
  \/ \E t \in Tasks, enabled \in BOOLEAN, every \in Periods :
       EnsureDailySummary(t, enabled, every)
  \/ GroupChange
  \/ Restart
  \/ Tick

Spec == Init /\ [][Next]_vars

(* The loop polls again whatever happened, the queue comes round to every  *)
(* run that waits, and the runners end every run.                          *)
FairSpec == Spec /\ WF_vars(Poll) /\ \A t \in Tasks : WF_vars(RunStep(t))

-----------------------------------------------------------------------------
(* Types; at most MaxMissing misses are counted.                           *)
TypeOK ==
  /\ now \in 1..(MaxTime + 1)
  /\ row \in [Tasks -> Rows]
  /\ run \in [Tasks -> Runs]
  /\ registered \in BOOLEAN
  /\ moves \in 0..MaxMoves
  /\ past \in [Tasks -> Pasts]

(* A due time whose run is over is not run again, whatever was paused,     *)
(* resumed, edited or cancelled meanwhile, and across restarts: the row    *)
(* has moved on whenever the loop can find it due.                         *)
RunsOnce ==
  \A t \in Tasks :
    run[t].phase # "none" => run[t].row.next > past[t].ran

(* The count of misses is of runs in a row: a task is not paused, nor a    *)
(* system task deleted, when its group was found in between.               *)
StreakTrue ==
  \A t \in Tasks : row[t].missing <= past[t].streak

(* An interval keeps its phase, however late its runs start or end and     *)
(* whatever was missed, unless it was edited behind a run.                 *)
NoDrift ==
  \A t \in Tasks :
    LET r == row[t] IN
    r.type = "interval" /\ r.next # NULL /\ past[t].origin # 0 =>
      /\ r.next >= past[t].origin
      /\ (r.next - past[t].origin) % r.every = 0

(* A task does not stay due: it is run, and moves on to a time to come, or *)
(* is paused or gone.                                                      *)
DueServed == \A t \in Tasks : Due(t) ~> ~Due(t)
=============================================================================
