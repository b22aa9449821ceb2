------------------------- MODULE TaskSchedulerProof -------------------------
(***************************************************************************)
(* What TaskScheduler guarantees for any tasks, schedules and limit of     *)
(* misses, and for any number of calls, restarts and ticks.                *)
(***************************************************************************)
EXTENDS TaskScheduler, TLAPS

(* Of a task with row r, run u and past p at time n: the due times that    *)
(* are over lie behind those to come and the one being run, and the misses *)
(* on the row, seen by a run that waits, are misses in a row.              *)
TaskInv(r, u, p, n) ==
  /\ p.ran <= n
  /\ r.next # NULL => r.next > p.ran
  /\ r.status = "absent" => r.next = NULL
  /\ u.phase # "none" => u.row.next > p.ran /\ u.row.next <= n
  /\ r.missing <= p.streak
  /\ u.phase = "waiting" => r.missing <= u.row.missing

IInv == TypeOK /\ \A t \in Tasks : TaskInv(row[t], run[t], past[t], now)

-----------------------------------------------------------------------------
(* Operators.                                                              *)

LEMMA Multiples ==
  ASSUME NEW a \in Nat, NEW e \in Nat \ {0}
  PROVE  /\ a \div e \in Nat
         /\ e * (a \div e + 1) \in Nat
         /\ a < e * (a \div e + 1)
BY Z3

(* A cron, or a new schedule, next runs in the future.                     *)
LEMMA NextCronLater ==
  ASSUME NEW every \in Periods, NEW time \in Nat
  PROVE  NextCron(every, time) \in Nat /\ NextCron(every, time) > time
BY Multiples, SchedulerAssumption DEF NextCron

LEMMA FirstRunLater ==
  ASSUME NEW type, NEW every \in Periods, NEW time \in Nat
  PROVE  FirstRun(type, every, time) \in Nat /\ FirstRun(type, every, time) > time
BY NextCronLater, SchedulerAssumption DEF FirstRun

(* So does a task that was run, unless it was to run once.                 *)
LEMMA ComputeNextRunLater ==
  ASSUME NEW r \in Rows, NEW time \in Nat
  PROVE  LET n == ComputeNextRun(r, time) IN
         n \in Nat /\ (n # NULL => n > time)
<1>1. /\ r.next \in Nat /\ r.every \in Periods
      /\ r.every \in Nat \ {0} /\ r.type \in {"once", "interval", "cron"}
      /\ r.cron \in BOOLEAN
  BY SchedulerAssumption DEF Rows
<1>2. CASE r.type = "once"
  BY <1>2 DEF ComputeNextRun, NULL
<1>3. CASE r.type = "cron"
  BY <1>1, <1>3, NextCronLater DEF ComputeNextRun
<1>4. CASE r.type = "interval" /\ (r.cron \/ r.next > time)
  BY <1>1, <1>4 DEF ComputeNextRun
<1>5. CASE r.type = "interval" /\ ~r.cron /\ r.next <= time
  <2> DEFINE a == time - r.next
             k == r.every * (a \div r.every + 1)
  <2>1. a \in Nat /\ r.next + a = time
    BY <1>1, <1>5
  <2> HIDE DEF a
  <2>2. k \in Nat /\ a < k
    BY <1>1, <2>1, Multiples
  <2>3. ComputeNextRun(r, time) = r.next + k
    BY <1>1, <1>5 DEF ComputeNextRun, a
  <2> HIDE DEF k
  <2> QED
    BY <1>1, <2>1, <2>2, <2>3
<1> QED
  BY <1>1, <1>2, <1>3, <1>4, <1>5

LEMMA AbsentRow ==
  /\ Absent \in Rows /\ Absent.status = "absent"
  /\ Absent.next = NULL /\ Absent.missing = 0
BY SchedulerAssumption DEF Absent, Rows, SomePeriod, NULL

LEMMA UpdatedRow ==
  ASSUME NEW r \in Rows, NEW n \in Nat
  PROVE  LET y == UpdateTaskAfterRun(r, n) IN
         /\ y \in Rows /\ y.missing = r.missing
         /\ y.next = IF r.status = "absent" THEN r.next ELSE n
         /\ y.status = "absent" => r.status = "absent"
BY DEF UpdateTaskAfterRun, Rows

-----------------------------------------------------------------------------
\* The invariant holds at the start, ...
THEOREM InitGood == Init => IInv
<1> SUFFICES ASSUME Init PROVE IInv
  OBVIOUS
<1> DEFINE legacy == [Absent EXCEPT !.status = "active", !.valid = FALSE, !.next = 1]
<1>1. /\ legacy \in Rows /\ legacy.missing = 0 /\ legacy.next = 1
      /\ legacy.status = "active"
  BY AbsentRow DEF Rows
<1> HIDE DEF legacy
<1>2. \A t \in Tasks : row[t] = IF t \in Legacy THEN legacy ELSE Absent
  BY DEF Init, legacy
<1>3. row \in [Tasks -> Rows]
  BY <1>1, AbsentRow DEF Init, legacy
<1>4. NoRun \in Runs /\ NoRun.phase = "none"
  BY AbsentRow DEF NoRun, Runs
<1>5. TypeOK
  BY <1>3, <1>4, SchedulerAssumption DEF Init, TypeOK, Pasts
<1>6. ASSUME NEW t \in Tasks PROVE TaskInv(row[t], run[t], past[t], now)
  BY <1>1, <1>2, <1>4, AbsentRow DEF Init, TaskInv, NULL
<1> QED
  BY <1>5, <1>6 DEF IInv

(* A step that concerns one task.                                          *)
LEMMA OneTask ==
  ASSUME IInv, NEW t \in Tasks,
         NEW r \in Rows, NEW u \in Runs, NEW p \in Pasts,
         row' = [row EXCEPT ![t] = r],
         run' = [run EXCEPT ![t] = u],
         past' = [past EXCEPT ![t] = p],
         moves' \in 0..MaxMoves,
         UNCHANGED <<now, registered>>,
         TaskInv(r, u, p, now)
  PROVE  IInv'
<1>1. TypeOK'
  BY DEF IInv, TypeOK
<1>2. ASSUME NEW x \in Tasks PROVE TaskInv(row[x], run[x], past[x], now)'
  <2>1. CASE x = t
    BY <2>1 DEF IInv, TypeOK, TaskInv
  <2>2. CASE x # t
    BY <2>2 DEF IInv, TypeOK, TaskInv
  <2> QED
    BY <2>1, <2>2
<1> QED
  BY <1>1, <1>2 DEF IInv

(* What is known of one task.                                              *)
LEMMA Known ==
  ASSUME IInv, NEW t \in Tasks
  PROVE  /\ row[t] \in Rows /\ run[t] \in Runs /\ past[t] \in Pasts
         /\ run[t].row \in Rows /\ now \in Nat /\ moves \in 0..MaxMoves
         /\ row[t].next \in Nat /\ row[t].missing \in 0..MaxMissing
         /\ row[t].missing \in Nat
         /\ run[t].row.next \in Nat /\ run[t].row.missing \in Nat
         /\ past[t].ran \in Nat /\ past[t].streak \in Nat
         /\ row = [row EXCEPT ![t] = row[t]]
         /\ run = [run EXCEPT ![t] = run[t]]
         /\ past = [past EXCEPT ![t] = past[t]]
         /\ TaskInv(row[t], run[t], past[t], now)
         /\ NoRun \in Runs /\ NoRun.phase = "none"
<1>1. row[t] \in Rows /\ run[t] \in Runs /\ past[t] \in Pasts
  BY DEF IInv, TypeOK
<1>2. now \in Nat /\ moves \in 0..MaxMoves
  BY DEF IInv, TypeOK
<1>3. run[t].row \in Rows
  BY <1>1 DEF Runs
<1>4. /\ row[t].next \in Nat /\ row[t].missing \in 0..MaxMissing
      /\ row[t].missing \in Nat
      /\ run[t].row.next \in Nat /\ run[t].row.missing \in Nat
      /\ past[t].ran \in Nat /\ past[t].streak \in Nat
  BY <1>1, <1>3, SchedulerAssumption DEF Rows, Pasts
<1>5. /\ row = [row EXCEPT ![t] = row[t]]
      /\ run = [run EXCEPT ![t] = run[t]]
      /\ past = [past EXCEPT ![t] = past[t]]
  BY DEF IInv, TypeOK
<1>6. NoRun \in Runs /\ NoRun.phase = "none"
  BY AbsentRow DEF NoRun, Runs
<1> QED
  BY <1>1, <1>2, <1>3, <1>4, <1>5, <1>6 DEF IInv

-----------------------------------------------------------------------------
(* The scheduler.                                                          *)

LEMMA PollStep == ASSUME IInv, Poll PROVE IInv'
<1> DEFINE found == {t \in Tasks : Due(t) /\ run[t].phase = "none"}
<1>1. /\ run' = [t \in Tasks |->
                   IF t \in found THEN [phase |-> "waiting", row |-> row[t]]
                   ELSE run[t]]
      /\ UNCHANGED <<now, row, registered, moves, past>>
  BY DEF Poll
<1>2. \A t \in Tasks : row[t] \in Rows /\ run[t] \in Runs
  BY Known
<1>3. TypeOK'
  BY <1>1, <1>2 DEF IInv, TypeOK, Runs
<1>4. ASSUME NEW t \in Tasks PROVE TaskInv(row[t], run[t], past[t], now)'
  <2>1. CASE t \in found
    <3>1. run'[t].phase = "waiting" /\ run'[t].row = row[t]
      BY <1>1, <2>1
    <3>2. row[t].next # NULL /\ row[t].next <= now
      BY <2>1 DEF Due
    <3> QED
      BY <1>1, <3>1, <3>2, Known DEF TaskInv
  <2>2. CASE t \notin found
    <3>1. run'[t] = run[t]
      BY <1>1, <2>2
    <3> QED
      BY <1>1, <3>1, Known DEF TaskInv
  <2> QED
    BY <2>1, <2>2
<1> QED
  BY <1>3, <1>4 DEF IInv

LEMMA StartMalformedStep ==
  ASSUME IInv, NEW t \in Tasks, StartMalformed(t) PROVE IInv'
<1> DEFINE status == IF row[t].status = "absent" THEN "absent" ELSE "paused"
           r == [row[t] EXCEPT !.status = status]
<1>1. /\ row' = [row EXCEPT ![t] = r] /\ run' = [run EXCEPT ![t] = NoRun]
      /\ UNCHANGED <<now, registered, moves, past>>
  BY DEF StartMalformed, Over
<1>2. /\ status \in {"absent", "paused"}
      /\ status = "absent" => row[t].status = "absent"
  OBVIOUS
<1> HIDE DEF status
<1>3. /\ r \in Rows /\ r.next = row[t].next /\ r.missing = row[t].missing
      /\ r.status = status
  BY <1>2, Known DEF Rows
<1> HIDE DEF r
<1>4. TaskInv(r, NoRun, past[t], now)
  BY <1>2, <1>3, Known DEF TaskInv
<1> QED
  BY <1>1, <1>3, <1>4, Known, OneTask

(* A row that is there when the group is missed moves on, or loses its     *)
(* next run; one that is not stays as it is.                               *)
LEMMA MissedRow ==
  ASSUME IInv, NEW t \in Tasks
  PROVE  /\ Missed(t) \in Rows
         /\ Missed(t).missing <= row[t].missing + 1
         /\ Missed(t).next # NULL => Missed(t).next > now
         /\ Missed(t).status = "absent" => Missed(t).next = NULL
<1> DEFINE m == row[t].missing + 1
           missing == IF m > MaxMissing THEN row[t].missing ELSE m
           status == IF m >= MaxMissing THEN "paused" ELSE row[t].status
           counted == [row[t] EXCEPT !.missing = missing, !.status = status]
           n == ComputeNextRun(run[t].row, now)
<1>1. missing \in 0..MaxMissing /\ missing <= row[t].missing + 1
  BY Known, SchedulerAssumption
<1>2. status \in {"absent", "active", "paused", "completed"}
  BY Known DEF Rows
<1>3. n \in Nat /\ (n # NULL => n > now)
  BY Known, ComputeNextRunLater
<1>4. Missed(t) = IF row[t].status = "absent" THEN row[t]
                  ELSE IF m >= MaxMissing /\ t \in SystemTasks THEN Absent
                  ELSE UpdateTaskAfterRun(counted, n)
  BY DEF Missed
<1> HIDE DEF missing, status, n
<1>5. counted \in Rows /\ counted.missing = missing /\ counted.status = status
  BY <1>1, <1>2, Known DEF Rows
<1>6. row[t].status # "absent" => status # "absent"
  BY DEF status
<1> HIDE DEF counted
<1>7. CASE row[t].status = "absent"
  <2>1. Missed(t) = row[t] /\ row[t].next = NULL
    BY <1>4, <1>7, Known DEF TaskInv
  <2>2. row[t] \in Rows /\ row[t].missing \in Nat
    BY Known
  <2> QED
    BY <2>1, <2>2
<1>8. CASE row[t].status # "absent" /\ m >= MaxMissing /\ t \in SystemTasks
  <2>1. Missed(t) = Absent /\ row[t].missing \in Nat
    BY <1>4, <1>8, Known
  <2> QED
    BY <2>1, AbsentRow
<1>9. CASE row[t].status # "absent" /\ ~(m >= MaxMissing /\ t \in SystemTasks)
  <2>1. Missed(t) = UpdateTaskAfterRun(counted, n)
    BY <1>4, <1>9
  <2>2. /\ UpdateTaskAfterRun(counted, n) \in Rows
        /\ UpdateTaskAfterRun(counted, n).missing = missing
        /\ UpdateTaskAfterRun(counted, n).next = n
        /\ UpdateTaskAfterRun(counted, n).status # "absent"
    BY <1>3, <1>5, <1>6, <1>9, UpdatedRow
  <2> QED
    BY <1>1, <1>3, <2>1, <2>2
<1> QED
  BY <1>7, <1>8, <1>9

(* The run is over: its due time lies behind whatever the row has now.     *)
LEMMA StartMissingStep ==
  ASSUME IInv, NEW t \in Tasks, StartMissing(t) PROVE IInv'
<1> DEFINE r == Missed(t)
           ran == run[t].row.next
           streak == past[t].streak + 1
           p == [past[t] EXCEPT !.ran = ran, !.streak = streak]
<1>1. /\ row' = [row EXCEPT ![t] = r] /\ run' = [run EXCEPT ![t] = NoRun]
      /\ past' = [past EXCEPT ![t] = p]
      /\ UNCHANGED <<now, registered, moves>>
  BY DEF StartMissing, Over
<1>2. /\ p \in Pasts /\ p.ran = run[t].row.next
      /\ p.streak = past[t].streak + 1
  <2>1. ran \in Nat /\ streak \in Nat /\ past[t] \in Pasts
    BY Known
  <2>2. ran = run[t].row.next /\ streak = past[t].streak + 1
    OBVIOUS
  <2> HIDE DEF ran, streak
  <2>3. p \in Pasts /\ p.ran = ran /\ p.streak = streak
    BY <2>1 DEF Pasts
  <2> QED
    BY <2>2, <2>3
<1>3. /\ r \in Rows /\ r.missing <= row[t].missing + 1
      /\ r.next # NULL => r.next > now
      /\ r.status = "absent" => r.next = NULL
  BY MissedRow
<1> HIDE DEF r, p
<1>4. r.next \in Nat /\ r.missing \in Nat
  BY <1>3, SchedulerAssumption DEF Rows
<1>5. /\ row[t].missing \in Nat /\ past[t].streak \in Nat
      /\ run[t].row.next \in Nat /\ now \in Nat
      /\ row[t].missing <= past[t].streak
  BY Known DEF TaskInv
<1>6. run[t].row.next <= now
  BY Known DEF StartMissing, TaskInv
<1>7. NoRun \in Runs /\ NoRun.phase = "none" /\ moves \in 0..MaxMoves
  BY Known
<1>8. TaskInv(r, NoRun, p, now)
  BY <1>2, <1>3, <1>4, <1>5, <1>6, <1>7 DEF TaskInv
<1> QED
  BY <1>1, <1>2, <1>3, <1>7, <1>8, OneTask

(* The count is zero from here on: it was, or the captured row has one.    *)
LEMMA StartStep ==
  ASSUME IInv, NEW t \in Tasks, Start(t) PROVE IInv'
<1> DEFINE missing == IF run[t].row.missing > 0 THEN 0 ELSE row[t].missing
           r == [row[t] EXCEPT !.missing = missing]
           u == [run[t] EXCEPT !.phase = "running"]
           p == [past[t] EXCEPT !.streak = 0]
<1>1. /\ row' = [row EXCEPT ![t] = r] /\ run' = [run EXCEPT ![t] = u]
      /\ past' = [past EXCEPT ![t] = p]
      /\ UNCHANGED <<now, registered, moves>>
  BY DEF Start
<1>2. missing = 0
  <2>1. run[t].phase = "waiting"
    BY DEF Start
  <2>2. row[t].missing \in Nat /\ run[t].row.missing \in Nat
    BY Known
  <2>3. row[t].missing <= run[t].row.missing
    BY <2>1, Known DEF TaskInv
  <2> QED
    BY <2>2, <2>3
<1> HIDE DEF missing
<1>3. /\ r \in Rows /\ r.next = row[t].next /\ r.missing = 0
      /\ r.status = row[t].status
  BY <1>2, Known, SchedulerAssumption DEF Rows
<1>4. u \in Runs /\ u.phase = "running" /\ u.row = run[t].row
  BY Known DEF Runs
<1>5. p \in Pasts /\ p.ran = past[t].ran /\ p.streak = 0
  BY Known DEF Pasts
<1>6. run[t].phase = "waiting"
  BY DEF Start
<1> HIDE DEF r, u, p
<1>7. TaskInv(r, u, p, now)
  BY <1>3, <1>4, <1>5, <1>6, Known DEF TaskInv
<1>8. moves \in 0..MaxMoves
  BY Known
<1> QED
  BY <1>1, <1>3, <1>4, <1>5, <1>7, <1>8, OneTask

LEMMA EndStep ==
  ASSUME IInv, NEW t \in Tasks, End(t) PROVE IInv'
<1> DEFINE n == ComputeNextRun(run[t].row, now)
           r == UpdateTaskAfterRun(row[t], n)
           p == [past[t] EXCEPT !.ran = run[t].row.next]
<1>1. /\ row' = [row EXCEPT ![t] = r] /\ run' = [run EXCEPT ![t] = NoRun]
      /\ past' = [past EXCEPT ![t] = p]
      /\ UNCHANGED <<now, registered, moves>>
  BY DEF End, Over
<1>2. n \in Nat /\ (n # NULL => n > now)
  BY Known, ComputeNextRunLater
<1>3. row[t] \in Rows
  BY Known
<1>4. /\ r \in Rows /\ r.missing = row[t].missing
      /\ r.next = IF row[t].status = "absent" THEN row[t].next ELSE n
      /\ r.status = "absent" => row[t].status = "absent"
  BY <1>2, <1>3, UpdatedRow
<1>5. /\ p \in Pasts /\ p.ran = run[t].row.next /\ p.streak = past[t].streak
  BY Known DEF Pasts
<1>6. /\ run[t].row.next <= now
      /\ row[t].status = "absent" => row[t].next = NULL
      /\ row[t].missing <= past[t].streak
  BY Known DEF TaskInv, End
<1>7. run[t].row.next \in Nat /\ now \in Nat /\ moves \in 0..MaxMoves
  BY Known
<1>8. NoRun \in Runs /\ NoRun.phase = "none"
  BY Known
<1> HIDE DEF n, r, p
<1>9. TaskInv(r, NoRun, p, now)
  BY <1>2, <1>4, <1>5, <1>6, <1>7, <1>8 DEF TaskInv
<1> QED
  BY <1>1, <1>4, <1>5, <1>7, <1>8, <1>9, OneTask

-----------------------------------------------------------------------------
(* What happens to rows meanwhile.                                         *)

LEMMA Moved == ASSUME IInv, Move PROVE moves' \in 0..MaxMoves
BY SchedulerAssumption DEF IInv, TypeOK, Move

(* A step that leaves the run alone, and either leaves the past alone or   *)
(* at most forgets where an interval began.                                *)
LEMMA OneRow ==
  ASSUME IInv, NEW t \in Tasks, NEW r \in Rows, NEW p \in Pasts, Move,
         row' = [row EXCEPT ![t] = r],
         past' = [past EXCEPT ![t] = p],
         UNCHANGED <<now, run, registered>>,
         p.ran = past[t].ran, p.streak = past[t].streak,
         r.next # NULL => r.next > past[t].ran,
         r.status = "absent" => r.next = NULL,
         r.missing <= row[t].missing
  PROVE  IInv'
<1>1. /\ run' = [run EXCEPT ![t] = run[t]] /\ run[t] \in Runs
      /\ row[t].missing \in Nat /\ past[t].streak \in Nat
      /\ run[t].row.missing \in Nat
  BY Known
<1>2. r.missing \in Nat
  BY SchedulerAssumption DEF Rows
<1>3. TaskInv(row[t], run[t], past[t], now)
  BY Known
<1>4. TaskInv(r, run[t], p, now)
  BY <1>1, <1>2, <1>3 DEF TaskInv
<1> QED
  BY <1>1, <1>4, Moved, OneTask

(* A task that is made anew has no past.                                   *)
LEMMA NewRow ==
  ASSUME IInv, NEW t \in Tasks, NEW r \in Rows, NEW p \in Pasts, Move,
         row' = [row EXCEPT ![t] = r],
         past' = [past EXCEPT ![t] = p],
         UNCHANGED <<now, run, registered>>,
         p.ran = 0, p.streak = 0,
         r.next > 0, r.status # "absent", r.missing = 0
  PROVE  IInv'
<1>1. /\ run' = [run EXCEPT ![t] = run[t]] /\ run[t] \in Runs
      /\ past[t].ran \in Nat /\ now \in Nat
      /\ run[t].row.missing \in Nat /\ run[t].row.next \in Nat
  BY Known
<1>2. TaskInv(row[t], run[t], past[t], now)
  BY Known
<1>3. TaskInv(r, run[t], p, now)
  BY <1>1, <1>2 DEF TaskInv
<1> QED
  BY <1>1, <1>3, Moved, OneTask

LEMMA SetStatusStep ==
  ASSUME IInv, NEW t \in Tasks, NEW status \in {"active", "paused"},
         SetStatus(t, status)
  PROVE  IInv'
<1> DEFINE r == [row[t] EXCEPT !.status = status]
<1>1. /\ row' = [row EXCEPT ![t] = r] /\ Move
      /\ UNCHANGED <<now, run, registered, past>>
  BY DEF SetStatus
<1>2. /\ r \in Rows /\ r.next = row[t].next /\ r.missing = row[t].missing
      /\ r.status # "absent"
  BY Known DEF Rows
<1> HIDE DEF r
<1>3. row[t].missing \in Nat /\ past[t] \in Pasts
  BY Known
<1>4. past' = [past EXCEPT ![t] = past[t]]
  BY <1>1, Known
<1>5. row[t].next # NULL => row[t].next > past[t].ran
  BY Known DEF TaskInv
<1>6. r.missing <= row[t].missing
  BY <1>2, <1>3
<1>7. r.next # NULL => r.next > past[t].ran
  BY <1>2, <1>5
<1>8. UNCHANGED <<now, run, registered>>
  BY <1>1
<1> QED
  BY <1>1, <1>2, <1>3, <1>4, <1>6, <1>7, <1>8, OneRow

LEMMA CancelTaskStep ==
  ASSUME IInv, NEW t \in Tasks, CancelTask(t) PROVE IInv'
<1>1. /\ row' = [row EXCEPT ![t] = Absent] /\ Move
      /\ UNCHANGED <<now, run, registered, past>>
  BY DEF CancelTask
<1>2. row[t].missing \in Nat /\ past[t] \in Pasts
  BY Known
<1>3. past' = [past EXCEPT ![t] = past[t]]
  BY <1>1, Known
<1>4. Absent.missing <= row[t].missing
  BY <1>2, AbsentRow
<1>5. UNCHANGED <<now, run, registered>>
  BY <1>1
<1> QED
  BY <1>1, <1>2, <1>3, <1>4, <1>5, AbsentRow, OneRow

LEMMA OriginNat ==
  ASSUME NEW t, NEW type, NEW next \in Nat
  PROVE  Origin(t, type, next) \in Nat
BY DEF Origin

LEMMA ScheduleStep ==
  ASSUME IInv, NEW t \in Tasks, NEW type \in Types, NEW every \in Periods,
         NEW at \in 1..MaxTime, Schedule(t, type, every, at)
  PROVE  IInv'
<1> DEFINE next == IF type = "once" THEN at ELSE FirstRun(type, every, now)
           cron == type = "cron"
           r == [Absent EXCEPT !.status = "active", !.type = type,
                               !.every = every, !.cron = cron, !.next = next]
           o == Origin(t, type, next)
           p == [ran |-> 0, streak |-> 0, origin |-> o]
<1>1. /\ row' = [row EXCEPT ![t] = r] /\ Move
      /\ past' = [past EXCEPT ![t] = p]
  BY DEF Schedule
<1>2. UNCHANGED <<now, run, registered>>
  BY DEF Schedule
<1>3. next \in Nat /\ next > 0
  <2>1. now \in Nat /\ at \in Nat /\ at > 0
    BY Known, SchedulerAssumption
  <2>2. FirstRun(type, every, now) \in Nat /\ FirstRun(type, every, now) > now
    BY <2>1, FirstRunLater
  <2> QED
    BY <2>1, <2>2
<1> HIDE DEF next
<1>4. o \in Nat /\ cron \in BOOLEAN
  BY <1>3, OriginNat
<1> HIDE DEF o, cron
<1>5. /\ r \in Rows /\ r.next = next /\ r.missing = 0
      /\ r.status = "active"
  BY <1>3, <1>4, AbsentRow DEF Rows, Types
<1>6. p \in Pasts /\ p.ran = 0 /\ p.streak = 0
  BY <1>4 DEF Pasts
<1> HIDE DEF r, p
<1>7. r.next > 0 /\ r.status # "absent"
  BY <1>3, <1>5
<1> QED
  BY <1>1, <1>2, <1>5, <1>6, <1>7, NewRow

LEMMA UpdateTaskStep ==
  ASSUME IInv, NEW t \in Tasks, NEW type \in Types, NEW every \in Periods,
         UpdateTask(t, type, every)
  PROVE  IInv'
<1> DEFINE next == IF type = "once" THEN row[t].next
                   ELSE FirstRun(type, every, now)
           cron == type = "cron"
           r == [row[t] EXCEPT !.type = type, !.every = every, !.cron = cron,
                               !.next = next]
           o == Origin(t, type, next)
           p == [past[t] EXCEPT !.origin = o]
<1>1. /\ row' = [row EXCEPT ![t] = r] /\ Move
      /\ past' = [past EXCEPT ![t] = p]
      /\ row[t].status # "absent"
  BY DEF UpdateTask
<1>2. UNCHANGED <<now, run, registered>>
  BY DEF UpdateTask
<1>3. next \in Nat /\ (next # NULL => next > past[t].ran)
  <2>1. /\ now \in Nat /\ past[t].ran \in Nat /\ row[t].next \in Nat
        /\ past[t].ran <= now
        /\ row[t].next # NULL => row[t].next > past[t].ran
    BY Known DEF TaskInv
  <2>2. FirstRun(type, every, now) \in Nat /\ FirstRun(type, every, now) > now
    BY <2>1, FirstRunLater
  <2> QED
    BY <2>1, <2>2
<1> HIDE DEF next
<1>4. o \in Nat /\ cron \in BOOLEAN
  BY <1>3, OriginNat
<1> HIDE DEF o, cron
<1>5. /\ r \in Rows /\ r.next = next /\ r.missing = row[t].missing
      /\ r.status = row[t].status
  BY <1>3, <1>4, Known DEF Rows, Types
<1>6. p \in Pasts /\ p.ran = past[t].ran /\ p.streak = past[t].streak
  BY <1>4, Known DEF Pasts
<1> HIDE DEF r, p
<1>7. r.missing <= row[t].missing
  <2>1. row[t].missing \in Nat
    BY Known
  <2> QED
    BY <1>5, <2>1
<1>8. r.next # NULL => r.next > past[t].ran
  BY <1>3, <1>5
<1>9. r.status # "absent"
  BY <1>1, <1>5
<1> QED
  BY <1>1, <1>2, <1>5, <1>6, <1>7, <1>8, <1>9, OneRow

(* The row of a daily summary that is there is left, rescheduled to a time *)
(* to come, or resumed with no misses.                                     *)
LEMMA EnsuredRow ==
  ASSUME IInv, NEW t \in Tasks, NEW every \in Periods
  PROVE  LET r == Resumed(Drifted(row[t], every), row[t], every) IN
         /\ r \in Rows
         /\ r.next = row[t].next \/ r.next > now
         /\ r.missing = row[t].missing \/ r.missing = 0
         /\ r.status = row[t].status \/ r.status = "active"
<1> DEFINE next == NextCron(every, now)
           d == Drifted(row[t], every)
           r == Resumed(d, row[t], every)
<1>1. next \in Nat /\ next > now
  BY Known, NextCronLater
<1>2. d = IF row[t].cron /\ row[t].every = every THEN row[t]
          ELSE [row[t] EXCEPT !.every = every, !.cron = TRUE, !.next = next]
  BY DEF Drifted
<1>3. r = IF row[t].status = "paused" /\ row[t].missing > 0
          THEN [d EXCEPT !.status = "active", !.missing = 0, !.next = next]
          ELSE d
  BY DEF Resumed
<1>4. row[t] \in Rows /\ 0 \in 0..MaxMissing
  BY Known, SchedulerAssumption
<1> HIDE DEF next, d, r
<1>5. /\ d \in Rows
      /\ d.next = row[t].next \/ d.next = next
      /\ d.missing = row[t].missing /\ d.status = row[t].status
  BY <1>1, <1>2, <1>4 DEF Rows
<1>6. /\ r \in Rows
      /\ r.next = row[t].next \/ r.next = next
      /\ r.missing = row[t].missing \/ r.missing = 0
      /\ r.status = row[t].status \/ r.status = "active"
  BY <1>1, <1>3, <1>4, <1>5 DEF Rows
<1> QED
  BY <1>1, <1>6 DEF r, d

LEMMA EnsureStep ==
  ASSUME IInv, NEW t \in Tasks, NEW enabled \in BOOLEAN, NEW every \in Periods,
         EnsureDailySummary(t, enabled, every)
  PROVE  IInv'
<1>1. Move /\ UNCHANGED <<now, run, registered>>
  BY DEF EnsureDailySummary
<1>2. /\ row[t] \in Rows /\ past[t] \in Pasts /\ now \in Nat
      /\ row[t].missing \in Nat /\ row[t].next \in Nat
      /\ past[t].ran \in Nat /\ past[t].ran <= now
      /\ row[t].next # NULL => row[t].next > past[t].ran
      /\ row[t].status = "absent" => row[t].next = NULL
  BY Known DEF TaskInv
<1> DEFINE p == [past[t] EXCEPT !.origin = 0]
           q == [ran |-> 0, streak |-> 0, origin |-> 0]
           paused == [row[t] EXCEPT !.status = IF @ = "active" THEN "paused" ELSE @]
           made == [Absent EXCEPT !.status = "active", !.type = "cron",
                                  !.every = every, !.cron = TRUE,
                                  !.next = NextCron(every, now)]
           kept == Resumed(Drifted(row[t], every), row[t], every)
<1>3. row' = [row EXCEPT ![t] = IF ~enabled THEN paused
                                ELSE IF row[t].status = "absent" THEN made
                                ELSE kept]
  BY DEF EnsureDailySummary
<1>4. past' = [past EXCEPT ![t] =
                 IF ~enabled THEN past[t]
                 ELSE IF row[t].status = "absent" THEN q ELSE p]
  BY DEF EnsureDailySummary
<1>5. p \in Pasts /\ p.ran = past[t].ran /\ p.streak = past[t].streak
  BY <1>2 DEF Pasts
<1>6. CASE ~enabled
  <2> DEFINE status == IF row[t].status = "active" THEN "paused" ELSE row[t].status
             r == [row[t] EXCEPT !.status = status]
  <2> HIDE DEF made, kept, p, q
  <2>1. row' = [row EXCEPT ![t] = r] /\ past' = [past EXCEPT ![t] = past[t]]
    BY <1>6, <1>3, <1>4
  <2>2. /\ status \in {"absent", "active", "paused", "completed"}
        /\ status = "absent" => row[t].status = "absent"
    BY <1>2 DEF Rows
  <2> HIDE DEF status
  <2>3. /\ r \in Rows /\ r.next = row[t].next /\ r.missing = row[t].missing
        /\ r.status = status
    BY <1>2, <2>2 DEF Rows
  <2> HIDE DEF r
  <2>4. /\ r.missing <= row[t].missing
        /\ r.next # NULL => r.next > past[t].ran
        /\ r.status = "absent" => r.next = NULL
    BY <1>2, <2>2, <2>3
  <2> QED
    BY <1>1, <1>2, <2>1, <2>3, <2>4, OneRow
<1>7. CASE enabled /\ row[t].status = "absent"
  <2> DEFINE next == NextCron(every, now)
             r == [Absent EXCEPT !.status = "active", !.type = "cron",
                                 !.every = every, !.cron = TRUE,
                                 !.next = next]
  <2> HIDE DEF paused, kept, p, q
  <2>1. row' = [row EXCEPT ![t] = r] /\ past' = [past EXCEPT ![t] = q]
    BY <1>7, <1>3, <1>4
  <2>2. next \in Nat /\ next > now
    BY <1>2, NextCronLater
  <2> HIDE DEF next
  <2>3. r \in Rows /\ r.next = next /\ r.missing = 0 /\ r.status = "active"
    BY <2>2, AbsentRow DEF Rows
  <2>4. q \in Pasts /\ q.ran = 0 /\ q.streak = 0
    BY DEF Pasts, q
  <2> HIDE DEF r
  <2>5. r.next > 0 /\ r.status # "absent"
    BY <1>2, <2>2, <2>3
  <2> QED
    BY <1>1, <2>1, <2>3, <2>4, <2>5, NewRow
<1>8. CASE enabled /\ row[t].status # "absent"
  <2> DEFINE r == Resumed(Drifted(row[t], every), row[t], every)
  <2> HIDE DEF paused, made, p, q
  <2>1. row' = [row EXCEPT ![t] = r] /\ past' = [past EXCEPT ![t] = p]
    BY <1>8, <1>3, <1>4
  <2>2. /\ r \in Rows
        /\ r.next = row[t].next \/ r.next > now
        /\ r.missing = row[t].missing \/ r.missing = 0
        /\ r.status = row[t].status \/ r.status = "active"
    BY EnsuredRow
  <2> HIDE DEF r
  <2>3. r.next \in Nat
    BY <2>2 DEF Rows
  <2>4. /\ r.missing <= row[t].missing
        /\ r.next # NULL => r.next > past[t].ran
        /\ r.status # "absent"
    BY <1>2, <1>8, <2>2, <2>3
  <2> QED
    BY <1>1, <1>5, <2>1, <2>2, <2>4, OneRow
<1> QED
  BY <1>6, <1>7, <1>8

LEMMA GroupChangeStep == ASSUME IInv, GroupChange PROVE IInv'
<1>1. Move /\ registered' = ~registered /\ UNCHANGED <<now, row, run, past>>
  BY DEF GroupChange
<1>2. TypeOK'
  BY <1>1, Moved DEF IInv, TypeOK
<1>3. ASSUME NEW t \in Tasks PROVE TaskInv(row[t], run[t], past[t], now)'
  BY <1>1 DEF IInv, TaskInv
<1> QED
  BY <1>2, <1>3 DEF IInv

LEMMA RestartStep == ASSUME IInv, Restart PROVE IInv'
<1>1. Move /\ UNCHANGED <<now, row, registered, past>>
  BY DEF Restart
<1>2. NoRun \in Runs /\ NoRun.phase = "none"
  BY AbsentRow DEF NoRun, Runs
<1>3. run' = [t \in Tasks |-> NoRun]
  BY DEF Restart
<1>4. TypeOK'
  BY <1>1, <1>2, <1>3, Moved DEF IInv, TypeOK
<1>5. ASSUME NEW t \in Tasks PROVE TaskInv(row[t], run[t], past[t], now)'
  <2>1. run'[t] = NoRun
    BY <1>3
  <2>2. TaskInv(row[t], run[t], past[t], now)
    BY DEF IInv
  <2> QED
    BY <1>1, <1>2, <2>1, <2>2 DEF TaskInv
<1> QED
  BY <1>4, <1>5 DEF IInv

LEMMA TickStep == ASSUME IInv, Tick PROVE IInv'
<1>1. now' = now + 1 /\ UNCHANGED <<row, run, registered, moves, past>>
  BY DEF Tick
<1>2. now' \in 1..(MaxTime + 1)
  BY SchedulerAssumption DEF IInv, TypeOK, Tick
<1>3. TypeOK'
  BY <1>1, <1>2 DEF IInv, TypeOK
<1>4. ASSUME NEW t \in Tasks PROVE TaskInv(row[t], run[t], past[t], now)'
  <2>1. past[t].ran \in Nat /\ run[t].row.next \in Nat /\ now \in Nat
    BY Known
  <2>2. TaskInv(row[t], run[t], past[t], now)
    BY DEF IInv
  <2> QED
    BY <1>1, <2>1, <2>2 DEF TaskInv
<1> QED
  BY <1>3, <1>4 DEF IInv

-----------------------------------------------------------------------------
\* ... every step keeps it, ...
THEOREM StepGood == IInv /\ [Next]_vars => IInv'
<1> SUFFICES ASSUME IInv, [Next]_vars PROVE IInv'
  OBVIOUS
<1>1. CASE Poll
  BY <1>1, PollStep
<1>2. ASSUME NEW t \in Tasks, StartMalformed(t) PROVE IInv'
  BY <1>2, StartMalformedStep
<1>3. ASSUME NEW t \in Tasks, StartMissing(t) PROVE IInv'
  BY <1>3, StartMissingStep
<1>4. ASSUME NEW t \in Tasks, Start(t) PROVE IInv'
  BY <1>4, StartStep
<1>5. ASSUME NEW t \in Tasks, End(t) PROVE IInv'
  BY <1>5, EndStep
<1>6. ASSUME NEW t \in Tasks, NEW type \in Types, NEW every \in Periods,
             NEW at \in 1..MaxTime, Schedule(t, type, every, at)
      PROVE  IInv'
  BY <1>6, ScheduleStep
<1>7. ASSUME NEW t \in Tasks, PauseTask(t) \/ ResumeTask(t) PROVE IInv'
  <2>1. SetStatus(t, "paused") \/ SetStatus(t, "active")
    BY <1>7 DEF PauseTask, ResumeTask
  <2> QED
    BY <2>1, SetStatusStep
<1>8. ASSUME NEW t \in Tasks, CancelTask(t) PROVE IInv'
  BY <1>8, CancelTaskStep
<1>9. ASSUME NEW t \in Tasks, NEW type \in Types, NEW every \in Periods,
             UpdateTask(t, type, every)
      PROVE  IInv'
  BY <1>9, UpdateTaskStep
<1>10. ASSUME NEW t \in Tasks, NEW enabled \in BOOLEAN, NEW every \in Periods,
              EnsureDailySummary(t, enabled, every)
       PROVE  IInv'
  BY <1>10, EnsureStep
<1>11. CASE GroupChange
  BY <1>11, GroupChangeStep
<1>12. CASE Restart
  BY <1>12, RestartStep
<1>13. CASE Tick
  BY <1>13, TickStep
<1>14. CASE UNCHANGED vars
  BY <1>14 DEF IInv, TypeOK, TaskInv, vars
<1> QED
  BY <1>1, <1>2, <1>3, <1>4, <1>5, <1>6, <1>7, <1>8, <1>9, <1>10, <1>11,
     <1>12, <1>13, <1>14 DEF Next

\* ... and so it always holds.
THEOREM Invariance == Spec => []IInv
BY InitGood, StepGood, PTL DEF Spec

(* At most MaxMissing misses are counted, and every field keeps its type.  *)
THEOREM TypeCorrect == Spec => []TypeOK
<1>1. IInv => TypeOK
  BY DEF IInv
<1> QED
  BY <1>1, Invariance, PTL

(* No due time is run a second time once its run is over, whatever was     *)
(* paused, resumed, edited or cancelled meanwhile, and across restarts.    *)
THEOREM RunsOnceKept == Spec => []RunsOnce
<1>1. IInv => RunsOnce
  BY DEF IInv, TaskInv, RunsOnce
<1> QED
  BY <1>1, Invariance, PTL

(* A task is paused or deleted for a missing group only after as many      *)
(* misses in a row as were counted.                                        *)
THEOREM StreakKept == Spec => []StreakTrue
<1>1. IInv => StreakTrue
  BY DEF IInv, TaskInv, StreakTrue
<1> QED
  BY <1>1, Invariance, PTL

-----------------------------------------------------------------------------
(* Intervals keep their phase.                                             *)

(* n is a whole number of periods behind the origin.                       *)
InPhase(n, origin, every) == \E k \in Nat : n = origin + every * k

(* Of a task whose interval has an origin: its row is that interval, the   *)
(* one a run captured is the same, and both are due in phase.              *)
PhaseInv(r, u, p) ==
  p.origin # 0 /\ r.status # "absent" =>
    /\ r.type = "interval" /\ ~r.cron
    /\ r.next # NULL => InPhase(r.next, p.origin, r.every)
    /\ u.phase # "none" =>
         /\ u.row.type = "interval" /\ ~u.row.cron /\ u.row.every = r.every
         /\ InPhase(u.row.next, p.origin, r.every)

PhasesInv == \A t \in Tasks : PhaseInv(row[t], run[t], past[t])

LEMMA MultipleOf ==
  ASSUME NEW e \in Nat \ {0}, NEW k \in Nat
  PROVE  (e * k) % e = 0
BY Z3

(* Being in phase is what NoDrift says.                                    *)
LEMMA InPhaseMod ==
  ASSUME NEW n \in Nat, NEW origin \in Nat, NEW every \in Nat \ {0},
         InPhase(n, origin, every)
  PROVE  n >= origin /\ (n - origin) % every = 0
<1>1. PICK k \in Nat : n = origin + every * k
  BY DEF InPhase
<1>2. n - origin = every * k /\ every * k \in Nat
  BY <1>1, Z3
<1>3. (every * k) % every = 0
  BY MultipleOf
<1> QED
  BY <1>2, <1>3

(* A time in phase stays so when periods are added.                        *)
LEMMA InPhasePlus ==
  ASSUME NEW n \in Nat, NEW origin \in Nat, NEW every \in Nat \ {0},
         NEW j \in Nat, InPhase(n, origin, every)
  PROVE  InPhase(n + every * j, origin, every)
<1>1. PICK k \in Nat : n = origin + every * k
  BY DEF InPhase
<1> DEFINE m == k + j
<1>2. m \in Nat /\ n + every * j = origin + every * m
  BY <1>1, Z3
<1> HIDE DEF m
<1> QED
  BY <1>2, Zenon DEF InPhase

(* The next run of an interval is in the phase of the one that was due.    *)
LEMMA ComputeNextRunInPhase ==
  ASSUME NEW r \in Rows, NEW time \in Nat, NEW origin \in Nat,
         r.type = "interval", ~r.cron, InPhase(r.next, origin, r.every)
  PROVE  InPhase(ComputeNextRun(r, time), origin, r.every)
<1>1. r.next \in Nat /\ r.every \in Nat \ {0}
  BY SchedulerAssumption DEF Rows
<1>2. CASE r.next > time
  <2>1. ComputeNextRun(r, time) = r.next + r.every * 1
    BY <1>1, <1>2 DEF ComputeNextRun
  <2> QED
    BY <1>1, <2>1, InPhasePlus
<1>3. CASE r.next <= time
  <2> DEFINE a == time - r.next
             j == a \div r.every + 1
  <2>1. a \in Nat
    BY <1>1, <1>3
  <2>2. ComputeNextRun(r, time) = r.next + r.every * j
    BY <1>1, <1>3 DEF ComputeNextRun
  <2> HIDE DEF a
  <2>3. j \in Nat
    BY <1>1, <2>1, Multiples
  <2> HIDE DEF j
  <2> QED
    BY <1>1, <2>2, <2>3, InPhasePlus
<1> QED
  BY <1>1, <1>2, <1>3

(* A step that concerns one task.                                          *)
LEMMA OnePhase ==
  ASSUME IInv, PhasesInv, NEW t \in Tasks, NEW r, NEW u, NEW p,
         row' = [row EXCEPT ![t] = r],
         run' = [run EXCEPT ![t] = u],
         past' = [past EXCEPT ![t] = p],
         PhaseInv(r, u, p)
  PROVE  PhasesInv'
<1>1. ASSUME NEW x \in Tasks PROVE PhaseInv(row[x], run[x], past[x])'
  <2>1. CASE x = t
    BY <2>1 DEF IInv, TypeOK, PhaseInv
  <2>2. CASE x # t
    BY <2>2 DEF IInv, TypeOK, PhasesInv, PhaseInv
  <2> QED
    BY <2>1, <2>2
<1> QED
  BY <1>1 DEF PhasesInv

(* The schedule of the row stays, a run stays or ends, and the origin      *)
(* stays or is forgotten.                                                  *)
LEMMA SamePhase ==
  ASSUME NEW r, NEW u, NEW p, NEW x, NEW v, NEW q,
         PhaseInv(r, u, p),
         x.status # "absent" => r.status # "absent",
         x.type = r.type, x.cron = r.cron, x.every = r.every,
         x.next = r.next,
         v.phase # "none" => u.phase # "none" /\ v.row = u.row,
         q.origin = p.origin
  PROVE  PhaseInv(x, v, q)
BY DEF PhaseInv

LEMMA PhaseKnown ==
  ASSUME IInv, PhasesInv, NEW t \in Tasks
  PROVE  /\ PhaseInv(row[t], run[t], past[t])
         /\ past[t].origin \in Nat /\ row[t].every \in Nat \ {0}
BY SchedulerAssumption DEF IInv, TypeOK, PhasesInv, Rows, Pasts

LEMMA PollPhase == ASSUME IInv, PhasesInv, Poll PROVE PhasesInv'
<1> DEFINE found == {t \in Tasks : Due(t) /\ run[t].phase = "none"}
<1>1. /\ run' = [t \in Tasks |->
                   IF t \in found THEN [phase |-> "waiting", row |-> row[t]]
                   ELSE run[t]]
      /\ UNCHANGED <<row, past>>
  BY DEF Poll
<1>2. ASSUME NEW t \in Tasks PROVE PhaseInv(row[t], run[t], past[t])'
  <2>1. CASE t \in found
    <3>1. run'[t].phase = "waiting" /\ run'[t].row = row[t]
      BY <1>1, <2>1
    <3>2. row[t].next # NULL
      BY <2>1 DEF Due
    <3> QED
      BY <1>1, <3>1, <3>2, PhaseKnown DEF PhaseInv
  <2>2. CASE t \notin found
    <3>1. run'[t] = run[t]
      BY <1>1, <2>2
    <3> QED
      BY <1>1, <3>1, PhaseKnown DEF PhaseInv
  <2> QED
    BY <2>1, <2>2
<1> QED
  BY <1>2 DEF PhasesInv

LEMMA StartMalformedPhase ==
  ASSUME IInv, PhasesInv, NEW t \in Tasks, StartMalformed(t) PROVE PhasesInv'
<1> DEFINE status == IF row[t].status = "absent" THEN "absent" ELSE "paused"
           r == [row[t] EXCEPT !.status = status]
<1>1. /\ row' = [row EXCEPT ![t] = r] /\ run' = [run EXCEPT ![t] = NoRun]
      /\ past' = [past EXCEPT ![t] = past[t]]
  BY Known DEF StartMalformed, Over
<1>2. /\ r.next = row[t].next /\ r.type = row[t].type
      /\ r.cron = row[t].cron /\ r.every = row[t].every
      /\ r.status # "absent" => row[t].status # "absent"
  BY Known DEF Rows
<1> HIDE DEF r
<1>3. PhaseInv(r, NoRun, past[t])
  BY <1>2, Known, PhaseKnown, SamePhase
<1> QED
  BY <1>1, <1>3, OnePhase

(* What a run leaves: the row of the next run, if it is there.             *)
LEMMA OverPhase ==
  ASSUME IInv, PhasesInv, NEW t \in Tasks, run[t].phase # "none",
         NEW r, NEW p \in Pasts, p.origin = past[t].origin,
         row' = [row EXCEPT ![t] = r],
         run' = [run EXCEPT ![t] = NoRun],
         past' = [past EXCEPT ![t] = p],
         r.status # "absent" =>
           /\ row[t].status # "absent"
           /\ r.type = row[t].type /\ r.cron = row[t].cron
           /\ r.every = row[t].every
           /\ r.next = ComputeNextRun(run[t].row, now)
  PROVE  PhasesInv'
<1>1. PhaseInv(r, NoRun, p)
  <2> SUFFICES ASSUME p.origin # 0, r.status # "absent"
               PROVE  /\ r.type = "interval" /\ ~r.cron
                      /\ InPhase(r.next, p.origin, r.every)
    BY Known DEF PhaseInv
  <2>1. /\ row[t].type = "interval" /\ ~row[t].cron
        /\ run[t].row.type = "interval" /\ ~run[t].row.cron
        /\ run[t].row.every = row[t].every
        /\ InPhase(run[t].row.next, past[t].origin, row[t].every)
    BY PhaseKnown DEF PhaseInv
  <2>2. run[t].row \in Rows /\ now \in Nat /\ past[t].origin \in Nat
    BY Known, PhaseKnown
  <2>3. InPhase(run[t].row.next, past[t].origin, run[t].row.every)
    BY <2>1
  <2>4. InPhase(ComputeNextRun(run[t].row, now), past[t].origin, run[t].row.every)
    BY <2>1, <2>2, <2>3, ComputeNextRunInPhase
  <2> QED
    BY <2>1, <2>4
<1> QED
  BY <1>1, OnePhase

LEMMA UpdatedPhase ==
  ASSUME NEW r \in Rows, NEW n
  PROVE  LET y == UpdateTaskAfterRun(r, n) IN
         y.status # "absent" =>
           /\ r.status # "absent" /\ y.next = n
           /\ y.type = r.type /\ y.cron = r.cron /\ y.every = r.every
BY DEF UpdateTaskAfterRun, Rows

LEMMA StartMissingPhase ==
  ASSUME IInv, PhasesInv, NEW t \in Tasks, StartMissing(t) PROVE PhasesInv'
<1> DEFINE r == Missed(t)
           ran == run[t].row.next
           streak == past[t].streak + 1
           p == [past[t] EXCEPT !.ran = ran, !.streak = streak]
           m == row[t].missing + 1
           missing == IF m > MaxMissing THEN row[t].missing ELSE m
           status == IF m >= MaxMissing THEN "paused" ELSE row[t].status
           counted == [row[t] EXCEPT !.missing = missing, !.status = status]
           n == ComputeNextRun(run[t].row, now)
<1>1. /\ row' = [row EXCEPT ![t] = r] /\ run' = [run EXCEPT ![t] = NoRun]
      /\ past' = [past EXCEPT ![t] = p]
      /\ run[t].phase # "none"
  BY DEF StartMissing, Over
<1>2. ran \in Nat /\ streak \in Nat /\ past[t] \in Pasts
  BY Known
<1>3. r = IF row[t].status = "absent" THEN row[t]
          ELSE IF m >= MaxMissing /\ t \in SystemTasks THEN Absent
          ELSE UpdateTaskAfterRun(counted, n)
  BY DEF Missed
<1>4. missing \in 0..MaxMissing
  BY Known, SchedulerAssumption
<1>5. status \in {"absent", "active", "paused", "completed"}
  BY Known DEF Rows
<1>6. row[t].status = "absent" => status = "absent" \/ m >= MaxMissing
  OBVIOUS
<1> HIDE DEF r, ran, streak, m, missing, status, n
<1>7. p \in Pasts /\ p.origin = past[t].origin
  BY <1>2 DEF Pasts
<1>8. /\ counted \in Rows /\ counted.type = row[t].type
      /\ counted.cron = row[t].cron /\ counted.every = row[t].every
  BY <1>4, <1>5, Known DEF Rows
<1> HIDE DEF counted, p
<1>9. ASSUME r.status # "absent"
      PROVE  /\ row[t].status # "absent"
             /\ r.type = row[t].type /\ r.cron = row[t].cron
             /\ r.every = row[t].every /\ r.next = n
  <2>1. row[t].status # "absent" /\ r = UpdateTaskAfterRun(counted, n)
    BY <1>3, <1>9, AbsentRow
  <2> QED
    BY <1>8, <1>9, <2>1, UpdatedPhase
<1>10. n = ComputeNextRun(run[t].row, now)
  BY DEF n
<1> QED
  BY <1>1, <1>7, <1>9, <1>10, OverPhase

LEMMA StartPhase ==
  ASSUME IInv, PhasesInv, NEW t \in Tasks, Start(t) PROVE PhasesInv'
<1> DEFINE missing == IF run[t].row.missing > 0 THEN 0 ELSE row[t].missing
           r == [row[t] EXCEPT !.missing = missing]
           u == [run[t] EXCEPT !.phase = "running"]
           p == [past[t] EXCEPT !.streak = 0]
<1>1. /\ row' = [row EXCEPT ![t] = r] /\ run' = [run EXCEPT ![t] = u]
      /\ past' = [past EXCEPT ![t] = p]
      /\ run[t].phase # "none"
  BY DEF Start
<1> HIDE DEF missing
<1>2. /\ r.next = row[t].next /\ r.type = row[t].type
      /\ r.cron = row[t].cron /\ r.every = row[t].every
      /\ r.status = row[t].status
  BY Known DEF Rows
<1>3. u.row = run[t].row
  BY Known DEF Runs
<1>4. p.origin = past[t].origin
  BY Known DEF Pasts
<1> HIDE DEF r, u, p
<1>5. PhaseInv(r, u, p)
  BY <1>1, <1>2, <1>3, <1>4, PhaseKnown, SamePhase
<1> QED
  BY <1>1, <1>5, OnePhase

LEMMA EndPhase ==
  ASSUME IInv, PhasesInv, NEW t \in Tasks, End(t) PROVE PhasesInv'
<1> DEFINE n == ComputeNextRun(run[t].row, now)
           r == UpdateTaskAfterRun(row[t], n)
           p == [past[t] EXCEPT !.ran = run[t].row.next]
<1>1. /\ row' = [row EXCEPT ![t] = r] /\ run' = [run EXCEPT ![t] = NoRun]
      /\ past' = [past EXCEPT ![t] = p]
      /\ run[t].phase # "none"
  BY DEF End, Over
<1>2. p \in Pasts /\ p.origin = past[t].origin
  BY Known DEF Pasts
<1>3. row[t] \in Rows
  BY Known
<1>4. r.status # "absent" =>
        /\ row[t].status # "absent" /\ r.next = n
        /\ r.type = row[t].type /\ r.cron = row[t].cron
        /\ r.every = row[t].every
  BY <1>3, UpdatedPhase
<1>5. n = ComputeNextRun(run[t].row, now)
  OBVIOUS
<1> HIDE DEF n, r, p
<1> QED
  BY <1>1, <1>2, <1>4, <1>5, OverPhase

(* A schedule that is set: the origin is the first time it is due, unless  *)
(* a run with an older schedule is on.                                     *)
LEMMA SetPhase ==
  ASSUME IInv, PhasesInv, NEW t \in Tasks, NEW type, NEW next \in Nat,
         NEW r \in Rows, NEW p \in Pasts,
         r.type = type, type = "interval" => ~r.cron, r.next = next,
         p.origin = Origin(t, type, next),
         row' = [row EXCEPT ![t] = r],
         past' = [past EXCEPT ![t] = p],
         UNCHANGED run
  PROVE  PhasesInv'
<1>1. run' = [run EXCEPT ![t] = run[t]]
  BY Known
<1>2. PhaseInv(r, run[t], p)
  <2> SUFFICES ASSUME p.origin # 0
               PROVE  /\ type = "interval" /\ run[t].phase = "none"
                      /\ InPhase(r.next, p.origin, r.every)
    BY DEF PhaseInv
  <2>1. type = "interval" /\ run[t].phase = "none" /\ p.origin = next
    BY DEF Origin
  <2>2. r.every \in Nat
    BY SchedulerAssumption DEF Rows
  <2>3. next = next + r.every * 0
    BY <2>2, Z3
  <2> QED
    BY <2>1, <2>3 DEF InPhase
<1> QED
  BY <1>1, <1>2, OnePhase

LEMMA SchedulePhase ==
  ASSUME IInv, PhasesInv, NEW t \in Tasks, NEW type \in Types,
         NEW every \in Periods, NEW at \in 1..MaxTime,
         Schedule(t, type, every, at)
  PROVE  PhasesInv'
<1> DEFINE next == IF type = "once" THEN at ELSE FirstRun(type, every, now)
           cron == type = "cron"
           r == [Absent EXCEPT !.status = "active", !.type = type,
                               !.every = every, !.cron = cron, !.next = next]
           o == Origin(t, type, next)
           p == [ran |-> 0, streak |-> 0, origin |-> o]
<1>1. /\ row' = [row EXCEPT ![t] = r] /\ UNCHANGED run
      /\ past' = [past EXCEPT ![t] = p]
  BY DEF Schedule
<1>2. next \in Nat
  BY Known, FirstRunLater, SchedulerAssumption
<1> HIDE DEF next
<1>3. o \in Nat /\ cron \in BOOLEAN /\ cron = (type = "cron")
  BY <1>2, OriginNat
<1>4. o = Origin(t, type, next)
  OBVIOUS
<1> HIDE DEF o, cron
<1>5. r \in Rows /\ r.type = type /\ r.cron = cron /\ r.next = next
  BY <1>2, <1>3, AbsentRow DEF Rows, Types
<1>6. p \in Pasts /\ p.origin = o
  BY <1>3 DEF Pasts
<1> HIDE DEF r, p
<1>7. (type = "interval" => ~r.cron) /\ p.origin = Origin(t, type, next)
  BY <1>3, <1>4, <1>5, <1>6
<1>8. UNCHANGED run
  BY <1>1
<1> QED
  BY <1>1, <1>2, <1>5, <1>6, <1>7, <1>8, SetPhase

LEMMA UpdateTaskPhase ==
  ASSUME IInv, PhasesInv, NEW t \in Tasks, NEW type \in Types,
         NEW every \in Periods, UpdateTask(t, type, every)
  PROVE  PhasesInv'
<1> DEFINE next == IF type = "once" THEN row[t].next
                   ELSE FirstRun(type, every, now)
           cron == type = "cron"
           r == [row[t] EXCEPT !.type = type, !.every = every, !.cron = cron,
                               !.next = next]
           o == Origin(t, type, next)
           p == [past[t] EXCEPT !.origin = o]
<1>1. /\ row' = [row EXCEPT ![t] = r] /\ UNCHANGED run
      /\ past' = [past EXCEPT ![t] = p]
  BY DEF UpdateTask
<1>2. next \in Nat
  BY Known, FirstRunLater
<1> HIDE DEF next
<1>3. o \in Nat /\ cron \in BOOLEAN /\ cron = (type = "cron")
  BY <1>2, OriginNat
<1>4. o = Origin(t, type, next)
  OBVIOUS
<1> HIDE DEF o, cron
<1>5. r \in Rows /\ r.type = type /\ r.cron = cron /\ r.next = next
  <2>1. row[t] \in Rows /\ cron \in BOOLEAN /\ next \in Nat
    BY <1>2, <1>3, Known
  <2> QED
    BY <2>1 DEF Rows, Types
<1>6. p \in Pasts /\ p.origin = o
  BY <1>3, Known DEF Pasts
<1> HIDE DEF r, p
<1>7. (type = "interval" => ~r.cron) /\ p.origin = Origin(t, type, next)
  BY <1>3, <1>4, <1>5, <1>6
<1>8. UNCHANGED run
  BY <1>1
<1> QED
  BY <1>1, <1>2, <1>5, <1>6, <1>7, <1>8, SetPhase

LEMMA SetStatusPhase ==
  ASSUME IInv, PhasesInv, NEW t \in Tasks, NEW status,
         row[t].status # "absent" \/ status = "absent",
         row' = [row EXCEPT ![t].status = status],
         UNCHANGED <<run, past>>
  PROVE  PhasesInv'
<1> DEFINE r == [row[t] EXCEPT !.status = status]
<1>1. row' = [row EXCEPT ![t] = r]
  OBVIOUS
<1>2. /\ r.next = row[t].next /\ r.type = row[t].type
      /\ r.cron = row[t].cron /\ r.every = row[t].every
      /\ r.status = status
  BY Known DEF Rows
<1> HIDE DEF r
<1>3. PhaseInv(r, run[t], past[t])
  BY <1>2, PhaseKnown, SamePhase
<1>4. run' = [run EXCEPT ![t] = run[t]] /\ past' = [past EXCEPT ![t] = past[t]]
  BY Known
<1> QED
  BY <1>1, <1>3, <1>4, OnePhase

LEMMA CancelTaskPhase ==
  ASSUME IInv, PhasesInv, NEW t \in Tasks, CancelTask(t) PROVE PhasesInv'
<1>1. row' = [row EXCEPT ![t] = Absent] /\ UNCHANGED <<run, past>>
  BY DEF CancelTask
<1>2. PhaseInv(Absent, run[t], past[t])
  BY AbsentRow DEF PhaseInv
<1>3. run' = [run EXCEPT ![t] = run[t]] /\ past' = [past EXCEPT ![t] = past[t]]
  BY <1>1, Known
<1> QED
  BY <1>1, <1>2, <1>3, OnePhase

(* The daily summary is a cron whenever it is enabled.                     *)
LEMMA EnsurePhase ==
  ASSUME IInv, PhasesInv, NEW t \in Tasks, NEW enabled \in BOOLEAN,
         NEW every \in Periods, EnsureDailySummary(t, enabled, every)
  PROVE  PhasesInv'
<1>1. UNCHANGED run
  BY DEF EnsureDailySummary
<1>2. CASE ~enabled
  <2> DEFINE status == IF row[t].status = "active" THEN "paused" ELSE row[t].status
  <2>1. row' = [row EXCEPT ![t].status = status] /\ past' = [past EXCEPT ![t] = past[t]]
    BY <1>2 DEF EnsureDailySummary
  <2>2. row[t].status # "absent" \/ status = "absent"
    OBVIOUS
  <2> HIDE DEF status
  <2>3. past' = past
    BY <2>1, Known
  <2> QED
    BY <1>1, <2>1, <2>2, <2>3, SetStatusPhase
<1>3. CASE enabled
  <2> DEFINE p == IF row[t].status = "absent"
                  THEN [ran |-> 0, streak |-> 0, origin |-> 0]
                  ELSE [past[t] EXCEPT !.origin = 0]
  <2>1. past' = [past EXCEPT ![t] = p]
    BY <1>3 DEF EnsureDailySummary
  <2>2. p.origin = 0
    BY Known DEF Pasts
  <2>3. PICK r : row' = [row EXCEPT ![t] = r]
    BY DEF EnsureDailySummary
  <2>4. PhaseInv(r, run[t], p)
    BY <2>2 DEF PhaseInv
  <2>5. run' = [run EXCEPT ![t] = run[t]]
    BY <1>1, Known
  <2> HIDE DEF p
  <2> QED
    BY <2>1, <2>3, <2>4, <2>5, OnePhase
<1> QED
  BY <1>2, <1>3

LEMMA RestartPhase == ASSUME IInv, PhasesInv, Restart PROVE PhasesInv'
<1>1. UNCHANGED <<row, past>> /\ run' = [t \in Tasks |-> NoRun]
  BY DEF Restart
<1>2. ASSUME NEW t \in Tasks PROVE PhaseInv(row[t], run[t], past[t])'
  <2>1. run'[t].phase = "none"
    BY <1>1, Known
  <2> QED
    BY <1>1, <2>1, PhaseKnown DEF PhaseInv
<1> QED
  BY <1>2 DEF PhasesInv

\* Every step keeps the phase of every interval.
THEOREM StepPhase == IInv /\ PhasesInv /\ [Next]_vars => PhasesInv'
<1> SUFFICES ASSUME IInv, PhasesInv, [Next]_vars PROVE PhasesInv'
  OBVIOUS
<1>1. CASE Poll
  BY <1>1, PollPhase
<1>2. ASSUME NEW t \in Tasks, StartMalformed(t) PROVE PhasesInv'
  BY <1>2, StartMalformedPhase
<1>3. ASSUME NEW t \in Tasks, StartMissing(t) PROVE PhasesInv'
  BY <1>3, StartMissingPhase
<1>4. ASSUME NEW t \in Tasks, Start(t) PROVE PhasesInv'
  BY <1>4, StartPhase
<1>5. ASSUME NEW t \in Tasks, End(t) PROVE PhasesInv'
  BY <1>5, EndPhase
<1>6. ASSUME NEW t \in Tasks, NEW type \in Types, NEW every \in Periods,
             NEW at \in 1..MaxTime, Schedule(t, type, every, at)
      PROVE  PhasesInv'
  BY <1>6, SchedulePhase
<1>7. ASSUME NEW t \in Tasks, PauseTask(t) \/ ResumeTask(t) PROVE PhasesInv'
  <2>1. PICK status \in {"active", "paused"} : SetStatus(t, status)
    BY <1>7 DEF PauseTask, ResumeTask
  <2> QED
    BY <2>1, SetStatusPhase DEF SetStatus
<1>8. ASSUME NEW t \in Tasks, CancelTask(t) PROVE PhasesInv'
  BY <1>8, CancelTaskPhase
<1>9. ASSUME NEW t \in Tasks, NEW type \in Types, NEW every \in Periods,
             UpdateTask(t, type, every)
      PROVE  PhasesInv'
  BY <1>9, UpdateTaskPhase
<1>10. ASSUME NEW t \in Tasks, NEW enabled \in BOOLEAN, NEW every \in Periods,
              EnsureDailySummary(t, enabled, every)
       PROVE  PhasesInv'
  BY <1>10, EnsurePhase
<1>11. CASE Restart
  BY <1>11, RestartPhase
<1>12. CASE UNCHANGED <<row, run, past>>
  BY <1>12 DEF PhasesInv, PhaseInv
<1> QED
  BY <1>1, <1>2, <1>3, <1>4, <1>5, <1>6, <1>7, <1>8, <1>9, <1>10, <1>11,
     <1>12 DEF Next, GroupChange, Tick, vars

(* However late the runs of an interval start or end, and whatever is      *)
(* missed, it is due at whole periods from when it was set, unless it was  *)
(* edited behind a run.                                                    *)
THEOREM DriftNone == Spec => []NoDrift
<1>1. Init => PhasesInv
  BY DEF Init, PhasesInv, PhaseInv
<1>2. IInv /\ PhasesInv => NoDrift
  <2> SUFFICES ASSUME IInv, PhasesInv, NEW t \in Tasks,
                      row[t].type = "interval", row[t].next # NULL,
                      past[t].origin # 0
               PROVE  /\ row[t].next >= past[t].origin
                      /\ (row[t].next - past[t].origin) % row[t].every = 0
    BY DEF NoDrift
  <2>1. row[t].status # "absent" /\ row[t].next \in Nat
    BY Known DEF TaskInv
  <2>2. InPhase(row[t].next, past[t].origin, row[t].every)
    BY <2>1, PhaseKnown DEF PhaseInv
  <2> QED
    BY <2>1, <2>2, PhaseKnown, InPhaseMod
<1> QED
  BY <1>1, <1>2, Invariance, StepPhase, PTL DEF Spec
=============================================================================
