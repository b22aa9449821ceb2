-------------------------- MODULE SessionTurnsProof --------------------------
(***************************************************************************)
(* SessionTurns, proved for every number of rows and every bound:          *)
(*                                                                         *)
(*   - the type invariant;                                                 *)
(*   - WorkIsClaimed: the rows a container works on stay claimed;          *)
(*   - DoneStaysDone: an acknowledgement is never taken back;              *)
(*   - OneCarrier: a recurring task is carried on by one row, and by one   *)
(*     more for every stop between the two writes of its recurrence.       *)
(*                                                                         *)
(* OneCarrier counts rows.  Its induction needs that rows that do not      *)
(* exist carry nothing, and that a series is named after a row that does,  *)
(* so that a new row starts a series that nothing carries yet.             *)
(***************************************************************************)
EXTENDS SessionTurns, FiniteSetTheorems, WellFoundedInduction, TLAPS

(***************************************************************************)
(* The inductive invariant                                                 *)
(***************************************************************************)
Work(c) == c.batch \cup c.follow \cup c.late

(* A container that has not started its loop works on nothing.             *)
ClaimInv ==
  /\ WorkIsClaimed
  /\ container.phase \in {"off", "booting"} => Work(container) = {}

(* Only a row that exists is acknowledged.                                 *)
AckInv == \A i \in Rows : ack[i] # "none" => rows[i].status # "absent"

(* Rows and series that exist.                                             *)
SeriesInv ==
  /\ \A i \in Rows : rows[i].recurs =>
       /\ rows[i].status # "absent"
       /\ rows[i].series \in Rows
       /\ rows[rows[i].series].status # "absent"
  /\ \A s \in past.regular : rows[s].status # "absent"

IInv ==
  /\ TypeOK
  /\ past.torn <= past.stops
  /\ ClaimInv
  /\ AckInv
  /\ SeriesInv
  /\ OneCarrier

(***************************************************************************)
(* Rows                                                                    *)
(***************************************************************************)

\* A set of numbers has a least one.
LEMMA HasLeast ==
  ASSUME NEW S \in SUBSET Nat, S # {}
  PROVE  \E x \in S : \A y \in S : x <= y
<1> DEFINE R == OpToRel(<, Nat)
<1>1. IsWellFoundedOn(R, Nat)
  BY NatLessThanWellFounded
<1>2. \A x, y \in Nat : y < x => <<y, x>> \in R
  BY DEF OpToRel
<1> HIDE DEF R
<1>3. PICK x \in S : \A y \in S : <<y, x>> \notin R
  BY <1>1, WFMin
<1>4. \A y \in S : ~(y < x)
  BY <1>2, <1>3
<1> QED BY <1>4

\* The next row is a row, and not taken.
LEMMA FreeRow ==
  ASSUME Free # {}
  PROVE  Min(Free) \in Rows /\ rows[Min(Free)].status = "absent"
<1>1. Free \in SUBSET Nat
  BY SessionAssumption DEF Free, Rows
<1>2. Min(Free) \in Free
  BY <1>1, HasLeast DEF Min
<1> QED BY <1>2 DEF Free

LEMMA CarriersFinite ==
  ASSUME NEW s
  PROVE  IsFiniteSet(Carriers(s)) /\ IsFiniteSet(Carriers(s)')
<1>1. IsFiniteSet(Rows)
  BY SessionAssumption, FS_Interval DEF Rows
<1>2. Carriers(s) \in SUBSET Rows /\ Carriers(s)' \in SUBSET Rows
  BY DEF Carriers
<1> QED BY <1>1, <1>2, FS_Subset

(* What the count of carriers reads of a row.                              *)
Alike(i) ==
  /\ rows'[i].series = rows[i].series
  /\ rows'[i].recurs = rows[i].recurs
  /\ rows'[i].status = "absent" <=> rows[i].status = "absent"

\* A step that does not touch it keeps the series and their carriers.
LEMMA AlikeKeeps ==
  ASSUME TypeOK, SeriesInv, OneCarrier,
         \A i \in Rows : Alike(i),
         past'.regular = past.regular, past'.torn = past.torn
  PROVE  SeriesInv' /\ OneCarrier'
<1>1. past.regular \subseteq Rows
  BY DEF TypeOK
<1>2. SeriesInv'
  BY <1>1 DEF SeriesInv, Alike
<1>3. \A s : Carriers(s)' = Carriers(s)
  BY DEF Carriers, Alike
<1> QED BY <1>2, <1>3 DEF OneCarrier

\* A row that starts a series of its own.
LEMMA FirstKeeps ==
  ASSUME TypeOK, SeriesInv, OneCarrier,
         NEW n \in Rows, rows[n].status = "absent",
         NEW row \in RowStates, row.series = n, row.status # "absent",
         rows' = [rows EXCEPT ![n] = row],
         past'.regular = IF row.recurs THEN past.regular \cup {n} ELSE past.regular,
         past'.torn = past.torn
  PROVE  SeriesInv' /\ OneCarrier'
<1> rows \in [Rows -> RowStates] /\ past.regular \subseteq Rows /\ past.torn \in Nat
  BY SessionAssumption DEF TypeOK
<1>1. ~rows[n].recurs /\ Carriers(n) = {} /\ n \notin past.regular
  BY DEF SeriesInv, Carriers
<1>2. SeriesInv'
  BY DEF SeriesInv
<1>3. \A s \in past.regular : Carriers(s)' = Carriers(s)
  BY <1>1 DEF Carriers
<1>4. row.recurs => Carriers(n)' = {n}
  BY <1>1 DEF Carriers
<1>5. row.recurs => Cardinality(Carriers(n)') = 1
  <2>1. Cardinality({n}) = 1
    BY FS_Singleton
  <2> QED BY <1>4, <2>1
<1> QED BY <1>2, <1>3, <1>5 DEF OneCarrier
\* A series that is cancelled.
LEMMA CancelKeeps ==
  ASSUME TypeOK, SeriesInv, OneCarrier, NEW s \in Rows, CancelTask(s)
  PROVE  SeriesInv' /\ OneCarrier'
<1> rows \in [Rows -> RowStates] /\ past.regular \subseteq Rows
  BY DEF TypeOK
<1>1. /\ past'.regular = past.regular \ {s} /\ past'.torn = past.torn
      /\ \A i \in Rows :
           \/ rows'[i] = rows[i]
           \/ /\ rows[i].series = s /\ rows[i].status # "absent"
              /\ rows'[i].status = "completed" /\ ~rows'[i].recurs
              /\ rows'[i].series = rows[i].series
  BY DEF CancelTask, Order, Live, Done, TypeOK, RowStates
<1>2. SeriesInv'
  BY <1>1 DEF SeriesInv
<1>3. \A t \in past'.regular : Carriers(t)' = Carriers(t)
  BY <1>1 DEF Carriers
<1> QED BY <1>1, <1>2, <1>3 DEF OneCarrier

\* The next row of a recurring task, with or without the end of this one.
LEMMA CloneKeeps ==
  ASSUME TypeOK, SeriesInv, OneCarrier,
         NEW i \in Rows, rows[i].recurs,
         NEW n \in Rows, rows[n].status = "absent",
         past'.regular = past.regular,
         \/ /\ rows' = [Insert(rows, n, Clone(i)) EXCEPT ![i].recurs = FALSE]
            /\ past'.torn = past.torn
         \/ /\ rows' = Insert(rows, n, Clone(i))
            /\ past'.torn = past.torn + 1
  PROVE  SeriesInv' /\ OneCarrier'
<1> rows \in [Rows -> RowStates] /\ past.regular \subseteq Rows /\ past.torn \in Nat
  BY SessionAssumption DEF TypeOK
<1> DEFINE over == (rows' = [Insert(rows, n, Clone(i)) EXCEPT ![i].recurs = FALSE]
                    /\ past'.torn = past.torn)
<1>0. PICK t \in Rows : t = rows[i].series
  BY DEF SeriesInv
<1>1. ~rows[n].recurs /\ n # i
  BY DEF SeriesInv
<1>2. /\ rows'[n].series = t /\ rows'[n].recurs /\ rows'[n].status = "pending"
      /\ rows'[i].series = t /\ rows'[i].status = rows[i].status
      /\ \A j \in Rows \ {i, n} : rows'[j] = rows[j]
  <2>1. /\ Clone(i).series = t /\ Clone(i).recurs /\ Clone(i).status = "pending"
    BY <1>0 DEF Clone, RowStates
  <2>2. CASE over
    BY <2>1, <2>2, <1>0, <1>1 DEF Insert, RowStates
  <2>3. CASE rows' = Insert(rows, n, Clone(i))
    BY <2>1, <2>3, <1>0, <1>1 DEF Insert, RowStates
  <2> QED BY <2>2, <2>3
<1>3. SeriesInv'
  BY <1>0, <1>1, <1>2 DEF SeriesInv
<1>4. \A s \in past.regular : s # t => Carriers(s)' = Carriers(s)
  BY <1>0, <1>1, <1>2 DEF Carriers
<1>5. i \in Carriers(t) /\ n \notin Carriers(t)
  BY <1>0, <1>1 DEF Carriers
<1>6. Carriers(t)' = IF over THEN (Carriers(t) \cup {n}) \ {i}
                     ELSE Carriers(t) \cup {n}
  <2>1. CASE over
    <3>1. ~rows'[i].recurs
      BY <2>1, <1>1 DEF Insert, RowStates
    <3> QED BY <2>1, <3>1, <1>1, <1>2 DEF Carriers
  <2>2. CASE ~over
    <3>1. rows'[i] = rows[i]
      BY <2>2, <1>1 DEF Insert
    <3> QED BY <2>2, <3>1, <1>1, <1>2 DEF Carriers
  <2> QED BY <2>1, <2>2
<1>7. /\ Cardinality(Carriers(t)) \in Nat
      /\ Cardinality(Carriers(t)') = IF over THEN Cardinality(Carriers(t))
                                     ELSE Cardinality(Carriers(t)) + 1
  <2> DEFINE C == Carriers(t)
  <2>1. IsFiniteSet(C) /\ Cardinality(C) \in Nat
    BY CarriersFinite, FS_CardinalityType
  <2>2. IsFiniteSet(C \cup {n}) /\ Cardinality(C \cup {n}) = Cardinality(C) + 1
    BY <2>1, <1>5, FS_AddElement
  <2>a. i \in C
    BY <1>5
  <2> HIDE DEF C
  <2> DEFINE D == C \cup {n}
  <2>b. IsFiniteSet(D) /\ i \in D /\ Cardinality(D) = Cardinality(C) + 1
    BY <2>2, <2>a
  <2> HIDE DEF D
  <2>3. Cardinality(D \ {i}) = Cardinality(D) - 1
    BY <2>b, FS_RemoveElement
  <2>c. Cardinality(D \ {i}) = Cardinality(C)
    BY <2>1, <2>b, <2>3
  <2>4. Cardinality((C \cup {n}) \ {i}) = Cardinality(C)
    BY <2>c DEF D
  <2> HIDE DEF over
  <2> QED BY <2>1, <2>2, <2>4, <1>6 DEF C
<1>8. past'.torn = IF over THEN past.torn ELSE past.torn + 1
  OBVIOUS
<1> HIDE DEF over
<1>9. ASSUME NEW s \in past.regular
      PROVE  Cardinality(Carriers(s)') \in 1..(1 + past'.torn)
  <2>1. Cardinality(Carriers(s)) \in 1..(1 + past.torn)
    BY DEF OneCarrier
  <2>2. CASE s = t /\ over
    <3>1. Cardinality(Carriers(s)') = Cardinality(Carriers(s))
      BY <2>2, <1>7
    <3> QED BY <2>1, <2>2, <3>1, <1>8
  <2>4. CASE s = t /\ ~over
    <3>1. Cardinality(Carriers(s)') = Cardinality(Carriers(s)) + 1
      BY <2>4, <1>7
    <3> QED BY <2>1, <2>4, <3>1, <1>8
  <2>3. CASE s # t
    <3>1. Carriers(s)' = Carriers(s)
      BY <2>3, <1>4
    <3>2. past'.torn \in {past.torn, past.torn + 1}
      BY <1>8
    <3> QED BY <2>1, <3>1, <3>2
  <2> QED BY <2>2, <2>3, <2>4
<1> QED BY <1>3, <1>9 DEF OneCarrier

(***************************************************************************)
(* Acknowledgements                                                        *)
(***************************************************************************)

(* What an action may make of the acknowledgements: a row that is done     *)
(* stays done, one that is claimed stays claimed or is done, and only a    *)
(* pending row gets its first one.                                         *)
KeepsDone(a, b) == \A i \in Rows : a[i] = "completed" => b[i] = "completed"
KeepsHold(a, b) == \A i \in Rows : a[i] # "none" => b[i] # "none"
KeepsNone(a, b) ==
  \A i \in Rows : b[i] # "none" => a[i] # "none" \/ i \in Pending

LEMMA MarkTyped ==
  ASSUME NEW a \in [Rows -> AckStates], NEW S, NEW w \in AckStates
  PROVE  Mark(a, S, w) \in [Rows -> AckStates]
BY DEF Mark

LEMMA CompleteKeeps ==
  ASSUME NEW a \in [Rows -> AckStates], NEW S
  PROVE  /\ Complete(a, S) \in [Rows -> AckStates]
         /\ KeepsDone(a, Complete(a, S))
         /\ KeepsHold(a, Complete(a, S))
         /\ (\A i \in S : a[i] # "none" \/ i \in Pending)
              => KeepsNone(a, Complete(a, S))
BY DEF Complete, Mark, KeepsDone, KeepsHold, KeepsNone, AckStates

LEMMA TouchedKeeps ==
  ASSUME NEW a \in [Rows -> AckStates]
  PROVE  /\ Touched(a) \in [Rows -> AckStates]
         /\ KeepsDone(a, Touched(a))
         /\ KeepsHold(a, Touched(a))
         /\ KeepsNone(a, Touched(a))
BY DEF Touched, Mark, Claims, KeepsDone, KeepsHold, KeepsNone, AckStates,
       ClaimStates

LEMMA UnclaimedKeeps ==
  ASSUME NEW a \in [Rows -> AckStates]
  PROVE  /\ Unclaimed(a) \in [Rows -> AckStates]
         /\ KeepsDone(a, Unclaimed(a))
         /\ KeepsNone(a, Unclaimed(a))
BY DEF Unclaimed, Mark, Claims, KeepsDone, KeepsNone, AckStates, ClaimStates

LEMMA KeepsChain ==
  ASSUME NEW a, NEW b, NEW c
  PROVE  /\ KeepsDone(a, b) /\ KeepsDone(b, c) => KeepsDone(a, c)
         /\ KeepsHold(a, b) /\ KeepsHold(b, c) => KeepsHold(a, c)
         /\ KeepsNone(a, b) /\ KeepsNone(b, c) => KeepsNone(a, c)
         /\ KeepsDone(a, a) /\ KeepsHold(a, a) /\ KeepsNone(a, a)
BY DEF KeepsDone, KeepsHold, KeepsNone

\* A container is woken: what it finds is kept, and it works on nothing.
LEMMA WakeKeeps ==
  ASSUME TypeOK, ClaimInv, NEW ok, Wake(ok)
  PROVE  /\ ack' \in [Rows -> AckStates]
         /\ heartbeat' \in {"none", "fresh", "stale"}
         /\ container' \in ContainerStates
         /\ KeepsDone(ack, ack') /\ KeepsNone(ack, ack')
         /\ ClaimInv'
<1>1. CASE ok /\ ~Running
  <2>1. container' = Started /\ heartbeat' = "none"
        /\ ack' = Mark(ack, {i \in Rows : ack[i] = "heard"}, "quiet")
    BY <1>1 DEF Wake
  <2>2. Started \in ContainerStates /\ Work(Started) = {}
    <3>1. MaxEvents \in Nat
      BY SessionAssumption
    <3>2. Off \in ContainerStates /\ Work(Off) = {}
      BY <3>1 DEF Off, ContainerStates, Work
    <3> QED BY <3>2 DEF Started, ContainerStates, Work
  <2>3. /\ ack' \in [Rows -> AckStates]
        /\ KeepsDone(ack, ack') /\ KeepsNone(ack, ack')
    BY <2>1 DEF TypeOK, Mark, AckStates, ClaimStates, KeepsDone, KeepsNone
  <2> QED BY <2>1, <2>2, <2>3 DEF ClaimInv, WorkIsClaimed, Work
<1>2. CASE ~(ok /\ ~Running)
  <2>1. UNCHANGED <<container, heartbeat, ack>>
    BY <1>2 DEF Wake
  <2> QED BY <2>1, KeepsChain DEF TypeOK, ClaimInv, WorkIsClaimed, Work
<1> QED BY <1>1, <1>2

\* A claim is taken of rows that are not done.
LEMMA ClaimKeeps ==
  ASSUME TypeOK, NEW S \in SUBSET Pending, NEW a \in [Rows -> AckStates],
         KeepsDone(ack, a), KeepsHold(ack, a), KeepsNone(ack, a),
         NEW seen, NEW scripted, Claim(S, a, seen, scripted)
  PROVE  /\ ack' \in [Rows -> AckStates]
         /\ heartbeat' \in {"none", "fresh", "stale"}
         /\ KeepsDone(ack, ack') /\ KeepsHold(ack, ack') /\ KeepsNone(ack, ack')
         /\ \A i \in S : ack'[i] # "none"
<1> DEFINE b == IF scripted THEN Touched(a) ELSE a
           w == IF seen THEN "heard" ELSE "quiet"
<1>1. /\ b \in [Rows -> AckStates]
      /\ KeepsDone(ack, b) /\ KeepsHold(ack, b) /\ KeepsNone(ack, b)
  BY TouchedKeeps, KeepsChain
<1>2. ack' = Mark(b, S, w) /\ w \in {"heard", "quiet"}
  BY DEF Claim
<1>3. \A i \in S : i \in Rows /\ ack[i] = "none"
  BY DEF Pending, Newest
<1> HIDE DEF b, w
<1>4. /\ ack' \in [Rows -> AckStates]
      /\ KeepsDone(ack, ack') /\ KeepsHold(ack, ack') /\ KeepsNone(ack, ack')
      /\ \A i \in S : ack'[i] # "none"
  BY <1>1, <1>2, <1>3
     DEF Mark, KeepsDone, KeepsHold, KeepsNone, AckStates, ClaimStates
<1>5. heartbeat' \in {"none", "fresh", "stale"}
  BY DEF Claim, TypeOK
<1> QED BY <1>4, <1>5

\* Scripts have run.
LEMMA ScriptedKeeps ==
  ASSUME TypeOK, NEW S, NEW skipped, NEW touched, NEW done,
         \A i \in done : i \in Rows /\ ack[i] # "none",
         Scripted(S, skipped, touched, done)
  PROVE  /\ ack' \in [Rows -> AckStates]
         /\ heartbeat' \in {"none", "fresh", "stale"}
         /\ KeepsDone(ack, ack') /\ KeepsHold(ack, ack') /\ KeepsNone(ack, ack')
<1> DEFINE b == IF touched THEN Touched(ack) ELSE ack
<1>1. ack \in [Rows -> AckStates] /\ heartbeat \in {"none", "fresh", "stale"}
  BY DEF TypeOK
<1>2. /\ b \in [Rows -> AckStates]
      /\ KeepsDone(ack, b) /\ KeepsHold(ack, b) /\ KeepsNone(ack, b)
  BY <1>1, TouchedKeeps, KeepsChain
<1>3. ack' = Complete(b, done) /\ heartbeat' \in {"none", "fresh", "stale"}
  BY <1>1 DEF Scripted
<1> HIDE DEF b
<1>4. \A i \in done : b[i] # "none"
  BY <1>2 DEF KeepsHold
<1> QED BY <1>2, <1>3, <1>4, CompleteKeeps, KeepsChain

\* The work of a container that keeps its claims, and what it adds to them.
LEMMA WorkKeeps ==
  ASSUME TypeOK, ClaimInv, KeepsHold(ack, ack'), container' \in ContainerStates,
         container'.phase \notin {"off", "booting"},
         \A i \in Work(container') : i \in Work(container) \/ ack'[i] # "none"
  PROVE  ClaimInv'
<1>1. Work(container) \subseteq Rows
  BY DEF TypeOK, ContainerStates, Work
<1>2. \A i \in Work(container) : ack'[i] # "none"
  BY <1>1 DEF ClaimInv, WorkIsClaimed, KeepsHold, Work
<1> QED BY <1>2 DEF ClaimInv, WorkIsClaimed, Work

\* A container that is gone works on nothing.
LEMMA GoneKeeps ==
  ASSUME container' = Off
  PROVE  container' \in ContainerStates /\ ClaimInv'
BY SessionAssumption DEF Off, ContainerStates, ClaimInv, WorkIsClaimed, Work

(***************************************************************************)
(* One step                                                                *)
(***************************************************************************)
Kept ==
  /\ TypeOK' /\ (past.torn <= past.stops)'
  /\ ClaimInv' /\ AckInv'
  /\ SeriesInv' /\ OneCarrier'
  /\ KeepsDone(ack, ack')

\* Rows do not vanish, so what is acknowledged exists.
LEMMA AckKeeps ==
  ASSUME TypeOK, AckInv, KeepsNone(ack, ack'),
         \A i \in Rows : rows[i].status # "absent" => rows'[i].status # "absent"
  PROVE  AckInv'
BY DEF AckInv, KeepsNone, Pending, Newest, IsDue

\* A step that carries every task on as it was.
LEMMA QuietKeeps ==
  ASSUME IInv, \A i \in Rows : Alike(i),
         past'.regular = past.regular, past'.torn = past.torn,
         TypeOK', (past.torn <= past.stops)', ClaimInv',
         KeepsDone(ack, ack'), KeepsNone(ack, ack')
  PROVE  Kept
<1>1. SeriesInv' /\ OneCarrier'
  BY AlikeKeeps DEF IInv
<1>2. AckInv'
  BY AckKeeps DEF IInv, Alike
<1> QED BY <1>1, <1>2 DEF Kept

\* A step of the container.
LEMMA ContainerKeeps ==
  ASSUME IInv, UNCHANGED <<rows, sweep, past>>,
         ack' \in [Rows -> AckStates],
         heartbeat' \in {"none", "fresh", "stale"},
         container' \in ContainerStates, ClaimInv',
         KeepsDone(ack, ack'), KeepsNone(ack, ack')
  PROVE  Kept
<1>1. TypeOK' /\ (past.torn <= past.stops)'
  BY DEF IInv, TypeOK
<1>2. \A i \in Rows : Alike(i)
  BY DEF Alike
<1> QED BY <1>1, <1>2, QuietKeeps

\* A row is written for the first time.
LEMMA InsertTyped ==
  ASSUME TypeOK, NEW n \in Rows, NEW row \in RowStates, row.status # "absent"
  PROVE  /\ Insert(rows, n, row) \in [Rows -> RowStates]
         /\ Insert(rows, n, row) = [rows EXCEPT ![n] = row]
         /\ \A i \in Rows : rows[i].status # "absent"
                              => Insert(rows, n, row)[i].status # "absent"
BY DEF Insert, TypeOK

LEMMA ReceiveKeeps ==
  ASSUME IInv, NEW kind \in Kinds, NEW woken, Receive(kind, woken)
  PROVE  Kept
<1> PICK n : n = Min(Free)
  OBVIOUS
<1> DEFINE row == [NoRow EXCEPT !.kind = kind, !.status = "pending", !.series = n]
<1>1. n \in Rows /\ rows[n].status = "absent"
  BY FreeRow DEF Receive
<1>2. /\ row \in RowStates
      /\ row.series = n /\ row.status # "absent" /\ ~row.recurs
  <2>1. NoRow \in RowStates /\ ~NoRow.recurs
    BY SessionAssumption DEF NoRow, RowStates, Kinds
  <2>2. n \in 0..MaxRows
    BY <1>1, SessionAssumption DEF Rows
  <2> QED BY <2>1, <2>2 DEF RowStates
<1>3. rows' = Insert(rows, n, row) /\ UNCHANGED <<sweep, past>>
  BY DEF Receive
<1>4. Wake(woken) \/ UNCHANGED <<container, heartbeat, ack>>
  BY DEF Receive
<1> HIDE DEF row
<1>5. /\ rows' \in [Rows -> RowStates] /\ rows' = [rows EXCEPT ![n] = row]
      /\ \A i \in Rows : rows[i].status # "absent" => rows'[i].status # "absent"
  BY <1>1, <1>2, <1>3, InsertTyped DEF IInv
<1>6. SeriesInv' /\ OneCarrier'
  BY <1>1, <1>2, <1>3, <1>5, FirstKeeps DEF IInv
<1>7. /\ ack' \in [Rows -> AckStates]
      /\ heartbeat' \in {"none", "fresh", "stale"}
      /\ container' \in ContainerStates
      /\ KeepsDone(ack, ack') /\ KeepsNone(ack, ack')
      /\ ClaimInv'
  <2>1. CASE Wake(woken)
    BY <2>1, WakeKeeps DEF IInv
  <2>2. CASE UNCHANGED <<container, heartbeat, ack>>
    BY <2>2, KeepsChain DEF IInv, TypeOK, ClaimInv, WorkIsClaimed, Work
  <2> QED BY <2>1, <2>2, <1>4
<1>8. TypeOK' /\ (past.torn <= past.stops)'
  BY <1>3, <1>5, <1>7 DEF IInv, TypeOK
<1>9. AckInv'
  BY <1>5, <1>7, AckKeeps DEF IInv
<1> QED BY <1>6, <1>7, <1>8, <1>9 DEF Kept

\* What leaves the acknowledgements and the container alone.
LEMMA ClaimsUnchanged ==
  ASSUME TypeOK, ClaimInv, UNCHANGED <<ack, container>>
  PROVE  ClaimInv' /\ KeepsDone(ack, ack') /\ KeepsNone(ack, ack')
BY KeepsChain DEF ClaimInv, WorkIsClaimed, Work

LEMMA ScheduleKeeps ==
  ASSUME IInv, NEW recurring \in BOOLEAN, Schedule(recurring)
  PROVE  Kept
<1> PICK n : n = Min(Free)
  OBVIOUS
<1> DEFINE row == [ kind |-> "task", status |-> "pending", tries |-> 0,
                    later |-> TRUE, series |-> n, recurs |-> recurring ]
<1>1. n \in Rows /\ rows[n].status = "absent"
  BY FreeRow DEF Schedule
<1>2. /\ row \in RowStates
      /\ row.series = n /\ row.status # "absent" /\ row.recurs = recurring
  <2>1. n \in 0..MaxRows /\ 0 \in 0..MaxTries
    BY <1>1, SessionAssumption DEF Rows
  <2> QED BY <2>1 DEF RowStates, Kinds
<1>3. /\ rows' = Insert(rows, n, row)
      /\ past' = IF recurring THEN [past EXCEPT !.regular = @ \cup {n}] ELSE past
      /\ UNCHANGED <<ack, heartbeat, container, sweep>>
  BY DEF Schedule
<1> HIDE DEF row
<1>4. /\ past' \in [ stops : 0..MaxStops, torn : 0..MaxStops,
                     regular : SUBSET Rows ]
      /\ past'.torn = past.torn /\ past'.stops = past.stops
      /\ past'.regular = IF row.recurs THEN past.regular \cup {n} ELSE past.regular
  <2>1. CASE recurring
    BY <2>1, <1>1, <1>2, <1>3 DEF IInv, TypeOK
  <2>2. CASE ~recurring
    BY <2>2, <1>2, <1>3 DEF IInv, TypeOK
  <2> QED BY <2>1, <2>2
<1>5. /\ rows' \in [Rows -> RowStates] /\ rows' = [rows EXCEPT ![n] = row]
      /\ \A i \in Rows : rows[i].status # "absent" => rows'[i].status # "absent"
  BY <1>1, <1>2, <1>3, InsertTyped DEF IInv
<1>6. SeriesInv' /\ OneCarrier'
  BY <1>1, <1>2, <1>4, <1>5, FirstKeeps DEF IInv
<1>7. ClaimInv' /\ KeepsDone(ack, ack') /\ KeepsNone(ack, ack')
  BY <1>3, ClaimsUnchanged DEF IInv
<1>8. TypeOK' /\ (past.torn <= past.stops)'
  BY <1>3, <1>4, <1>5 DEF IInv, TypeOK
<1>9. AckInv'
  BY <1>5, <1>7, AckKeeps DEF IInv
<1> QED BY <1>6, <1>7, <1>8, <1>9 DEF Kept

\* A row that is done, and what else an agent may make of it.
LEMMA DoneTyped ==
  ASSUME NEW row \in RowStates
  PROVE  /\ Done(row) \in RowStates /\ Done(row).status = "completed"
         /\ Done(row).series = row.series /\ Done(row).recurs = row.recurs
         /\ [Done(row) EXCEPT !.recurs = FALSE] \in RowStates
         /\ \A w \in {"pending", "paused"} : [row EXCEPT !.status = w] \in RowStates
BY DEF Done, RowStates

LEMMA CancelTaskKeeps ==
  ASSUME IInv, NEW s \in Rows, CancelTask(s)
  PROVE  Kept
<1>1. /\ rows' \in [Rows -> RowStates]
      /\ \A i \in Rows : rows[i].status # "absent" => rows'[i].status # "absent"
  <2>1. rows \in [Rows -> RowStates]
    BY DEF IInv, TypeOK
  <2>2. rows' = [i \in Rows |-> IF i \in Live(s, {"pending", "paused"})
                                THEN [Done(rows[i]) EXCEPT !.recurs = FALSE]
                                ELSE rows[i]]
    BY DEF CancelTask, Order
  <2>3. \A i \in Rows : [Done(rows[i]) EXCEPT !.recurs = FALSE].status = "completed"
    BY <2>1 DEF Done, RowStates
  <2> QED BY <2>1, <2>2, <2>3, DoneTyped
<1>2. /\ past' \in [ stops : 0..MaxStops, torn : 0..MaxStops,
                     regular : SUBSET Rows ]
      /\ past'.torn = past.torn /\ past'.stops = past.stops
  BY DEF IInv, TypeOK, CancelTask
<1>3. UNCHANGED <<ack, heartbeat, container, sweep>>
  BY DEF CancelTask, Order
<1>4. ClaimInv' /\ KeepsDone(ack, ack') /\ KeepsNone(ack, ack')
  BY <1>3, ClaimsUnchanged DEF IInv
<1>5. TypeOK' /\ (past.torn <= past.stops)'
  BY <1>1, <1>2, <1>3 DEF IInv, TypeOK
<1>6. AckInv'
  BY <1>1, <1>4, AckKeeps DEF IInv
<1>7. SeriesInv' /\ OneCarrier'
  BY CancelKeeps DEF IInv
<1> QED BY <1>4, <1>5, <1>6, <1>7 DEF Kept

LEMMA PauseResumeKeeps ==
  ASSUME IInv, NEW s \in Rows, PauseTask(s) \/ ResumeTask(s)
  PROVE  Kept
<1>1. PICK w \in {"pending", "paused"} :
        \A i \in Rows : \/ rows'[i] = rows[i]
                        \/ /\ rows'[i] = [rows[i] EXCEPT !.status = w]
                           /\ rows[i].status # "absent"
  BY DEF PauseTask, ResumeTask, Order, Live
<1>2. rows' \in [Rows -> RowStates]
  <2>1. rows \in [Rows -> RowStates]
    BY DEF IInv, TypeOK
  <2>2. ASSUME NEW i \in Rows
        PROVE  rows'[i] \in RowStates
    <3>1. rows[i] \in RowStates
      BY <2>1
    <3>2. [rows[i] EXCEPT !.status = w] \in RowStates
      BY <3>1, DoneTyped
    <3> QED BY <1>1, <3>1, <3>2
  <2>3. DOMAIN rows' = Rows /\ rows' = [i \in Rows |-> rows'[i]]
    BY DEF PauseTask, ResumeTask, Order
  <2> QED BY <2>2, <2>3
<1>3. \A i \in Rows : Alike(i)
  <2> SUFFICES ASSUME NEW i \in Rows PROVE Alike(i)
    OBVIOUS
  <2>1. rows[i] \in RowStates
    BY DEF IInv, TypeOK
  <2>2. CASE rows'[i] = rows[i]
    BY <2>2 DEF Alike
  <2>3. CASE /\ rows'[i] = [rows[i] EXCEPT !.status = w]
             /\ rows[i].status # "absent"
    BY <2>1, <2>3 DEF Alike, RowStates
  <2> QED BY <1>1, <2>2, <2>3
<1>4. UNCHANGED <<ack, heartbeat, container, sweep, past>>
  BY DEF PauseTask, ResumeTask, Order
<1>5. ClaimInv' /\ KeepsDone(ack, ack') /\ KeepsNone(ack, ack')
  BY <1>4, ClaimsUnchanged DEF IInv
<1>6. TypeOK' /\ (past.torn <= past.stops)'
  BY <1>2, <1>4 DEF IInv, TypeOK
<1> QED BY <1>3, <1>4, <1>5, <1>6, QuietKeeps

LEMMA ComesDueKeeps ==
  ASSUME IInv, NEW i \in Rows, ComesDue(i)
  PROVE  Kept
<1>1. rows \in [Rows -> RowStates] /\ rows' = [rows EXCEPT ![i].later = FALSE]
  BY DEF ComesDue, IInv, TypeOK
<1>2. rows' \in [Rows -> RowStates] /\ \A j \in Rows : Alike(j)
  BY <1>1 DEF RowStates, Alike
<1>3. UNCHANGED <<ack, heartbeat, container, sweep, past>>
  BY DEF ComesDue
<1>4. ClaimInv' /\ KeepsDone(ack, ack') /\ KeepsNone(ack, ack')
  BY <1>3, ClaimsUnchanged DEF IInv
<1>5. TypeOK' /\ (past.torn <= past.stops)'
  BY <1>2, <1>3 DEF IInv, TypeOK
<1> QED BY <1>2, <1>3, <1>4, <1>5, QuietKeeps

(***************************************************************************)
(* The sweep                                                               *)
(***************************************************************************)

(* R is the table of rows with some of its rows done or retried.           *)
Similar(R) ==
  /\ R \in [Rows -> RowStates]
  /\ \A i \in Rows : /\ R[i].series = rows[i].series
                     /\ R[i].recurs = rows[i].recurs
                     /\ R[i].status = "absent" <=> rows[i].status = "absent"

LEMMA SyncedSimilar ==
  ASSUME TypeOK, AckInv
  PROVE  Similar(Synced) /\ Similar(rows)
<1>1. rows \in [Rows -> RowStates]
  BY DEF TypeOK
<1>2. ASSUME NEW i \in Rows
      PROVE  \/ Synced[i] = rows[i]
             \/ Synced[i] = Done(rows[i]) /\ rows[i].status # "absent"
  <2>1. CASE ack[i] = "completed"
    <3>1. rows[i].status # "absent"
      BY <2>1 DEF AckInv
    <3>2. Synced[i] = Done(rows[i])
      BY <2>1 DEF Synced
    <3> QED BY <3>1, <3>2
  <2>2. CASE ack[i] # "completed"
    BY <2>2 DEF Synced
  <2> QED BY <2>1, <2>2
<1>3. Synced \in [Rows -> RowStates]
  BY <1>1, DoneTyped DEF Synced
<1> QED BY <1>1, <1>2, <1>3, DoneTyped DEF Similar

LEMMA RetrySimilar ==
  ASSUME TypeOK, NEW R, Similar(R), NEW i \in Rows
  PROVE  /\ Retry(R, i) \in RowStates
         /\ Retry(R, i).series = rows[i].series
         /\ Retry(R, i).recurs = rows[i].recurs
         /\ Retry(R, i).status = "absent" <=> rows[i].status = "absent"
<1>1. R[i] \in RowStates /\ R[i].series = rows[i].series
      /\ R[i].recurs = rows[i].recurs
      /\ (R[i].status = "absent" <=> rows[i].status = "absent")
  BY DEF Similar
<1>2. CASE R[i].status # "pending" \/ R[i].later
  BY <1>1, <1>2 DEF Retry
<1>3. CASE ~(R[i].status # "pending" \/ R[i].later) /\ R[i].tries >= MaxTries
  <2>1. Retry(R, i) = [R[i] EXCEPT !.status = "failed"]
    BY <1>3 DEF Retry
  <2> QED BY <1>1, <1>3, <2>1 DEF RowStates
<1>4. CASE ~(R[i].status # "pending" \/ R[i].later) /\ ~(R[i].tries >= MaxTries)
  <2>1. Retry(R, i) = [R[i] EXCEPT !.tries = @ + 1, !.later = TRUE]
    BY <1>4 DEF Retry
  <2>2. R[i].tries + 1 \in 0..MaxTries
    BY <1>1, <1>4, SessionAssumption DEF RowStates
  <2> QED BY <1>1, <1>4, <2>1, <2>2 DEF RowStates
<1> QED BY <1>2, <1>3, <1>4

\* The sweep judges the container: it is left alone, or it is gone.
LEMMA InspectKeeps ==
  ASSUME IInv, NEW R, Similar(R), NEW deleted, Inspect(R, deleted),
         UNCHANGED <<heartbeat, past>>
  PROVE  Kept
<1>1. Similar(rows')
  <2>1. CASE ~Running \/ Stuck
    <3>1. rows' = [i \in Rows |-> IF i \in Claims(ack) THEN Retry(R, i) ELSE R[i]]
      BY <2>1 DEF Inspect, Reset
    <3>2. \A i \in Rows : rows'[i] = Retry(R, i) \/ rows'[i] = R[i]
      BY <3>1
    <3>3. \A i \in Rows : rows'[i] \in RowStates
      BY <3>2, RetrySimilar DEF IInv, Similar
    <3>4. rows' \in [Rows -> RowStates]
      BY <3>1, <3>3
    <3> QED BY <3>2, <3>4, RetrySimilar DEF IInv, Similar
  <2>2. CASE ~(~Running \/ Stuck)
    BY <2>2 DEF Inspect
  <2> QED BY <2>1, <2>2
<1>2. rows' \in [Rows -> RowStates] /\ \A i \in Rows : Alike(i)
  BY <1>1 DEF Similar, Alike
<1>3. /\ ack' \in [Rows -> AckStates] /\ container' \in ContainerStates
      /\ ClaimInv' /\ KeepsDone(ack, ack') /\ KeepsNone(ack, ack')
  <2>1. CASE ~Running \/ Stuck
    <3>1. container' = Off /\ (ack' = Unclaimed(ack) \/ ack' = ack)
      BY <2>1 DEF Inspect, Reset
    <3>2. ack \in [Rows -> AckStates]
      BY DEF IInv, TypeOK
    <3>3. ack' \in [Rows -> AckStates]
          /\ KeepsDone(ack, ack') /\ KeepsNone(ack, ack')
      BY <3>1, <3>2, UnclaimedKeeps, KeepsChain
    <3> QED BY <3>1, <3>3, GoneKeeps
  <2>2. CASE ~(~Running \/ Stuck)
    <3>1. UNCHANGED <<ack, container>>
      BY <2>2 DEF Inspect
    <3> QED BY <3>1, ClaimsUnchanged DEF IInv, TypeOK
  <2> QED BY <2>1, <2>2
<1>4. sweep' \in {"rest", "waking", "recurring"}
  BY DEF Inspect, GoOn
<1>5. TypeOK' /\ (past.torn <= past.stops)'
  BY <1>2, <1>3, <1>4 DEF IInv, TypeOK
<1> QED BY <1>2, <1>3, <1>5, QuietKeeps

LEMMA SweepingKeeps ==
  ASSUME IInv, Sweeping
  PROVE  Kept
<1>1. ASSUME NEW deleted \in BOOLEAN, Sweep(deleted)
      PROVE  Kept
  BY <1>1, SyncedSimilar, InspectKeeps DEF Sweep, IInv
<1>2. ASSUME NEW woken \in BOOLEAN, SweepWakes(woken)
      PROVE  Kept
  <2>1. rows' = Synced /\ Wake(woken) /\ sweep' = "waking" /\ UNCHANGED past
    BY <1>2 DEF SweepWakes
  <2>2. rows' \in [Rows -> RowStates] /\ \A i \in Rows : Alike(i)
    BY <2>1, SyncedSimilar DEF Similar, Alike, IInv
  <2>3. /\ ack' \in [Rows -> AckStates]
        /\ heartbeat' \in {"none", "fresh", "stale"}
        /\ container' \in ContainerStates
        /\ KeepsDone(ack, ack') /\ KeepsNone(ack, ack')
        /\ ClaimInv'
    BY <2>1, WakeKeeps DEF IInv
  <2>4. TypeOK' /\ (past.torn <= past.stops)'
    BY <2>1, <2>2, <2>3 DEF IInv, TypeOK
  <2> QED BY <2>1, <2>2, <2>3, <2>4, QuietKeeps
<1>3. ASSUME NEW deleted \in BOOLEAN, SweepWoken(deleted)
      PROVE  Kept
  BY <1>3, SyncedSimilar, InspectKeeps DEF SweepWoken, IInv
<1>4. CASE SweepOver
  <2>1. UNCHANGED <<rows, ack, heartbeat, container, past>> /\ sweep' = "rest"
    BY <1>4 DEF SweepOver
  <2>2. ClaimInv' /\ KeepsDone(ack, ack') /\ KeepsNone(ack, ack')
    BY <2>1, ClaimsUnchanged DEF IInv
  <2>3. TypeOK' /\ (past.torn <= past.stops)'
    BY <2>1 DEF IInv, TypeOK
  <2> QED BY <2>1, <2>2, <2>3, QuietKeeps DEF Alike
<1> QED BY <1>1, <1>2, <1>3, <1>4 DEF Sweeping

\* The row that carries a task on.
LEMMA CloneTyped ==
  ASSUME TypeOK, NEW i \in Rows
  PROVE  Clone(i) \in RowStates /\ Clone(i).status # "absent"
<1>1. 0 \in 0..MaxTries
  BY SessionAssumption
<1> QED BY <1>1 DEF Clone, TypeOK, RowStates

LEMMA RecurKeeps ==
  ASSUME IInv, NEW i \in Rows, Recur(i)
  PROVE  Kept
<1> PICK n : n = Min(Free)
  OBVIOUS
<1>1. n \in Rows /\ rows[n].status = "absent" /\ rows[i].recurs
      /\ rows[i].status = "completed"
  BY FreeRow DEF Recur, Completed
<1> DEFINE R == Insert(rows, n, Clone(i))
<1>2. rows' = [R EXCEPT ![i].recurs = FALSE]
  BY DEF Recur
<1>3. R \in [Rows -> RowStates]
      /\ \A j \in Rows : rows[j].status # "absent" => R[j].status # "absent"
  BY <1>1, CloneTyped, InsertTyped DEF IInv
<1>4. UNCHANGED <<ack, heartbeat, container, sweep, past>>
  BY DEF Recur
<1>5. SeriesInv' /\ OneCarrier'
  BY <1>1, <1>2, <1>4, CloneKeeps DEF IInv
<1> HIDE DEF R
<1>6. rows' \in [Rows -> RowStates]
      /\ \A j \in Rows : rows[j].status # "absent" => rows'[j].status # "absent"
  BY <1>2, <1>3 DEF RowStates
<1>7. ClaimInv' /\ KeepsDone(ack, ack') /\ KeepsNone(ack, ack')
  BY <1>4, ClaimsUnchanged DEF IInv
<1>8. TypeOK' /\ (past.torn <= past.stops)'
  BY <1>4, <1>6 DEF IInv, TypeOK
<1>9. AckInv'
  BY <1>6, <1>7, AckKeeps DEF IInv
<1> QED BY <1>5, <1>7, <1>8, <1>9 DEF Kept

LEMMA RestartKeeps ==
  ASSUME IInv, Restart \/ (\E i \in Rows : RestartInRecurrence(i))
  PROVE  Kept
<1>1. /\ container' = Off /\ sweep' = "rest" /\ UNCHANGED <<ack, heartbeat>>
      /\ past.stops < MaxStops
  BY DEF Restart, RestartInRecurrence, HostRestart
<1>2. /\ container' \in ContainerStates /\ ClaimInv'
      /\ KeepsDone(ack, ack') /\ KeepsNone(ack, ack')
  BY <1>1, GoneKeeps, KeepsChain
<1>3. /\ past.stops \in Nat /\ past.torn \in Nat /\ past.regular \subseteq Rows
      /\ past.torn <= past.stops /\ MaxStops \in Nat
  BY SessionAssumption DEF IInv, TypeOK
<1>4. CASE Restart
  <2>1. past' = [past EXCEPT !.stops = @ + 1] /\ UNCHANGED rows
    BY <1>4 DEF Restart
  <2>2. past'.stops = past.stops + 1 /\ past'.torn = past.torn
        /\ past'.regular = past.regular
    BY <2>1 DEF IInv, TypeOK
  <2>3. past' \in [ stops : 0..MaxStops, torn : 0..MaxStops,
                    regular : SUBSET Rows ]
        /\ past'.torn <= past'.stops
    BY <2>1, <1>1, <1>3 DEF IInv, TypeOK
  <2>4. TypeOK' /\ (past.torn <= past.stops)'
    BY <1>1, <1>2, <2>1, <2>3 DEF IInv, TypeOK
  <2> QED BY <1>2, <2>1, <2>2, <2>4, QuietKeeps DEF Alike
<1>5. ASSUME NEW i \in Rows, RestartInRecurrence(i)
      PROVE  Kept
  <2> PICK n : n = Min(Free)
    OBVIOUS
  <2>1. n \in Rows /\ rows[n].status = "absent" /\ rows[i].recurs
    BY <1>5, FreeRow DEF RestartInRecurrence, Completed
  <2>2. /\ rows' = Insert(rows, n, Clone(i))
        /\ past' = [past EXCEPT !.stops = @ + 1, !.torn = @ + 1]
    BY <1>5 DEF RestartInRecurrence, Torn
  <2>3. /\ past'.stops = past.stops + 1 /\ past'.torn = past.torn + 1
        /\ past'.regular = past.regular
    BY <2>2 DEF IInv, TypeOK
  <2>a. past.stops + 1 \in 0..MaxStops /\ past.torn + 1 \in 0..MaxStops
        /\ past.torn + 1 <= past.stops + 1
    BY <1>1, <1>3
  <2>b. past' = [ past EXCEPT !.stops = past.stops + 1, !.torn = past.torn + 1 ]
    BY <2>2
  <2>4. past' \in [ stops : 0..MaxStops, torn : 0..MaxStops,
                    regular : SUBSET Rows ]
        /\ past'.torn <= past'.stops
    <3>1. past \in [ stops : 0..MaxStops, torn : 0..MaxStops,
                     regular : SUBSET Rows ]
      BY DEF IInv, TypeOK
    <3> QED BY <3>1, <2>a, <2>b
  <2>5. rows' \in [Rows -> RowStates]
        /\ \A j \in Rows : rows[j].status # "absent" => rows'[j].status # "absent"
    BY <2>1, <2>2, CloneTyped, InsertTyped DEF IInv
  <2>6. SeriesInv' /\ OneCarrier'
    BY <2>1, <2>2, <2>3, CloneKeeps DEF IInv
  <2>7. TypeOK' /\ (past.torn <= past.stops)'
    BY <1>1, <1>2, <2>4, <2>5 DEF IInv, TypeOK
  <2>8. AckInv'
    BY <2>5, <1>2, AckKeeps DEF IInv
  <2> QED BY <1>2, <2>6, <2>7, <2>8 DEF Kept
<1> QED BY <1>4, <1>5

(***************************************************************************)
(* The poll loop                                                           *)
(***************************************************************************)
LEMMA BootKeeps ==
  ASSUME IInv, Boot
  PROVE  Kept
<1>1. /\ container.phase = "booting"
      /\ container' = [container EXCEPT !.phase = "idle"]
      /\ ack' = Unclaimed(ack) /\ UNCHANGED <<rows, heartbeat, sweep, past>>
  BY DEF Boot
<1>2. ack \in [Rows -> AckStates] /\ heartbeat \in {"none", "fresh", "stale"}
      /\ container \in ContainerStates
  BY DEF IInv, TypeOK
<1>3. container' \in ContainerStates /\ Work(container') = Work(container)
  BY <1>1, <1>2 DEF ContainerStates, Work
<1>4. Work(container) = {}
  BY <1>1 DEF IInv, ClaimInv
<1>5. ClaimInv'
  BY <1>3, <1>4 DEF ClaimInv, WorkIsClaimed, Work
<1> QED BY <1>1, <1>2, <1>3, <1>5, UnclaimedKeeps, ContainerKeeps

\* The batch that a poll takes, a command of which may be done at once.
LEMMA PollKeeps ==
  ASSUME IInv, NEW cleared \in SUBSET Rows, NEW seen, NEW scripted,
         Poll(cleared, seen, scripted)
  PROVE  Kept
<1> DEFINE batch == Pending \ cleared
           a == Complete(ack, cleared)
<1>1. /\ container.phase = "idle" /\ cleared \subseteq Pending
      /\ Claim(batch, a, seen, scripted)
      /\ container' = IF batch = {} THEN container
                      ELSE [container EXCEPT !.phase = "scripts", !.batch = batch]
      /\ UNCHANGED <<rows, sweep, past>>
  BY DEF Poll, Commands
<1>2. TypeOK /\ ClaimInv /\ ack \in [Rows -> AckStates] /\ container \in ContainerStates
  BY DEF IInv, TypeOK
<1>3. /\ a \in [Rows -> AckStates]
      /\ KeepsDone(ack, a) /\ KeepsHold(ack, a) /\ KeepsNone(ack, a)
  BY <1>1, <1>2, CompleteKeeps
<1>4. batch \in SUBSET Pending /\ batch \subseteq Rows
  BY DEF Pending, Newest
<1> HIDE DEF a, batch
<1>5. /\ ack' \in [Rows -> AckStates]
      /\ heartbeat' \in {"none", "fresh", "stale"}
      /\ KeepsDone(ack, ack') /\ KeepsHold(ack, ack') /\ KeepsNone(ack, ack')
      /\ \A i \in batch : ack'[i] # "none"
  BY <1>1, <1>2, <1>3, <1>4, ClaimKeeps
<1>6. /\ container' \in ContainerStates
      /\ container'.phase \notin {"off", "booting"}
      /\ Work(container') \subseteq Work(container) \cup batch
  BY <1>1, <1>2, <1>4 DEF ContainerStates, Work
<1>7. ClaimInv'
  BY <1>2, <1>5, <1>6, WorkKeeps
<1> QED BY <1>1, <1>5, <1>6, <1>7, ContainerKeeps

LEMMA ScriptsRanKeeps ==
  ASSUME IInv, NEW skipped \in SUBSET Rows, NEW touched,
         ScriptsRan(skipped, touched)
  PROVE  Kept
<1> DEFINE keep == container.batch \ skipped
<1>1. /\ Scripted(container.batch, skipped, touched, skipped)
      /\ skipped \subseteq container.batch
      /\ container' = [container EXCEPT
                         !.phase = IF keep = {} THEN "idle" ELSE "query",
                         !.batch = keep, !.ended = FALSE, !.events = 0]
      /\ UNCHANGED <<rows, sweep, past>>
  BY DEF ScriptsRan, Scripted, Tasks
<1>2. TypeOK /\ ClaimInv /\ container \in ContainerStates
  BY DEF IInv, TypeOK
<1>3. \A i \in skipped : i \in Rows /\ ack[i] # "none"
  BY <1>1 DEF IInv, ClaimInv, WorkIsClaimed
<1>4. /\ ack' \in [Rows -> AckStates]
      /\ heartbeat' \in {"none", "fresh", "stale"}
      /\ KeepsDone(ack, ack') /\ KeepsHold(ack, ack') /\ KeepsNone(ack, ack')
  BY <1>1, <1>2, <1>3, ScriptedKeeps
<1>5. keep \subseteq container.batch /\ 0 \in 0..MaxEvents
  BY SessionAssumption
<1> HIDE DEF keep
<1>6. /\ container' \in ContainerStates
      /\ container'.phase \notin {"off", "booting"}
      /\ Work(container') \subseteq Work(container)
  BY <1>1, <1>2, <1>5 DEF ContainerStates, Work
<1>7. ClaimInv'
  BY <1>2, <1>4, <1>6, WorkKeeps
<1> QED BY <1>1, <1>4, <1>6, <1>7, ContainerKeeps

LEMMA EndForCommandKeeps ==
  ASSUME IInv, EndForCommand
  PROVE  Kept
<1>1. /\ container.phase = "query"
      /\ container' = [container EXCEPT !.ended = TRUE]
      /\ UNCHANGED <<rows, ack, heartbeat, sweep, past>>
  BY DEF EndForCommand
<1>2. TypeOK /\ ClaimInv /\ container \in ContainerStates
      /\ ack \in [Rows -> AckStates] /\ heartbeat \in {"none", "fresh", "stale"}
  BY DEF IInv, TypeOK
<1>3. /\ container' \in ContainerStates /\ container'.phase = "query"
      /\ Work(container') = Work(container)
  BY <1>1, <1>2 DEF ContainerStates, Work
<1>4. KeepsDone(ack, ack') /\ KeepsHold(ack, ack') /\ KeepsNone(ack, ack')
  BY <1>1, KeepsChain
<1>5. ClaimInv'
  BY <1>2, <1>3, <1>4, WorkKeeps
<1> QED BY <1>1, <1>2, <1>3, <1>4, <1>5, ContainerKeeps

LEMMA FollowUpKeeps ==
  ASSUME IInv, NEW seen, NEW scripted, FollowUp(seen, scripted)
  PROVE  Kept
<1>1. /\ container.phase = "query"
      /\ Claim(Pending, ack, seen, scripted)
      /\ container' = [container EXCEPT !.follow = Pending]
      /\ UNCHANGED <<rows, sweep, past>>
  BY DEF FollowUp
<1>2. TypeOK /\ ClaimInv /\ ack \in [Rows -> AckStates] /\ container \in ContainerStates
  BY DEF IInv, TypeOK
<1>3. KeepsDone(ack, ack) /\ KeepsHold(ack, ack) /\ KeepsNone(ack, ack)
  BY KeepsChain
<1>4. Pending \subseteq Rows
  BY DEF Pending, Newest
<1>5. /\ ack' \in [Rows -> AckStates]
      /\ heartbeat' \in {"none", "fresh", "stale"}
      /\ KeepsDone(ack, ack') /\ KeepsHold(ack, ack') /\ KeepsNone(ack, ack')
      /\ \A i \in Pending : ack'[i] # "none"
  BY <1>1, <1>2, <1>3, ClaimKeeps
<1>6. /\ container' \in ContainerStates /\ container'.phase = "query"
      /\ Work(container') \subseteq Work(container) \cup Pending
  BY <1>1, <1>2, <1>4 DEF ContainerStates, Work
<1>7. ClaimInv'
  BY <1>2, <1>5, <1>6, WorkKeeps
<1> QED BY <1>1, <1>5, <1>6, <1>7, ContainerKeeps

\* Follow-ups are pushed, or come too late.
LEMMA PushedKeeps ==
  ASSUME IInv, NEW skipped \in SUBSET Rows, NEW touched, NEW ok,
         Pushed(skipped, touched, ok) \/ PushedTooLate(skipped, touched)
  PROVE  Kept
<1>1. ASSUME NEW S, S \in {container.follow, container.late},
             NEW done, done \subseteq S,
             Scripted(S, skipped, touched, done)
      PROVE  /\ ack' \in [Rows -> AckStates]
             /\ heartbeat' \in {"none", "fresh", "stale"}
             /\ KeepsDone(ack, ack') /\ KeepsHold(ack, ack') /\ KeepsNone(ack, ack')
  <2>1. \A i \in done : i \in Rows /\ ack[i] # "none"
    BY <1>1 DEF IInv, ClaimInv, WorkIsClaimed, TypeOK, ContainerStates
  <2> QED BY <1>1, <2>1, ScriptedKeeps DEF IInv
<1>2. UNCHANGED <<rows, sweep, past>>
  BY DEF Pushed, PushedTooLate
<1>3. TypeOK /\ ClaimInv /\ container \in ContainerStates
  BY DEF IInv, TypeOK
<1>4. CASE Pushed(skipped, touched, ok)
  <2> DEFINE done == IF ok THEN container.follow ELSE skipped
  <2>1. Scripted(container.follow, skipped, touched, done)
        /\ container.phase = "query"
        /\ container' = [container EXCEPT !.follow = {}]
    BY <1>4 DEF Pushed
  <2>2. done \subseteq container.follow
    BY <2>1 DEF Scripted, Tasks
  <2> HIDE DEF done
  <2>3. /\ container' \in ContainerStates /\ container'.phase = "query"
        /\ Work(container') \subseteq Work(container)
    BY <1>3, <2>1 DEF ContainerStates, Work
  <2>4. /\ ack' \in [Rows -> AckStates]
        /\ heartbeat' \in {"none", "fresh", "stale"}
        /\ KeepsDone(ack, ack') /\ KeepsHold(ack, ack') /\ KeepsNone(ack, ack')
    BY <1>1, <2>1, <2>2
  <2>5. ClaimInv'
    BY <1>3, <2>3, <2>4, WorkKeeps
  <2> QED BY <1>2, <2>3, <2>4, <2>5, ContainerKeeps
<1>5. CASE PushedTooLate(skipped, touched)
  <2>1. Scripted(container.late, skipped, touched, skipped)
        /\ container.late # {}
        /\ container' = [container EXCEPT !.late = {}]
    BY <1>5 DEF PushedTooLate
  <2>2. skipped \subseteq container.late
    BY <2>1 DEF Scripted, Tasks
  <2>3. /\ container' \in ContainerStates /\ container'.phase = container.phase
        /\ Work(container') \subseteq Work(container)
    BY <1>3, <2>1 DEF ContainerStates, Work
  <2>4. container.phase \notin {"off", "booting"}
    BY <2>1 DEF IInv, ClaimInv, Work
  <2>5. /\ ack' \in [Rows -> AckStates]
        /\ heartbeat' \in {"none", "fresh", "stale"}
        /\ KeepsDone(ack, ack') /\ KeepsHold(ack, ack') /\ KeepsNone(ack, ack')
    BY <1>1, <2>1, <2>2
  <2>6. ClaimInv'
    BY <1>3, <2>3, <2>4, <2>5, WorkKeeps
  <2> QED BY <1>2, <2>3, <2>5, <2>6, ContainerKeeps
<1> QED BY <1>4, <1>5

\* An event of the query, and its end.
LEMMA QueryKeeps ==
  ASSUME IInv, (\E result \in BOOLEAN : Event(result)) \/ QueryOver
  PROVE  Kept
<1>1. /\ container.phase = "query" /\ UNCHANGED <<rows, sweep, past>>
      /\ heartbeat' \in {"fresh", heartbeat}
      /\ \/ ack' = Complete(Touched(ack), container.batch)
         \/ ack' = Complete(Touched(ack), {})
         \/ ack' = Complete(ack, container.batch)
  BY DEF Event, QueryOver
<1>2. TypeOK /\ ClaimInv /\ container \in ContainerStates
      /\ ack \in [Rows -> AckStates] /\ heartbeat \in {"none", "fresh", "stale"}
  BY DEF IInv, TypeOK
<1>3. \A i \in container.batch : i \in Rows /\ ack[i] # "none"
  BY <1>2 DEF ClaimInv, WorkIsClaimed, ContainerStates
<1>4. /\ ack' \in [Rows -> AckStates]
      /\ KeepsDone(ack, ack') /\ KeepsHold(ack, ack') /\ KeepsNone(ack, ack')
  <2>1. /\ Touched(ack) \in [Rows -> AckStates]
        /\ KeepsDone(ack, Touched(ack)) /\ KeepsHold(ack, Touched(ack))
        /\ KeepsNone(ack, Touched(ack))
    BY <1>2, TouchedKeeps
  <2>2. \A i \in container.batch : Touched(ack)[i] # "none"
    BY <1>3, <2>1 DEF KeepsHold
  <2>3. PICK a \in [Rows -> AckStates], S \in SUBSET container.batch :
          /\ a = ack \/ a = Touched(ack)
          /\ ack' = Complete(a, S)
    BY <1>1, <1>2, <2>1
  <2>4. KeepsDone(ack, a) /\ KeepsHold(ack, a) /\ KeepsNone(ack, a)
    BY <2>1, <2>3, KeepsChain
  <2>5. \A i \in S : a[i] # "none"
    BY <1>3, <2>2, <2>3
  <2>6. ack' \in [Rows -> AckStates] /\ KeepsDone(a, ack') /\ KeepsHold(a, ack')
        /\ KeepsNone(a, ack')
    BY <2>3, <2>5, CompleteKeeps
  <2> QED BY <2>4, <2>6, KeepsChain
<1>5. /\ container' \in ContainerStates
      /\ container'.phase \notin {"off", "booting"}
      /\ Work(container') \subseteq Work(container)
  <2>1. CASE QueryOver
    <3>1. container' = [container EXCEPT
                          !.phase = "idle", !.batch = {}, !.follow = {},
                          !.late = @ \cup container.follow,
                          !.ended = FALSE, !.events = 0]
      BY <2>1 DEF QueryOver
    <3>2. 0 \in 0..MaxEvents
      BY SessionAssumption
    <3> QED BY <1>2, <3>1, <3>2 DEF ContainerStates, Work
  <2>2. CASE \E result \in BOOLEAN : Event(result)
    <3>1. container' = [container EXCEPT !.events = container.events + 1]
          /\ container.events < MaxEvents
      BY <2>2 DEF Event
    <3>2. container.events + 1 \in 0..MaxEvents
      BY <3>1, <1>2, SessionAssumption DEF ContainerStates
    <3> QED BY <1>1, <1>2, <3>1, <3>2 DEF ContainerStates, Work
  <2> QED BY <2>1, <2>2
<1>6. ClaimInv'
  BY <1>2, <1>4, <1>5, WorkKeeps
<1> QED BY <1>1, <1>2, <1>4, <1>5, <1>6, ContainerKeeps

LEMMA CrashKeeps ==
  ASSUME IInv, Crash
  PROVE  Kept
<1>1. /\ container' = Off /\ past.stops < MaxStops
      /\ past' = [past EXCEPT !.stops = past.stops + 1]
      /\ UNCHANGED <<rows, ack, heartbeat, sweep>>
  BY DEF Crash
<1>2. past \in [ stops : 0..MaxStops, torn : 0..MaxStops, regular : SUBSET Rows ]
      /\ past.torn <= past.stops
  BY DEF IInv, TypeOK
<1>3. past.stops + 1 \in 0..MaxStops /\ past.torn <= past.stops + 1
  BY <1>1, <1>2, SessionAssumption
<1>4. /\ past' \in [ stops : 0..MaxStops, torn : 0..MaxStops, regular : SUBSET Rows ]
      /\ past'.torn <= past'.stops
      /\ past'.torn = past.torn /\ past'.regular = past.regular
  BY <1>1, <1>2, <1>3
<1>5. container' \in ContainerStates /\ ClaimInv'
      /\ KeepsDone(ack, ack') /\ KeepsNone(ack, ack')
  BY <1>1, GoneKeeps, KeepsChain
<1>6. TypeOK' /\ (past.torn <= past.stops)'
  BY <1>1, <1>4, <1>5 DEF IInv, TypeOK
<1> QED BY <1>1, <1>4, <1>5, <1>6, QuietKeeps DEF Alike

\* Claims and heartbeats age.
LEMMA AgesKeeps ==
  ASSUME IInv, (\E i \in Rows : ClaimAges(i)) \/ HeartbeatAges
  PROVE  Kept
<1>1. UNCHANGED <<rows, container, sweep, past>>
  BY DEF ClaimAges, HeartbeatAges
<1>2. /\ ack' \in [Rows -> AckStates]
      /\ heartbeat' \in {"none", "fresh", "stale"}
      /\ KeepsDone(ack, ack') /\ KeepsHold(ack, ack') /\ KeepsNone(ack, ack')
  BY DEF ClaimAges, HeartbeatAges, IInv, TypeOK, AckStates, ClaimStates,
         KeepsDone, KeepsHold, KeepsNone
<1>3. container' \in ContainerStates /\ Work(container) \subseteq Rows
  BY <1>1 DEF IInv, TypeOK, ContainerStates, Work
<1>4. ClaimInv'
  BY <1>1, <1>2, <1>3 DEF IInv, ClaimInv, WorkIsClaimed, KeepsHold, Work
<1> QED BY <1>1, <1>2, <1>3, <1>4, ContainerKeeps

(***************************************************************************)
(* The theorems                                                            *)
(***************************************************************************)
LEMMA InitHolds == Init => IInv
<1> SUFFICES ASSUME Init PROVE IInv
  OBVIOUS
<1>1. NoRow \in RowStates /\ ~NoRow.recurs
  BY SessionAssumption DEF NoRow, RowStates, Kinds
<1>2. Off \in ContainerStates /\ Work(Off) = {} /\ Off.phase = "off"
  BY SessionAssumption DEF Off, ContainerStates, Work
<1>3. TypeOK
  BY <1>1, <1>2, SessionAssumption DEF Init, TypeOK, AckStates
<1>4. ClaimInv
  BY <1>2 DEF Init, ClaimInv, WorkIsClaimed, Work
<1>5. AckInv /\ SeriesInv /\ OneCarrier
  BY <1>1 DEF Init, AckInv, SeriesInv, OneCarrier
<1> QED BY <1>3, <1>4, <1>5 DEF Init, IInv

LEMMA StepKeeps == IInv /\ [Next]_vars => Kept
<1> SUFFICES ASSUME IInv, [Next]_vars PROVE Kept
  OBVIOUS
<1>1. CASE Next
  BY <1>1, ReceiveKeeps, ScheduleKeeps, CancelTaskKeeps, PauseResumeKeeps,
     SweepingKeeps, RecurKeeps, RestartKeeps, BootKeeps, PollKeeps,
     ScriptsRanKeeps, EndForCommandKeeps, FollowUpKeeps, PushedKeeps,
     QueryKeeps, CrashKeeps, ComesDueKeeps, AgesKeeps
     DEF Next, AnyPoll, AnyScriptsRan
<1>2. CASE UNCHANGED vars
  <2>1. UNCHANGED <<rows, ack, heartbeat, container, sweep, past>>
    BY <1>2 DEF vars
  <2>2. ClaimInv' /\ KeepsDone(ack, ack') /\ KeepsNone(ack, ack')
    BY <2>1, ClaimsUnchanged DEF IInv
  <2>3. TypeOK' /\ (past.torn <= past.stops)'
    BY <2>1 DEF IInv, TypeOK
  <2> QED BY <2>1, <2>2, <2>3, QuietKeeps DEF Alike
<1> QED BY <1>1, <1>2

LEMMA Inductive == IInv /\ [Next]_vars => IInv'
BY StepKeeps DEF Kept, IInv

(* Every variable keeps its type, and no counter passes its bound.         *)
THEOREM TypeCorrect == Spec => []TypeOK
BY InitHolds, Inductive, PTL DEF Spec, IInv

(* The rows a live container works on stay claimed by it, through every    *)
(* sweep, reset and restart of the host: resetStuckProcessingRows deletes  *)
(* claims only of a container that is gone or that it kills with them.     *)
THEOREM WorkStaysClaimed == Spec => []WorkIsClaimed
<1>1. IInv => WorkIsClaimed
  BY DEF IInv, ClaimInv
<1> QED BY <1>1, InitHolds, Inductive, PTL DEF Spec

(* A row whose completion a container has acknowledged stays acknowledged, *)
(* whatever crashes before the host reads it (syncProcessingAcks):         *)
(* clearStaleProcessingAcks and the reset delete claims only.              *)
THEOREM DoneKept == Spec => DoneStaysDone
<1>1. IInv /\ [Next]_vars
        => [\A i \in Rows : ack[i] = "completed" => ack'[i] = "completed"]_vars
  BY StepKeeps DEF Kept, KeepsDone
<1> QED BY <1>1, InitHolds, Inductive, PTL DEF Spec, DoneStaysDone

(* A recurring task that was not cancelled is carried on by a row, wherever*)
(* the host stops in handleRecurrence, and by at most one more for every   *)
(* stop between insertRecurrence and clearRecurrence.                      *)
THEOREM CarrierKept == Spec => []OneCarrier
<1>1. IInv => OneCarrier
  BY DEF IInv
<1> QED BY <1>1, InitHolds, Inductive, PTL DEF Spec
=============================================================================
