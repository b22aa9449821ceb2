-------------------------- MODULE IpcRequestsProof --------------------------
(***************************************************************************)
(* Proofs about IpcRequests: requests are carried out once and in order,   *)
(* for any number of folders, requests and faults.                         *)
(*                                                                         *)
(* The key is what the watcher's list leaves out: whatever lies in the     *)
(* directory at hand and is not in the list is newer than all of the list. *)
(* So the request in hand is the oldest of its directory, and the task a   *)
(* cancel is about has long left it.                                       *)
(***************************************************************************)
EXTENDS IpcRequests, FiniteSetTheorems, TLAPS

Written == 1..Len(request)

Types ==
  /\ request \in Seq([folder : Folders, kind : Kinds, task : 0..MaxRequests])
  /\ Len(request) <= MaxRequests
  /\ disk \subseteq Written
  /\ watcher \in WatcherStates
  /\ past \in [Requests -> [done : Nat, cut : Nat, dropped : BOOLEAN]]

(* A cancel is about a task scheduled before from the same folder.         *)
CancelsLater ==
  \A r \in Written : Kind(r) = "cancel" =>
    LET t == request[r].task IN
    /\ t \in Written /\ t < r
    /\ Kind(t) = "schedule" /\ request[t].folder = request[r].folder

(* The list is of the directory at hand and still there; what is not in it *)
(* is newer.                                                               *)
ListInv ==
  /\ \A r \in watcher.files : r \in disk /\ BoxOf(r) = watcher.box
  /\ watcher.at \in {"down", "rest", "listing"} => watcher.files = {}
  /\ watcher.at \in {"awaiting", "unlinking", "failing"} => watcher.files # {}
  /\ \A r \in watcher.files, s \in disk \ watcher.files :
       BoxOf(s) = watcher.box => r < s

(* The request in hand has taken effect, or may have.                      *)
Spent == watcher.landed \/ watcher.at \in {"unlinking", "failing"}

Busy(r) == Spent /\ r = InHand

CountInv ==
  /\ watcher.landed => watcher.at = "awaiting"
  /\ watcher.at = "awaiting" => Kind(InHand) # "schedule"
  /\ \A r \in Requests :
       /\ past[r].done <= 1 + past[r].cut
       /\ r \in disk /\ ~Busy(r) => past[r].done <= past[r].cut
       /\ r \notin Written => past[r].done = 0

(* A task that was created, and whose request is still there, is there.    *)
TaskInv ==
  \A r \in Written : Kind(r) = "schedule" =>
    /\ past[r].done <= 1
    /\ r \in disk /\ past[r].done > 0 => r \in rows

Accounted(r) == past[r].done > 0 \/ past[r].dropped

GoneInv ==
  /\ watcher.landed \/ watcher.at = "unlinking" => Accounted(InHand)
  /\ \A r \in Written : r \notin disk => Accounted(r) \/ r \in errors

IpcInv == Types /\ CancelsLater /\ ListInv /\ CountInv /\ TaskInv /\ GoneInv

-----------------------------------------------------------------------------
(* A set of numbers has a least one.                                       *)
LEMMA LeastOf ==
  ASSUME NEW S \in SUBSET Nat, S # {}
  PROVE  \E x \in S : \A y \in S : x <= y
<1> DEFINE T == {0..n : n \in S}
<1>1. T \subseteq FiniteSubsetsOf(Nat)
  <2>1. \A n \in S : 0..n \in SUBSET Nat /\ IsFiniteSet(0..n)
    BY FS_Interval
  <2>2. QED BY <2>1 DEF FiniteSubsetsOf
<1>2. PICK X \in T : \A Y \in T : <<Y, X>> \notin StrictSubsetOrdering(Nat)
  <2>1. T # {} OBVIOUS
  <2> HIDE DEF T
  <2>2. QED BY <1>1, <2>1, FS_StrictSubsetOrderingWellFounded, WFMin
<1>3. PICK x \in S : X = 0..x OBVIOUS
<1>4. ASSUME NEW y \in S, y < x PROVE FALSE
  <2>1. 0..y \in T /\ <<0..y, X>> \notin StrictSubsetOrdering(Nat) BY <1>2
  <2>2. x \in 0..x /\ x \notin 0..y BY <1>4
  <2>3. 0..y \subseteq 0..x BY <1>4
  <2>4. QED BY <2>1, <2>2, <2>3, <1>3 DEF StrictSubsetOrdering
<1>5. QED BY <1>4

(* What is in hand is the oldest request of its directory.                 *)
LEMMA InHandLeast ==
  ASSUME Types, watcher.files # {}
  PROVE  InHand \in watcher.files /\ \A s \in watcher.files : InHand <= s
<1>1. watcher.files \in SUBSET Nat BY DEF Types, WatcherStates, Requests
<1>2. \E r \in watcher.files : \A s \in watcher.files : r <= s BY <1>1, LeastOf
<1>3. QED BY <1>2 DEF InHand

LEMMA InHandOldest ==
  ASSUME Types, ListInv, watcher.files # {}
  PROVE  /\ InHand \in disk /\ InHand \in Written /\ InHand \in Requests
         /\ BoxOf(InHand) = watcher.box
         /\ \A s \in disk : BoxOf(s) = watcher.box => InHand <= s
<1>1. InHand \in watcher.files /\ \A s \in watcher.files : InHand <= s BY InHandLeast
<1>2. InHand \in disk /\ InHand \in Written /\ InHand \in Requests
  <2>1. InHand \in disk /\ InHand \in 1..Len(request) BY <1>1 DEF Types, ListInv, Written
  <2>2. Len(request) \in Nat /\ Len(request) <= MaxRequests BY DEF Types
  <2>3. QED BY <2>1, <2>2, IpcAssumption DEF Written, Requests
<1>3. ASSUME NEW s \in disk, BoxOf(s) = watcher.box PROVE InHand <= s
  <2>1. CASE s \in watcher.files BY <2>1, <1>1
  <2>2. CASE s \notin watcher.files
    <3>1. InHand < s BY <2>2, <1>1, <1>3 DEF ListInv
    <3>2. QED BY <3>1, <1>2 DEF Written, Types
  <2>3. QED BY <2>1, <2>2
<1>4. QED BY <1>1, <1>2, <1>3 DEF ListInv

(* The list decides what is in hand.                                       *)
LEMMA SameInHand ==
  ASSUME watcher'.files = watcher.files
  PROVE  InHand' = InHand
BY DEF InHand
-----------------------------------------------------------------------------
(* The steps.  First those after which everything here is as it was.       *)
LEMMA QuietSteps ==
  ASSUME IpcInv, UNCHANGED <<request, disk, errors, rows, watcher, past>>
  PROVE  IpcInv'
BY DEF IpcInv, Types, CancelsLater, ListInv, CountInv, TaskInv, GoneInv, Accounted,
       Busy, Spent, InHand, Kind, BoxOf, Written

(* A new request is newer than all the others.                             *)
LEMMA WriteStep ==
  ASSUME IpcInv, NEW f \in Folders, NEW k \in Kinds, NEW t \in 0..MaxRequests,
         WriteIpcFile(f, k, t)
  PROVE  IpcInv'
<1> USE DEF IpcInv
<1> PICK n \in Requests : n = Len(request) + 1 BY DEF WriteIpcFile
<1>1. /\ Len(request) \in Nat /\ Len(request') = n /\ n \in Requests /\ n <= MaxRequests
      /\ \A r \in Written : request'[r] = request[r]
      /\ request'[n] = [folder |-> f, kind |-> k, task |-> t]
      /\ request' \in Seq([folder : Folders, kind : Kinds, task : 0..MaxRequests])
  BY IpcAssumption DEF WriteIpcFile, Types, Requests, Written
<1>2. /\ Written' = Written \cup {n} /\ n \notin Written
      /\ \A r \in Written : r < n /\ r \in Requests
  BY <1>1, IpcAssumption DEF Written, Requests
<1>3. /\ \A r \in Written : Kind(r)' = Kind(r) /\ BoxOf(r)' = BoxOf(r)
      /\ Kind(n)' = k
  <2>1. ASSUME NEW r \in Written PROVE Kind(r)' = Kind(r) /\ BoxOf(r)' = BoxOf(r)
    BY <1>1 DEF Kind, BoxOf
  <2>2. Kind(n)' = k BY <1>1 DEF Kind
  <2>3. QED BY <2>1, <2>2
<1>4. /\ disk' = disk \cup {n} /\ n \notin disk
      /\ UNCHANGED <<errors, rows, watcher, past>>
  BY <1>2 DEF WriteIpcFile, Types
<1>5. InHand' = InHand /\ (watcher.files # {} => InHand \in Written)
  BY <1>4, SameInHand, InHandOldest
<1>6. Types' BY <1>1, <1>2, <1>4 DEF Types
<1>7. CancelsLater'
  <2>1. k = "cancel" => t \in Written /\ Kind(t) = "schedule" /\ request[t].folder = f
    BY DEF WriteIpcFile, MayAsk, Written
  <2>2. SUFFICES ASSUME NEW r \in Written', Kind(r)' = "cancel"
                 PROVE  LET u == request'[r].task IN
                        /\ u \in Written' /\ u < r
                        /\ request'[u].kind = "schedule" /\ request'[u].folder = request'[r].folder
    BY DEF CancelsLater, Kind
  <2>3. CASE r \in Written
    <3>1. Kind(r) = "cancel" /\ request'[r] = request[r] BY <2>2, <2>3, <1>1, <1>3
    <3>2. QED BY <2>3, <3>1, <1>1, <1>2 DEF CancelsLater, Kind
  <2>4. CASE r = n
    <3>1. k = "cancel" BY <2>2, <2>4, <1>3
    <3>2. t \in Written /\ t < n /\ request'[t].folder = f /\ request'[t].kind = "schedule"
      BY <3>1, <2>1, <1>1, <1>2 DEF Kind
    <3>3. QED BY <3>2, <2>4, <1>1, <1>2
  <2>5. QED BY <2>2, <2>3, <2>4, <1>2
<1>8. ListInv' BY <1>2, <1>3, <1>4 DEF ListInv, Types
<1>9. CountInv' BY <1>2, <1>3, <1>4, <1>5, <1>1 DEF CountInv, Busy, Spent, ListInv, Types
<1>10. TaskInv' BY <1>1, <1>2, <1>3, <1>4 DEF TaskInv, CountInv, Types
<1>11. GoneInv' BY <1>2, <1>4, <1>5 DEF GoneInv, Accounted
<1>12. QED BY <1>6, <1>7, <1>8, <1>9, <1>10, <1>11

(* Steps of the watcher alone.                                             *)
Move == UNCHANGED <<request, disk, errors, rows, past>>

LEMMA MoveKeeps ==
  ASSUME IpcInv, Move, watcher' \in WatcherStates, ListInv',
         watcher'.landed => watcher'.at = "awaiting",
         watcher'.at = "awaiting" => Kind(InHand') # "schedule",
         \A r \in disk : Busy(r) => Busy(r)',
         watcher'.landed \/ watcher'.at = "unlinking" => Accounted(InHand')
  PROVE  IpcInv'
<1> USE DEF IpcInv, Move
<1>1. Types' /\ CancelsLater' /\ TaskInv'
  BY DEF Types, CancelsLater, TaskInv, Written, Kind
<1>2. CountInv' BY DEF CountInv, Written, Kind
<1>3. GoneInv' BY DEF GoneInv, Accounted, Written
<1>4. QED BY <1>1, <1>2, <1>3
(* Nothing is in hand before or after.                                     *)
LEMMA RestingSteps ==
  ASSUME IpcInv, BeginCycle \/ NextBox \/ StartIpcWatcher
  PROVE  IpcInv'
<1> USE DEF IpcInv
<1>1. /\ Move /\ watcher' \in WatcherStates
      /\ watcher.files = {} /\ watcher'.files = {}
      /\ watcher'.at \in {"listing", "rest"} /\ watcher'.landed = watcher.landed
      /\ watcher.at \notin {"awaiting", "unlinking", "failing"}
  <2>1. watcher \in WatcherStates /\ Boxes \in Nat /\ 1 \in 1..Boxes
    BY IpcAssumption DEF Types, Boxes
  <2>2. CASE BeginCycle BY <2>1, <2>2 DEF BeginCycle, At, Move, ListInv, WatcherStates
  <2>3. CASE NextBox
    <3>1. watcher.box < Boxes => watcher.box + 1 \in 1..Boxes BY <2>1 DEF WatcherStates
    <3>2. watcher' \in WatcherStates
      BY <2>1, <2>3, <3>1 DEF NextBox, WatcherStates
    <3>3. QED BY <2>1, <2>3, <3>2 DEF NextBox, At, Move, WatcherStates
  <2>4. CASE StartIpcWatcher
    BY <2>1, <2>4 DEF StartIpcWatcher, At, Move, ListInv, WatcherStates
  <2>5. QED BY <2>2, <2>3, <2>4
<1>2. ListInv' BY <1>1 DEF ListInv
<1>3. ~Spent BY <1>1 DEF CountInv, Spent
<1>4. QED BY <1>1, <1>2, <1>3, MoveKeeps DEF CountInv, Busy, Spent

(* The directory is read: everything in it is in the list.                 *)
LEMMA ListStep ==
  ASSUME IpcInv, List
  PROVE  IpcInv'
<1> USE DEF IpcInv
<1>1. /\ Move /\ watcher' \in WatcherStates /\ watcher.at = "listing"
      /\ watcher'.files = {r \in disk : BoxOf(r) = watcher.box}
      /\ watcher'.box = watcher.box /\ watcher'.at = "taking"
      /\ watcher'.landed = watcher.landed
  <2>1. disk \subseteq Requests BY IpcAssumption DEF Types, Written, Requests
  <2>2. QED BY <2>1 DEF List, At, Move, Types, WatcherStates
<1>2. \A r : BoxOf(r)' = BoxOf(r) BY <1>1 DEF Move, BoxOf, Kind
<1>3. ListInv' BY <1>1, <1>2 DEF ListInv, Move
<1>4. ~Spent BY <1>1 DEF CountInv, Spent
<1>5. QED BY <1>1, <1>3, <1>4, MoveKeeps DEF CountInv, Busy, Spent

(* The request in hand stays in hand.                                      *)
LEMMA HoldingSteps ==
  ASSUME IpcInv, TakeAwaited \/ Settle \/ SendFails \/ UnlinkFails
  PROVE  IpcInv'
<1> USE DEF IpcInv
<1>1. /\ Move /\ watcher' \in WatcherStates /\ watcher.files # {}
      /\ watcher'.files = watcher.files /\ watcher'.box = watcher.box
      /\ watcher'.at \in {"awaiting", "unlinking", "failing"} /\ ~watcher'.landed
      /\ watcher'.at = "awaiting" => TakeAwaited
      /\ watcher'.at = "unlinking" => watcher.landed
  <2>1. watcher \in WatcherStates BY DEF Types
  <2>2. CASE TakeAwaited
    BY <2>1, <2>2 DEF TakeAwaited, Taking, Goes, At, Move, WatcherStates
  <2>3. CASE Settle BY <2>1, <2>3 DEF Settle, Goes, At, Move, ListInv, WatcherStates
  <2>4. CASE SendFails BY <2>1, <2>4 DEF SendFails, Goes, At, Move, ListInv, WatcherStates
  <2>5. CASE UnlinkFails
    BY <2>1, <2>5 DEF UnlinkFails, Goes, At, Move, ListInv, WatcherStates
  <2>6. QED BY <2>2, <2>3, <2>4, <2>5
<1>2. InHand' = InHand BY <1>1, SameInHand
<1>3. \A r : BoxOf(r)' = BoxOf(r) /\ Kind(r)' = Kind(r) BY <1>1 DEF Move, BoxOf, Kind
<1>4. ListInv' BY <1>1, <1>3 DEF ListInv, Move
<1>6. TakeAwaited => Kind(InHand) # "schedule" /\ watcher.at = "taking"
  BY DEF TakeAwaited, Taking, At
<1>8. \A r \in disk : Busy(r) => Busy(r)'
  BY <1>1, <1>2, <1>6 DEF Busy, Spent, CountInv
<1>9. Kind(InHand') = Kind(InHand) BY <1>2
<1>10. watcher'.at = "unlinking" => Accounted(InHand')
  BY <1>1, <1>2 DEF GoneInv, Accounted, Move
<1>11. QED BY <1>1, <1>4, <1>6, <1>8, <1>10, <1>2, <1>3, MoveKeeps DEF Kind, Move

(* A request takes effect, or is dropped: what is common to these steps.   *)
Effecting ==
  /\ UNCHANGED <<request, disk, errors>>
  /\ watcher.files # {} /\ watcher'.files = watcher.files /\ watcher'.box = watcher.box
  /\ watcher' \in WatcherStates
  /\ ~Spent /\ Spent'
  /\ watcher'.at \in {"awaiting", "unlinking", "failing"}
  /\ watcher'.landed => watcher'.at = "awaiting"
  /\ watcher'.at = "awaiting" => Kind(InHand) # "schedule"
  /\ past' \in [Requests -> [done : Nat, cut : Nat, dropped : BOOLEAN]]
  /\ \A r \in Requests : r # InHand => past'[r] = past[r]
  /\ past'[InHand].done \in past[InHand].done..(past[InHand].done + 1)
  /\ past'[InHand].cut = past[InHand].cut
  /\ watcher'.at = "failing" \/ past'[InHand].done > 0 \/ past'[InHand].dropped
  /\ past[InHand].dropped => past'[InHand].dropped

LEMMA EffectKeeps ==
  ASSUME IpcInv, Effecting, TaskInv'
  PROVE  IpcInv'
<1> USE DEF IpcInv
<1>1. /\ InHand \in disk /\ InHand \in Written /\ InHand \in Requests
      /\ InHand' = InHand
  BY InHandOldest, SameInHand DEF Effecting
<1>2. /\ \A r : BoxOf(r)' = BoxOf(r) /\ Kind(r)' = Kind(r)
      /\ Kind(InHand') = Kind(InHand) /\ Written' = Written
  BY <1>1 DEF Effecting, BoxOf, Kind, Written
<1>3. /\ \A r \in Requests : r # InHand => past'[r] = past[r]
      /\ past' \in [Requests -> [done : Nat, cut : Nat, dropped : BOOLEAN]]
  BY DEF Effecting
<1>4. Types' BY <1>2, <1>3 DEF Effecting, Types
<1>5. CancelsLater' BY <1>2 DEF Effecting, CancelsLater, Kind
<1>6. ListInv' BY <1>2 DEF Effecting, ListInv
<1>7. CountInv'
  <2>1. ASSUME NEW r \in Requests
        PROVE  /\ past'[r].done <= 1 + past'[r].cut
               /\ r \in disk' /\ ~Busy(r)' => past'[r].done <= past'[r].cut
               /\ r \notin Written' => past'[r].done = 0
    <3>1. CASE r = InHand
      <4>1. past[r].done <= past[r].cut
        BY <3>1, <1>1 DEF CountInv, Busy, Effecting
      <4>2. past'[r].done <= 1 + past'[r].cut
        BY <4>1, <3>1, <1>1 DEF Effecting, Types
      <4>3. Busy(r)' BY <3>1, <1>1 DEF Busy, Effecting
      <4>4. QED BY <4>2, <4>3, <3>1, <1>1, <1>2
    <3>2. CASE r # InHand
      BY <3>2, <1>1, <1>2, <1>3 DEF CountInv, Busy, Effecting
    <3>3. QED BY <3>1, <3>2
  <2>2. /\ watcher'.landed => watcher'.at = "awaiting"
        /\ watcher'.at = "awaiting" => Kind(InHand)' # "schedule"
    BY <1>1, <1>2 DEF Effecting, Kind
  <2>3. QED BY <2>1, <2>2 DEF CountInv
<1>8. GoneInv'
  <2>1. watcher'.landed \/ watcher'.at = "unlinking" => Accounted(InHand)'
    BY <1>1 DEF Effecting, Accounted
  <2>2. ASSUME NEW r \in Written', r \notin disk' PROVE Accounted(r)' \/ r \in errors'
    <3>1. r \in Written /\ r \notin disk /\ r # InHand /\ r \in Requests
      BY <2>2, <1>1, <1>2, IpcAssumption DEF Effecting, Types, Written, Requests
    <3>2. QED BY <3>1, <1>3 DEF GoneInv, Accounted, Effecting
  <2>3. QED BY <2>1, <2>2 DEF GoneInv
<1>9. QED BY <1>4, <1>5, <1>6, <1>7, <1>8

(* A drop changes no task; the awaited effect is not that of a schedule.   *)
LEMMA EffectSteps ==
  ASSUME IpcInv, TakeDropped \/ TakeRestart \/ Land
  PROVE  IpcInv'
<1> USE DEF IpcInv
<1>1. watcher \in WatcherStates /\ watcher.files # {} /\ rows' = rows
  <2>1. watcher \in WatcherStates BY DEF Types
  <2>2. watcher.files # {} /\ rows' = rows
    BY DEF TakeDropped, TakeRestart, Land, Taking, At, ListInv
  <2>3. QED BY <2>1, <2>2
<1>2. InHand \in Requests /\ InHand \in Written BY <1>1, InHandOldest
<1>3. past[InHand] \in [done : Nat, cut : Nat, dropped : BOOLEAN] BY <1>2 DEF Types
<1>4. CASE TakeDropped
  <2>1. /\ past' = [past EXCEPT ![InHand].dropped = TRUE]
        /\ UNCHANGED <<request, disk, errors>> /\ watcher.at = "taking"
        /\ watcher' = [watcher EXCEPT !.at = "unlinking", !.landed = FALSE]
    BY <1>4 DEF TakeDropped, Taking, At, Goes
  <2>2. /\ past' \in [Requests -> [done : Nat, cut : Nat, dropped : BOOLEAN]]
        /\ past'[InHand] = [past[InHand] EXCEPT !.dropped = TRUE]
        /\ \A r \in Requests : r # InHand => past'[r] = past[r]
    BY <2>1, <1>2, <1>3 DEF Types
  <2>3. /\ watcher' \in WatcherStates /\ watcher'.files = watcher.files
        /\ watcher'.box = watcher.box /\ ~Spent /\ Spent'
        /\ watcher'.at = "unlinking" /\ ~watcher'.landed
    BY <2>1, <1>1 DEF Spent, CountInv, WatcherStates
  <2>4. Effecting BY <2>1, <2>2, <2>3, <1>1, <1>3 DEF Effecting
  <2>5. \A r \in Requests : past'[r].done = past[r].done BY <2>2, <1>3
  <2>6. Written \subseteq Requests BY IpcAssumption DEF Types, Written, Requests
  <2>7. TaskInv' BY <2>1, <2>5, <2>6, <1>1 DEF TaskInv, Written, Kind
  <2>8. QED BY <2>4, <2>7, EffectKeeps
<1>5. CASE TakeRestart \/ Land
  <2>1. /\ past' = [past EXCEPT ![InHand].done = @ + 1]
        /\ UNCHANGED <<request, disk, errors>>
        /\ Kind(InHand) # "schedule"
        /\ \/ /\ watcher.at = "taking"
              /\ watcher' = [watcher EXCEPT !.at = "unlinking", !.armed = TRUE]
           \/ /\ watcher.at = "awaiting" /\ ~watcher.landed
              /\ watcher' = [watcher EXCEPT !.landed = TRUE]
    BY <1>5 DEF TakeRestart, Land, Taking, At, Effect, CountInv
  <2>2. /\ past' \in [Requests -> [done : Nat, cut : Nat, dropped : BOOLEAN]]
        /\ past'[InHand] = [past[InHand] EXCEPT !.done = @ + 1]
        /\ \A r \in Requests : r # InHand => past'[r] = past[r]
    BY <2>1, <1>2, <1>3, SMTT(30) DEF Types
  <2>3. /\ watcher' \in WatcherStates /\ watcher'.files = watcher.files
        /\ watcher'.box = watcher.box /\ ~Spent /\ Spent'
        /\ watcher'.at \in {"awaiting", "unlinking"}
        /\ watcher'.landed => watcher'.at = "awaiting"
    BY <2>1, <1>1 DEF Spent, CountInv, WatcherStates
  <2>4. Effecting BY <2>1, <2>2, <2>3, <1>1, <1>3 DEF Effecting
  <2>5. TaskInv'
    <3>2. Written \subseteq Requests BY IpcAssumption DEF Types, Written, Requests
    <3>3. QED BY <2>1, <2>2, <3>2, <1>1 DEF TaskInv, Written, Kind
  <2>6. QED BY <2>4, <2>5, EffectKeeps
<1>6. QED BY <1>4, <1>5

(* What InHand is, once the list is not empty.                             *)
LEMMA Holding ==
  ASSUME IpcInv, watcher.files # {}
  PROVE  /\ InHand \in disk /\ InHand \in Written /\ InHand \in Requests
         /\ past[InHand] \in [done : Nat, cut : Nat, dropped : BOOLEAN]
         /\ Written \subseteq Requests
<1>1. InHand \in disk /\ InHand \in Written /\ InHand \in Requests
  BY InHandOldest DEF IpcInv
<1>2. Written \subseteq Requests BY IpcAssumption DEF IpcInv, Types, Written, Requests
<1>3. QED BY <1>1, <1>2 DEF IpcInv, Types

(* A task is created only if it is not there: then it never was.           *)
LEMMA ScheduleStep ==
  ASSUME IpcInv, TakeSchedule
  PROVE  IpcInv'
<1> USE DEF IpcInv
<1>1. /\ watcher \in WatcherStates /\ watcher.files # {} /\ watcher.at = "taking"
      /\ Kind(InHand) = "schedule" /\ UNCHANGED <<request, disk, errors>>
  BY DEF TakeSchedule, Taking, At, Types
<1>2. /\ InHand \in disk /\ InHand \in Written /\ InHand \in Requests
      /\ past[InHand] \in [done : Nat, cut : Nat, dropped : BOOLEAN]
      /\ Written \subseteq Requests
  BY <1>1, Holding
<1>3. ~Spent BY <1>1 DEF Spent, CountInv
<1>4. CASE InHand \in rows
  <2>1. /\ watcher' = [watcher EXCEPT !.at = "failing", !.landed = FALSE]
        /\ UNCHANGED <<rows, past>>
    BY <1>4 DEF TakeSchedule, Goes
  <2>2. /\ watcher' \in WatcherStates /\ watcher'.files = watcher.files
        /\ watcher'.box = watcher.box /\ Spent'
        /\ watcher'.at = "failing" /\ ~watcher'.landed
    BY <2>1, <1>1 DEF Spent, WatcherStates
  <2>3. past' \in [Requests -> [done : Nat, cut : Nat, dropped : BOOLEAN]]
    BY <2>1 DEF Types
  <2>4. Effecting BY <2>1, <2>2, <2>3, <1>1, <1>2, <1>3 DEF Effecting
  <2>5. TaskInv' BY <2>1, <1>1 DEF TaskInv, Written, Kind
  <2>6. QED BY <2>4, <2>5, EffectKeeps
<1>5. CASE InHand \notin rows
  <2>1. /\ watcher' = [watcher EXCEPT !.at = "unlinking", !.landed = FALSE]
        /\ rows' = rows \cup {InHand}
        /\ past' = [past EXCEPT ![InHand].done = @ + 1]
    BY <1>5 DEF TakeSchedule, Goes, Effect
  <2>2. /\ past' \in [Requests -> [done : Nat, cut : Nat, dropped : BOOLEAN]]
        /\ past'[InHand] = [past[InHand] EXCEPT !.done = @ + 1]
        /\ \A r \in Requests : r # InHand => past'[r] = past[r]
    BY <2>1, <1>2, SMTT(30) DEF Types
  <2>3. /\ watcher' \in WatcherStates /\ watcher'.files = watcher.files
        /\ watcher'.box = watcher.box /\ Spent'
        /\ watcher'.at = "unlinking" /\ ~watcher'.landed
    BY <2>1, <1>1 DEF Spent, WatcherStates
  <2>4. Effecting BY <2>2, <2>3, <1>1, <1>2, <1>3 DEF Effecting
  <2>5. past[InHand].done = 0 BY <1>1, <1>2, <1>5 DEF TaskInv
  <2>6. TaskInv' BY <2>1, <2>2, <2>5, <1>1, <1>2 DEF TaskInv, Written, Kind
  <2>7. QED BY <2>4, <2>6, EffectKeeps
<1>6. QED BY <1>4, <1>5

(* The task a cancel is about was written before it, so its request is     *)
(* gone and cannot create the task again.                                  *)
LEMMA CancelStep ==
  ASSUME IpcInv, TakeCancel
  PROVE  IpcInv'
<1> USE DEF IpcInv
<1>1. /\ watcher \in WatcherStates /\ watcher.files # {} /\ watcher.at = "taking"
      /\ Kind(InHand) = "cancel" /\ UNCHANGED <<request, disk, errors>>
      /\ watcher' = [watcher EXCEPT !.at = "unlinking", !.landed = FALSE]
      /\ rows' = rows \ {request[InHand].task}
      /\ past' = [past EXCEPT ![InHand].done = @ + 1]
  BY DEF TakeCancel, Taking, At, Types, Goes, Effect
<1>2. /\ InHand \in disk /\ InHand \in Written /\ InHand \in Requests
      /\ past[InHand] \in [done : Nat, cut : Nat, dropped : BOOLEAN]
      /\ Written \subseteq Requests
  BY <1>1, Holding
<1>3. ~Spent BY <1>1 DEF Spent, CountInv
<1>4. /\ past' \in [Requests -> [done : Nat, cut : Nat, dropped : BOOLEAN]]
      /\ past'[InHand] = [past[InHand] EXCEPT !.done = @ + 1]
      /\ \A r \in Requests : r # InHand => past'[r] = past[r]
  <2>1. past' = [past EXCEPT ![InHand].done = @ + 1] BY <1>1
  <2>2. InHand \in Requests /\ past[InHand] \in [done : Nat, cut : Nat, dropped : BOOLEAN]
    BY <1>2
  <2>3. QED BY <2>1, <2>2 DEF Types
<1>5. /\ watcher' \in WatcherStates /\ watcher'.files = watcher.files
      /\ watcher'.box = watcher.box /\ Spent'
      /\ watcher'.at = "unlinking" /\ ~watcher'.landed
  BY <1>1 DEF Spent, WatcherStates
<1>6. Effecting BY <1>1, <1>2, <1>3, <1>4, <1>5 DEF Effecting
<1>7. request[InHand].task \notin disk
  <2>1. PICK t \in Written : /\ t = request[InHand].task /\ t < InHand
                             /\ Kind(t) = "schedule"
                             /\ request[t].folder = request[InHand].folder
    BY <1>1, <1>2 DEF CancelsLater
  <2>2. BoxOf(t) = BoxOf(InHand) BY <2>1, <1>1 DEF BoxOf, Messages, Asking
  <2>3. BoxOf(InHand) = watcher.box /\ \A s \in disk : BoxOf(s) = watcher.box => InHand <= s
    BY <1>1, InHandOldest
  <2>4. t \in Int /\ InHand \in Int BY <1>2, <2>1 DEF Requests
  <2>5. QED BY <2>1, <2>2, <2>3, <2>4
<1>8. TaskInv'
  <2>1. SUFFICES ASSUME NEW r \in Written, Kind(r) = "schedule"
                 PROVE  /\ past'[r].done <= 1
                        /\ r \in disk /\ past'[r].done > 0 => r \in rows'
    BY <1>1 DEF TaskInv, Written, Kind
  <2>2. r # InHand /\ past'[r] = past[r] BY <2>1, <1>1, <1>2, <1>4
  <2>3. QED BY <2>1, <2>2, <1>1, <1>7 DEF TaskInv
<1>9. QED BY <1>6, <1>8, EffectKeeps

(* A file leaves the directory: what it asked for is done, dropped, or the *)
(* file is among the errors.                                               *)
LEMMA LeavingSteps ==
  ASSUME IpcInv, Unlink \/ Rename
  PROVE  IpcInv'
<1> USE DEF IpcInv
<1>1. /\ watcher \in WatcherStates /\ watcher.files # {} /\ ~watcher.landed /\ Spent
      /\ UNCHANGED <<request, rows, past>>
      /\ watcher' = [watcher EXCEPT !.at = "taking", !.files = @ \ {InHand}]
      /\ disk' = disk \ {InHand} /\ errors \subseteq errors'
      /\ Accounted(InHand) \/ InHand \in errors'
  BY DEF Unlink, Rename, At, DoneWith, Types, ListInv, CountInv, GoneInv, Spent
<1>2. /\ watcher' \in WatcherStates /\ watcher'.at = "taking" /\ ~watcher'.landed
      /\ watcher'.files = watcher.files \ {InHand} /\ watcher'.box = watcher.box
  BY <1>1 DEF WatcherStates
<1>3. /\ ~Spent' /\ Written' = Written
      /\ \A r : BoxOf(r)' = BoxOf(r) /\ Kind(r)' = Kind(r)
  BY <1>1, <1>2 DEF Spent, Written, BoxOf, Kind
<1>4. Types' BY <1>1, <1>2, <1>3 DEF Types
<1>5. CancelsLater' BY <1>1, <1>3 DEF CancelsLater, Kind
<1>6. ListInv' BY <1>1, <1>2, <1>3 DEF ListInv
<1>7. CountInv' BY <1>1, <1>2, <1>3 DEF CountInv, Busy
<1>8. TaskInv' BY <1>1, <1>3 DEF TaskInv
<1>9. GoneInv' BY <1>1, <1>2, <1>3 DEF GoneInv, Accounted
<1>10. QED BY <1>4, <1>5, <1>6, <1>7, <1>8, <1>9

(* The watcher lets go of its list, the request in hand among it: that one *)
(* will be met again.                                                      *)
LEMMA LettingGo ==
  ASSUME IpcInv, RenameFails \/ GoDown
  PROVE  IpcInv'
<1> USE DEF IpcInv
<1>1. watcher \in WatcherStates /\ 1 \in 1..Boxes BY IpcAssumption DEF Types, Boxes
<1>2. /\ UNCHANGED <<request, disk, errors, rows>>
      /\ watcher' \in WatcherStates /\ watcher'.files = {} /\ ~watcher'.landed
      /\ watcher'.at \in {"taking", "down"}
  <2>1. CASE RenameFails
    <3>1. ~watcher.landed BY <2>1 DEF RenameFails, At, CountInv
    <3>2. QED BY <2>1, <3>1, <1>1 DEF RenameFails, WatcherStates
  <2>2. CASE GoDown BY <2>2, <1>1 DEF GoDown, WatcherStates
  <2>3. QED BY <2>1, <2>2
<1>3. \/ past' = past /\ ~Spent
      \/ watcher.files # {} /\ past' = [past EXCEPT ![InHand].cut = @ + 1]
  <2>1. CASE RenameFails BY <2>1 DEF RenameFails, At, Cut, ListInv
  <2>2. CASE GoDown BY <2>2 DEF GoDown, Cut, Spent, CountInv, ListInv
  <2>3. QED BY <2>1, <2>2
<1>4. /\ past' \in [Requests -> [done : Nat, cut : Nat, dropped : BOOLEAN]]
      /\ \A r \in Requests : /\ past'[r].done = past[r].done
                             /\ past'[r].dropped = past[r].dropped
                             /\ past'[r].cut >= past[r].cut
                             /\ Busy(r) => past'[r].cut = past[r].cut + 1
  <2>1. CASE past' = past /\ ~Spent
    <3>1. \A r \in Requests : past[r] \in [done : Nat, cut : Nat, dropped : BOOLEAN]
      BY DEF Types
    <3>2. \A r \in Requests : past[r].cut \in Int BY <3>1
    <3>3. QED BY <2>1, <3>2 DEF Busy, Types
  <2>2. CASE watcher.files # {} /\ past' = [past EXCEPT ![InHand].cut = @ + 1]
    <3>1. InHand \in Requests /\ past[InHand] \in [done : Nat, cut : Nat, dropped : BOOLEAN]
      BY <2>2, Holding
    <3>2. /\ past' \in [Requests -> [done : Nat, cut : Nat, dropped : BOOLEAN]]
          /\ past'[InHand] = [past[InHand] EXCEPT !.cut = @ + 1]
          /\ \A r \in Requests : r # InHand => past'[r] = past[r]
      BY <2>2, <3>1 DEF Types
    <3>3. \A r \in Requests : past[r] \in [done : Nat, cut : Nat, dropped : BOOLEAN]
      BY DEF Types
    <3>4. QED BY <3>1, <3>2, <3>3 DEF Busy
  <2>3. QED BY <1>3, <2>1, <2>2
<1>5. /\ ~Spent' /\ Written' = Written /\ Written \subseteq Requests
      /\ \A r : BoxOf(r)' = BoxOf(r) /\ Kind(r)' = Kind(r)
  BY <1>2, IpcAssumption DEF Spent, Written, BoxOf, Kind, Types, Requests
<1>6. Types' BY <1>2, <1>4, <1>5 DEF Types
<1>7. CancelsLater' BY <1>2, <1>5 DEF CancelsLater, Kind
<1>8. ListInv' BY <1>2 DEF ListInv
<1>9. CountInv'
  <2>1. ASSUME NEW r \in Requests
        PROVE  /\ past'[r].done <= 1 + past'[r].cut
               /\ r \in disk' /\ ~Busy(r)' => past'[r].done <= past'[r].cut
               /\ r \notin Written' => past'[r].done = 0
    <3>1. /\ past[r].done \in Nat /\ past[r].cut \in Nat /\ past'[r].cut \in Nat
          /\ past[r].done <= 1 + past[r].cut
          /\ r \in disk /\ ~Busy(r) => past[r].done <= past[r].cut
          /\ r \notin Written => past[r].done = 0
      BY <1>4 DEF Types, CountInv
    <3>2. QED BY <3>1, <1>2, <1>4, <1>5
  <2>2. QED BY <2>1, <1>2 DEF CountInv
<1>10. TaskInv' BY <1>2, <1>4, <1>5 DEF TaskInv
<1>11. GoneInv' BY <1>2, <1>4, <1>5 DEF GoneInv, Accounted
<1>12. QED BY <1>6, <1>7, <1>8, <1>9, <1>10, <1>11
-----------------------------------------------------------------------------
LEMMA Initially == Init => IpcInv
<1> SUFFICES ASSUME Init PROVE IpcInv OBVIOUS
<1>1. /\ request = <<>> /\ Len(request) = 0 /\ Written = {}
      /\ disk = {} /\ rows = {}
      /\ watcher = [at |-> "down", box |-> 1, files |-> {}, landed |-> FALSE, armed |-> FALSE]
      /\ past = [r \in Requests |-> [done |-> 0, cut |-> 0, dropped |-> FALSE]]
  BY DEF Init, Written
<1>2. watcher \in WatcherStates BY <1>1, IpcAssumption DEF WatcherStates, Boxes
<1>3. Types BY <1>1, <1>2, IpcAssumption DEF Types
<1>4. ListInv /\ CountInv BY <1>1 DEF ListInv, CountInv
<1>5. CancelsLater /\ TaskInv /\ GoneInv BY <1>1 DEF CancelsLater, TaskInv, GoneInv
<1>6. QED BY <1>3, <1>4, <1>5 DEF IpcInv

LEMMA Inductive == IpcInv /\ [Next]_vars => IpcInv'
<1> SUFFICES ASSUME IpcInv, [Next]_vars PROVE IpcInv' OBVIOUS
<1>1. ASSUME NEW f \in Folders, NEW k \in Kinds, NEW t \in 0..MaxRequests,
             WriteIpcFile(f, k, t)
      PROVE IpcInv'
  BY <1>1, WriteStep
<1>2. CASE BeginCycle \/ NextBox \/ StartIpcWatcher BY <1>2, RestingSteps
<1>3. CASE List BY <1>3, ListStep
<1>4. CASE TakeAwaited \/ Settle \/ SendFails \/ UnlinkFails BY <1>4, HoldingSteps
<1>5. CASE TakeDropped \/ TakeRestart \/ Land BY <1>5, EffectSteps
<1>6. CASE TakeSchedule BY <1>6, ScheduleStep
<1>7. CASE TakeCancel BY <1>7, CancelStep
<1>8. CASE Unlink \/ Rename BY <1>8, LeavingSteps
<1>9. CASE RenameFails \/ Crash \/ RestartHost
  BY <1>9, LettingGo DEF Crash, RestartHost
<1>10. CASE SweepOrphanResponses BY <1>10, QuietSteps DEF SweepOrphanResponses
<1>11. ASSUME NEW r \in Requests, Poll(r) \/ Age(r) PROVE IpcInv'
  BY <1>11, QuietSteps DEF Poll, ReadResponse, GiveUp, Age
<1>12. CASE UNCHANGED vars BY <1>12, QuietSteps DEF vars
<1>13. QED BY <1>1, <1>2, <1>3, <1>4, <1>5, <1>6, <1>7, <1>8, <1>9, <1>10, <1>11, <1>12
             DEF Next, Watch

(* In every reachable state the request in hand is the oldest of its       *)
(* directory, a request has had no more effects than times it was cut off, *)
(* but for the one in hand, and a task that was created stays until it is  *)
(* cancelled while its request is there (processIpcFiles, processTaskIpc). *)
THEOREM Invariance == Spec => []IpcInv
BY Initially, Inductive, PTL DEF Spec

LEMMA InvOnce == IpcInv => HandledOnce
<1> SUFFICES ASSUME IpcInv, NEW r \in 1..Len(request)
             PROVE  /\ past[r].done <= 1 + past[r].cut
                    /\ Kind(r) = "schedule" => past[r].done <= 1
                    /\ r \notin disk => past[r].done > 0 \/ past[r].dropped \/ r \in errors
  BY DEF HandledOnce
<1>1. r \in Written /\ r \in Requests
  BY IpcAssumption DEF Written, Requests, IpcInv, Types
<1>2. QED BY <1>1 DEF IpcInv, CountInv, TaskInv, GoneInv, Accounted

(* A request is carried out once, and again only after the process went    *)
(* down or the file could not be moved while it was in hand; a task is     *)
(* created once whatever happens, and no file goes without its request     *)
(* carried out, dropped or kept among the errors.                          *)
THEOREM OnceKept == Spec => []HandledOnce
BY Invariance, InvOnce, PTL

LEMMA StepOrder ==
  ASSUME IpcInv, [Next]_vars, NEW r \in 1..Len(request), past'[r].done > past[r].done
  PROVE  ~\E s \in disk : s < r /\ BoxOf(s) = BoxOf(r)
<1>1. r \in Requests /\ past[r] \in [done : Nat, cut : Nat, dropped : BOOLEAN]
  BY IpcAssumption DEF IpcInv, Types, Requests
<1>2. past' # past BY <1>1
<1>3. ~(RenameFails \/ GoDown)
  <2>1. SUFFICES ASSUME RenameFails \/ GoDown PROVE FALSE OBVIOUS
  <2>2. Cut(InHand) BY <2>1, <1>2 DEF RenameFails, GoDown
  <2>3. past' = [past EXCEPT ![InHand].cut = @ + 1] BY <2>2 DEF Cut
  <2>4. past'[r].done = past[r].done BY <2>3, <1>1 DEF IpcInv, Types
  <2>5. QED BY <2>4, <1>1
<1>4. ~TakeDropped
  <2>1. SUFFICES ASSUME TakeDropped PROVE FALSE OBVIOUS
  <2>2. past' = [past EXCEPT ![InHand].dropped = TRUE] BY <2>1 DEF TakeDropped
  <2>3. past'[r].done = past[r].done BY <2>2, <1>1 DEF IpcInv, Types
  <2>4. QED BY <2>3, <1>1
<1>5. watcher.files # {} /\ Effect(InHand)
  <2>1. TakeRestart \/ TakeSchedule \/ TakeCancel \/ Land
    BY <1>2, <1>3, <1>4
       DEF Next, Watch, vars, WriteIpcFile, BeginCycle, List, NextBox, TakeAwaited, Settle,
           Unlink, Rename, StartIpcWatcher, SendFails, UnlinkFails, Crash, RestartHost,
           SweepOrphanResponses, Poll, ReadResponse, GiveUp, Age
  <2>2. QED BY <2>1, <1>2 DEF TakeRestart, TakeSchedule, TakeCancel, Land, Taking, At,
                              IpcInv, ListInv
<1>6. r = InHand
  <2>1. past' = [past EXCEPT ![InHand].done = @ + 1] BY <1>5 DEF Effect
  <2>2. SUFFICES ASSUME r # InHand PROVE FALSE OBVIOUS
  <2>3. past'[r] = past[r] BY <2>1, <2>2, <1>1 DEF IpcInv, Types
  <2>4. QED BY <2>3, <1>1
<1>7. /\ BoxOf(r) = watcher.box /\ disk \subseteq Nat
      /\ \A s \in disk : BoxOf(s) = watcher.box => r <= s
  BY <1>5, <1>6, InHandOldest DEF IpcInv, Types, Written
<1>8. ASSUME NEW s \in disk, s < r, BoxOf(s) = BoxOf(r) PROVE FALSE
  <2>1. r <= s /\ s \in Int /\ r \in Int BY <1>7, <1>8
  <2>2. QED BY <2>1, <1>8
<1>9. QED BY <1>8

(* Requests take effect in the order in which they were written: when one  *)
(* does, no earlier one of its directory is still there.                   *)
THEOREM OrderKept == Spec => InOrder
<1>1. IpcInv /\ [Next]_vars =>
        [\A r \in 1..Len(request) : past'[r].done > past[r].done =>
           ~\E s \in disk : s < r /\ BoxOf(s) = BoxOf(r)]_vars
  BY StepOrder
<1>2. QED BY <1>1, Invariance, PTL DEF Spec, InOrder

=============================================================================
