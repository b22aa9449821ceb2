--------------------------- MODULE ChatTurnsProof ---------------------------
(***************************************************************************)
(* Proofs about ChatTurns: its type invariant; no message below the cursor *)
(* is swallowed (NothingSkipped); what was prompted is kept (PromptsKept); *)
(* and, in the second half of the module, about TurnOutput: a final stands *)
(* in the chat once (FinalOnce), is not edited away (NeverOverwritten),    *)
(* and a follow-up is answered or kept (FollowUpKept).                     *)
(* The invariants of the second half are in TurnOutputInv.                 *)
(*                                                                         *)
(* The cursor is moved by the loop and by runs, and put back by runs that  *)
(* fail and by the exit listener, each to a place it remembers.  For each  *)
(* of those places - a run's previous cursor, the cursor before the first  *)
(* unacknowledged pipe, the end of the batch held by the loop - the        *)
(* invariant says that all below it is accounted for, and that whatever    *)
(* lies between two of them needs nobody or will be rolled back.           *)
(***************************************************************************)
EXTENDS TurnOutputInv, TLAPS, WellFoundedInduction

(* Message m needs nobody any more: it is answered, a command, or before   *)
(* one.                                                                    *)
Past(c, m) ==
  m \in c.answered \cup c.commands \/ \E k \in c.commands : k > m

Given(c, m) == m \in c.handed \/ Past(c, m)

Busy(c, r) == c.run[r].phase \in {"prompted", "query"}

(* A run has m in its prompt and will roll the cursor back before it.      *)
Returns(c, r, m) ==
  /\ Busy(c, r) /\ ~c.run[r].sent /\ m > c.run[r].previous
  /\ c.run[r].life \in {"none", "live"} => m \in c.run[r].query

(* At most one run at a time, of the agent the slot refers to.             *)
Alone(c) ==
  \A r \in Ongoing(c) :
    /\ \A q \in Ongoing(c) : q = r
    /\ c.process # NoRun => c.process = r

Slot(c) ==
  /\ ~c.active => c.process = NoRun
  /\ c.idle /\ c.process # NoRun => c.run[c.process].life = "live"
  /\ \A r \in Runs : ~c.run[r].direct
  /\ \A r \in Runs : c.run[r].phase \in {"fetched", "prompted"} =>
       /\ c.active /\ c.process = NoRun /\ c.inFlight = 0
       /\ ~c.run[r].sent /\ c.run[r].life = "none"
  /\ \A r \in Runs : Busy(c, r) /\ c.run[r].life \in {"none", "live"} =>
       c.run[r].query # {}

Below(c) == \A m \in 1..c.cursor : Given(c, m)

(* The cursor may be put to where it was before a run's prompt, up or      *)
(* down, ...                                                               *)
BelowPrevious(c) ==
  \A r \in Runs : Busy(c, r) =>
    /\ \A m \in 1..c.run[r].previous : Given(c, m)
    /\ \A m \in 1..c.run[r].previous : m > c.cursor => Past(c, m)

(* ... to where it was before the last pipe, and then to the former, ...   *)
BelowInFlight(c) ==
  \A r \in Runs : c.inFlight # 0 /\ c.run[r].life = "live" =>
    /\ \A m \in 1..c.inFlight : Given(c, m)
    /\ Busy(c, r) =>
         \A m \in 1..c.run[r].previous : m > c.inFlight => Past(c, m)
    /\ \A m \in 1..c.inFlight : m > c.cursor => Past(c, m)
    /\ c.cursor <= c.seen
    /\ c.held # {} => c.before = c.cursor

(* ... and to the end of what the loop holds.                              *)
HeldBatch(c) ==
  c.held # {} =>
    /\ \A m \in 1..Max(c.held) : m > c.before => m \in c.held
    /\ \A m \in 1..c.before : m > Max(c.held) => Past(c, m)

HeldSafe(c) ==
  c.held # {} =>
    /\ c.process # NoRun \/ (\E r \in Runs : c.run[r].phase = "prompted") =>
         \A m \in 1..c.before : Given(c, m)
    /\ \A r \in Runs : c.run[r].phase = "fetched" =>
         \A m \in 1..c.before : m <= c.cursor \/ m \in c.run[r].batch \/ Past(c, m)
    /\ \A r \in Runs : Busy(c, r) =>
         \A m \in 1..c.run[r].previous : m > c.before => Past(c, m)
    /\ \A m \in 1..c.cursor : m > c.before =>
         Past(c, m) \/ \E r \in Runs : Returns(c, r, m)

(* A batch that was fetched is all that is beyond the cursor.              *)
Fetched(c) ==
  \A r \in Runs : c.run[r].phase = "fetched" =>
    \A b \in c.run[r].batch :
      /\ \A m \in 1..b : m <= c.cursor \/ m \in c.run[r].batch \/ Past(c, m)
      /\ b <= c.cursor => c.cursor \in c.commands

(* ... and what it has not seen may be polled again.                       *)
SeenSafe(c) ==
  /\ \A m \in 1..c.cursor : m > c.seen => Past(c, m) \/ \E r \in Runs : Returns(c, r, m)
  /\ \A r \in Runs : Busy(c, r) =>
       \A m \in 1..c.run[r].previous : m > c.seen => Past(c, m)

Prompts(c) ==
  \A m \in c.prompted :
    \/ m \in c.answered
    \/ \E k \in c.commands : k > m
    \/ \E r \in Runs : Returns(c, r, m)

Stored(c) ==
  /\ c.cursor <= c.stored /\ c.before <= c.stored /\ c.inFlight <= c.stored
  /\ c.seen <= c.stored
  /\ \A m \in c.held : m <= c.seen
  /\ \A m \in c.prompted : m <= c.stored
  /\ \A r \in Runs : /\ c.run[r].previous <= c.stored
                     /\ \A m \in c.run[r].batch : m <= c.stored

Inv(c) ==
  /\ ~c.world.overlap /\ c.restarts = 0 /\ Stored(c)
  /\ Alone(c) /\ Slot(c) /\ Below(c) /\ BelowPrevious(c) /\ BelowInFlight(c)
  /\ HeldBatch(c) /\ HeldSafe(c) /\ Fetched(c) /\ SeenSafe(c) /\ Prompts(c)

-----------------------------------------------------------------------------
(* States c and d differ in the fields S only.                             *)
Frame(c, d, S) == \A f \in (DOMAIN c) \ S : d[f] = c[f]

(* What the invariant is about: no step but the daemon's restart changes.  *)
Same(c, d) == d.world = c.world /\ d.restarts = c.restarts

(* A step that touches marks and counters only.                            *)
LEMMA QuietKeeps ==
  ASSUME NEW c \in ChatStates, NEW d \in ChatStates, Inv(c),
         Frame(c, d, {"pending", "piped", "hasOutput", "retries", "timers",
                      "deaths", "runless", "active", "idle", "inFlight"}),
         d.idle => c.idle, c.active => d.active, d.inFlight \in {0, c.inFlight}
  PROVE  Inv(d)
<1>1. /\ d.world = c.world /\ d.stored = c.stored /\ d.commands = c.commands
      /\ d.cursor = c.cursor /\ d.held = c.held /\ d.before = c.before
      /\ d.process = c.process /\ d.run = c.run /\ d.restarts = c.restarts
      /\ d.handed = c.handed /\ d.prompted = c.prompted /\ d.seen = c.seen
      /\ d.answered = c.answered
  BY DEF Frame, ChatStates
<1>2. Alone(d) /\ Stored(d)
  <2>1. 0 <= c.stored
    BY ChatAssumption DEF ChatStates, Cursors
  <2> QED
    BY <1>1, <2>1 DEF Inv, Alone, Ongoing, Stored
<1>3. Slot(d)
  BY <1>1 DEF Inv, Slot, Busy
<1>4. Below(d) /\ BelowPrevious(d) /\ BelowInFlight(d)
  BY <1>1 DEF Inv, Below, BelowPrevious, BelowInFlight, Given, Past, Busy
<1>5. HeldBatch(d) /\ HeldSafe(d)
  BY <1>1 DEF Inv, HeldBatch, HeldSafe, Given, Past, Busy, Returns
<1>6. Fetched(d) /\ SeenSafe(d) /\ Prompts(d)
  BY <1>1 DEF Inv, Fetched, SeenSafe, Prompts, Past, Busy, Returns
<1> QED
  BY <1>1, <1>2, <1>3, <1>4, <1>5, <1>6 DEF Inv

(* An unused run has the type of a run.                                    *)
LEMMA UnusedRun == Unused \in RunStates
BY ChatAssumption DEF Unused, RunStates, Cursors

(* Fetching a batch.  With one agent at a time nothing is ongoing then.    *)
LEMMA FetchKeeps ==
  ASSUME NEW c \in ChatStates, NEW isDirect \in BOOLEAN, NEW d, d = Fetch(c, isDirect)
  PROVE  /\ d \in ChatStates /\ Same(c, d)
         /\ Inv(c) /\ (\/ Ongoing(c) # {}
                       \/ ~isDirect /\ c.active /\ c.process = NoRun /\ c.inFlight = 0)
              => Inv(d)
<1>1. CASE Unspawned(c) = {} \/ (Ongoing(c) # {} /\ ~c.world.overlap)
  <2>1. d = [c EXCEPT !.runless = TRUE]
    BY <1>1 DEF Fetch
  <2>2. d \in ChatStates
    BY <2>1, ZenonT(40) DEF ChatStates
  <2>3. Frame(c, d, {"runless"})
    BY <2>1 DEF Frame, ChatStates
  <2>4. /\ Frame(c, d, {"pending", "piped", "hasOutput", "retries", "timers",
                        "deaths", "runless", "active", "idle", "inFlight"})
        /\ d.idle = c.idle /\ d.active = c.active /\ Same(c, d)
        /\ d.inFlight = c.inFlight
    BY <2>3 DEF Frame, ChatStates, Same
  <2> QED
    BY <2>2, <2>4, QuietKeeps
<1>2. CASE ~(Unspawned(c) = {} \/ (Ongoing(c) # {} /\ ~c.world.overlap))
  <2> DEFINE r == CHOOSE r \in Unspawned(c) : TRUE
             batch == Since(c, c.cursor)
             x == [Unused EXCEPT !.phase = "fetched", !.direct = isDirect, !.batch = batch]
  <2>1. r \in Runs /\ c.run[r] = Unused
    BY <1>2 DEF Unspawned
  <2>2. d = [c EXCEPT !.run[r] = x]
    BY <1>2 DEF Fetch
  <2>3. /\ batch \in SUBSET Messages
        /\ \A m \in batch : m > c.cursor /\ m \in Nat /\ m <= c.stored
        /\ \A m \in Nat : m > c.cursor /\ m <= c.stored => m \in batch
    BY ChatAssumption DEF Since, ChatStates, Cursors, Messages
  <2> HIDE DEF r, batch
  <2>4. /\ x \in RunStates /\ x.phase = "fetched" /\ x.direct = isDirect
        /\ x.batch = batch /\ ~x.sent /\ x.life = "none" /\ x.previous = 0
    BY <2>3, UnusedRun DEF Unused, RunStates
  <2> HIDE DEF x
  <2>5. /\ d \in ChatStates /\ Frame(c, d, {"run"})
        /\ d.run = [c.run EXCEPT ![r] = x]
    <3>1. c.run \in [Runs -> RunStates]
      BY DEF ChatStates
    <3>2. [c.run EXCEPT ![r] = x] \in [Runs -> RunStates]
      BY <2>4, <3>1
    <3>3. d = [c EXCEPT !.run = [c.run EXCEPT ![r] = x]]
      BY <2>2
    <3> QED
      BY <3>2, <3>3, SMTT(40) DEF ChatStates, Frame
  <2>51. Same(c, d)
    BY <2>5 DEF Frame, ChatStates, Same
  <2>6. ASSUME Inv(c), ~isDirect, c.active, c.process = NoRun, c.inFlight = 0
        PROVE  Inv(d)
    <3>1. /\ d.world = c.world /\ d.stored = c.stored /\ d.commands = c.commands
          /\ d.cursor = c.cursor /\ d.held = c.held /\ d.before = c.before
          /\ d.process = c.process /\ d.restarts = c.restarts /\ d.seen = c.seen
          /\ d.handed = c.handed /\ d.prompted = c.prompted
          /\ d.answered = c.answered
          /\ d.active = c.active /\ d.idle = c.idle /\ d.inFlight = c.inFlight
      BY <2>5 DEF Frame, ChatStates
    <3>2. Ongoing(c) = {}
      BY <1>2, <2>6 DEF Inv
    <3>3. /\ d.run[r] = x
          /\ \A q \in Runs \ {r} : d.run[q] = c.run[q]
          /\ c.run[r].phase = "free"
      <4>1. c.run \in [Runs -> RunStates]
        BY DEF ChatStates
      <4> QED
        BY <2>1, <2>5, <4>1 DEF Unused
    <3>4. Alone(d) /\ Slot(d)
      BY <2>1, <2>4, <2>6, <3>1, <3>2, <3>3 DEF Inv, Alone, Slot, Ongoing, Busy
    <3>5. Below(d) /\ BelowPrevious(d) /\ BelowInFlight(d)
      BY <2>4, <2>6, <3>1, <3>3 DEF Inv, Below, BelowPrevious, BelowInFlight, Given, Past, Busy
    <3>6. HeldBatch(d)
      BY <2>6, <3>1 DEF Inv, HeldBatch, Past
    <3>7. \A q \in Runs : ~Busy(c, q) /\ c.run[q].phase # "fetched"
      BY <3>2 DEF Ongoing, Busy
    <3>8. \A q \in Runs : ~Busy(d, q) /\ (d.run[q].phase = "fetched" => q = r)
      BY <2>4, <3>3, <3>7 DEF Busy
    <3>9. \A m \in Nat : (Past(d, m) <=> Past(c, m)) /\ (Given(d, m) <=> Given(c, m))
      BY <3>1 DEF Past, Given
    <3>10. /\ c.before <= c.stored /\ c.cursor \in Nat /\ c.before \in Nat
           /\ c.stored \in Nat /\ c.cursor <= c.stored
      BY <2>6, ChatAssumption DEF Inv, Stored, ChatStates, Cursors
    <3>11. HeldSafe(d)
      <4>1. /\ \A q \in Runs : d.run[q].phase # "prompted"
            /\ d.process = NoRun
        BY <2>6, <3>1, <3>8 DEF Busy
      <4>2. \A m \in 1..d.before : m <= d.cursor \/ m \in d.run[r].batch
        BY <2>3, <2>4, <3>1, <3>3, <3>10
      <4>3. d.held # {} => \A m \in 1..d.cursor : m > d.before => Past(d, m)
        BY <2>6, <3>1, <3>7, <3>9, <3>10 DEF Inv, HeldSafe, Returns
      <4> QED
        BY <3>8, <4>1, <4>2, <4>3 DEF HeldSafe
    <3>12. Fetched(d)
      <4>1. \A b \in d.run[r].batch : b > d.cursor /\ b <= c.stored /\ b \in Nat
        BY <2>3, <2>4, <3>1, <3>3
      <4>2. \A b \in d.run[r].batch : \A m \in 1..b : m <= d.cursor \/ m \in d.run[r].batch
        BY <2>3, <2>4, <3>1, <3>3, <3>10, <4>1
      <4>3. \A b \in d.run[r].batch : ~(b <= d.cursor)
        BY <3>1, <3>10, <4>1
      <4> QED
        BY <3>8, <4>2, <4>3 DEF Fetched
    <3>13. Prompts(d) /\ SeenSafe(d)
      BY <2>6, <3>1, <3>7, <3>8, <3>9, <3>10 DEF Inv, Prompts, SeenSafe, Returns
    <3>14. Stored(d)
      BY <2>1, <2>3, <2>4, <2>6, <3>1, <3>3, <3>10 DEF Inv, Stored
    <3> QED
      BY <2>6, <3>1, <3>4, <3>5, <3>6, <3>11, <3>12, <3>13, <3>14 DEF Inv
  <2> QED
    BY <1>2, <2>5, <2>51, <2>6 DEF Inv
<1> QED
  BY <1>1, <1>2

(* runForGroup.                                                            *)
LEMMA StartKeeps ==
  ASSUME NEW c \in ChatStates, NEW d, d = StartRun(c)
  PROVE  /\ d \in ChatStates /\ Same(c, d)
         /\ Inv(c) /\ c.process = NoRun => Inv(d)
<1> DEFINE e == [c EXCEPT !.active = TRUE, !.idle = FALSE, !.pending = FALSE,
                          !.piped = FALSE, !.hasOutput = FALSE, !.inFlight = 0]
<1>1. d = Fetch(e, FALSE)
  BY DEF StartRun
<1>2. e \in ChatStates
  <2>1. 0 \in Cursors
    BY ChatAssumption DEF Cursors
  <2> QED
    BY <2>1 DEF ChatStates
<1>3. /\ Frame(c, e, {"active", "idle", "pending", "piped", "hasOutput", "inFlight"})
      /\ e.active /\ ~e.idle /\ e.inFlight = 0
  BY DEF Frame, ChatStates
<1> HIDE DEF e
<1>4. /\ Frame(c, e, {"pending", "piped", "hasOutput", "retries", "timers",
                      "deaths", "runless", "active", "idle", "inFlight"})
      /\ e.process = c.process /\ Same(c, e)
  BY <1>3 DEF Frame, ChatStates, Same
<1>5. Inv(c) => Inv(e)
  BY <1>2, <1>3, <1>4, QuietKeeps
<1>6. /\ d \in ChatStates /\ Same(e, d)
      /\ Inv(e) /\ (\/ Ongoing(e) # {}
                    \/ ~FALSE /\ e.active /\ e.process = NoRun /\ e.inFlight = 0) => Inv(d)
  BY <1>1, <1>2, FetchKeeps
<1>7. Same(c, d)
  BY <1>4, <1>6 DEF Same
<1> QED
  BY <1>3, <1>4, <1>5, <1>6, <1>7

(* enqueueMessageCheck.                                                    *)
LEMMA EnqueueKeeps ==
  ASSUME NEW c \in ChatStates, NEW d, d = EnqueueMessageCheck(c)
  PROVE  d \in ChatStates /\ Same(c, d) /\ (Inv(c) => Inv(d))
<1>1. CASE c.active
  <2>1. d = [c EXCEPT !.pending = TRUE]
    BY <1>1 DEF EnqueueMessageCheck
  <2>2. d \in ChatStates
    BY <2>1, ZenonT(40) DEF ChatStates
  <2>3. Frame(c, d, {"pending"})
    BY <2>1 DEF Frame, ChatStates
  <2>4. /\ Frame(c, d, {"pending", "piped", "hasOutput", "retries", "timers",
                        "deaths", "runless", "active", "idle", "inFlight"})
        /\ d.idle = c.idle /\ d.active /\ d.inFlight = c.inFlight /\ Same(c, d)
    BY <1>1, <2>3 DEF Frame, ChatStates, Same
  <2> QED
    BY <2>2, <2>4, QuietKeeps
<1>2. CASE ~c.active
  <2>1. d = StartRun(c)
    BY <1>2 DEF EnqueueMessageCheck
  <2>2. Inv(c) => c.process = NoRun
    BY <1>2 DEF Inv, Slot
  <2> QED
    BY <2>1, <2>2, StartKeeps
<1> QED
  BY <1>1, <1>2

(* drainGroup: the slot is free, or kept by an idle agent that lives.      *)
LEMMA DrainKeeps ==
  ASSUME NEW c \in ChatStates, NEW d, d = DrainGroup(c)
  PROVE  /\ d \in ChatStates /\ Same(c, d)
         /\ Inv(c) /\ (c.active => c.idle /\ c.process # NoRun) => Inv(d)
<1>1. CASE ~c.pending
  BY <1>1 DEF DrainGroup, Same
<1>2. CASE c.pending /\ c.active /\ c.idle /\ c.process # NoRun
  <2> DEFINE e == [c EXCEPT !.pending = FALSE]
  <2>1. d = Fetch(e, TRUE)
    BY <1>2 DEF DrainGroup
  <2>2. e \in ChatStates
    BY DEF ChatStates
  <2>3. Frame(c, e, {"pending"})
    BY DEF Frame, ChatStates
  <2> HIDE DEF e
  <2>4. /\ Frame(c, e, {"pending", "piped", "hasOutput", "retries", "timers",
                        "deaths", "runless", "active", "idle", "inFlight"})
        /\ e.idle = c.idle /\ e.active /\ e.inFlight = c.inFlight
        /\ e.run = c.run /\ Same(c, e)
    BY <1>2, <2>3 DEF Frame, ChatStates, Same
  <2>5. Inv(c) => Inv(e)
    BY <2>2, <2>4, QuietKeeps
  <2>6. Inv(c) => Ongoing(e) # {}
    <3>1. c.process \in Runs
      BY <1>2 DEF ChatStates
    <3>2. Inv(c) => c.process \in Ongoing(e)
      BY <1>2, <2>4, <3>1 DEF Inv, Slot, Ongoing
    <3> QED
      BY <3>2
  <2>7. /\ d \in ChatStates /\ Same(e, d)
        /\ Inv(e) /\ (\/ Ongoing(e) # {}
                      \/ ~TRUE /\ e.active /\ e.process = NoRun /\ e.inFlight = 0) => Inv(d)
    BY <2>1, <2>2, FetchKeeps
  <2>9. Same(c, d)
    BY <2>4, <2>7 DEF Same
  <2>8. Inv(e) /\ Ongoing(e) # {} => Inv(d)
    BY <2>7
  <2> QED
    BY <2>5, <2>6, <2>7, <2>8, <2>9
<1>3. CASE c.pending /\ ~(c.active /\ c.idle /\ c.process # NoRun)
  <2>1. d = StartRun(c)
    BY <1>3 DEF DrainGroup
  <2>2. Inv(c) /\ (c.active => c.idle /\ c.process # NoRun) => c.process = NoRun
    BY <1>3 DEF Inv, Slot
  <2> QED
    BY <2>1, <2>2, StartKeeps
<1> QED
  BY <1>1, <1>2, <1>3

Unstarted(c) == \A r \in Runs : c.run[r].phase \notin {"fetched", "prompted"}

(* The slot is given up.                                                   *)
LEMMA FreedKeeps ==
  ASSUME NEW c \in ChatStates, NEW d \in ChatStates, Inv(c), Unstarted(c),
         Frame(c, d, {"active", "process", "inFlight", "idle", "inbox", "pending"}),
         ~d.active, d.process = NoRun, d.inFlight \in {0, c.inFlight}
  PROVE  Inv(d)
<1>1. /\ d.world = c.world /\ d.stored = c.stored /\ d.commands = c.commands
      /\ d.cursor = c.cursor /\ d.held = c.held /\ d.before = c.before
      /\ d.run = c.run /\ d.restarts = c.restarts /\ d.seen = c.seen
      /\ d.handed = c.handed /\ d.prompted = c.prompted
      /\ d.answered = c.answered
  BY DEF Frame, ChatStates
<1>2. Alone(d) /\ Stored(d)
  <2>1. 0 <= c.stored
    BY ChatAssumption DEF ChatStates, Cursors
  <2> QED
    BY <1>1, <2>1 DEF Inv, Alone, Ongoing, Stored
<1>3. Slot(d)
  BY <1>1 DEF Inv, Slot, Busy, Unstarted
<1>4. Below(d) /\ BelowPrevious(d) /\ BelowInFlight(d)
  BY <1>1 DEF Inv, Below, BelowPrevious, BelowInFlight, Given, Past, Busy
<1>5. HeldBatch(d)
  BY <1>1 DEF Inv, HeldBatch, Past
<1>6. HeldSafe(d)
  BY <1>1 DEF Inv, HeldSafe, Given, Past, Busy, Returns
<1>7. Fetched(d) /\ SeenSafe(d) /\ Prompts(d)
  BY <1>1 DEF Inv, Fetched, SeenSafe, Prompts, Past, Busy, Returns
<1> QED
  BY <1>1, <1>2, <1>3, <1>4, <1>5, <1>6, <1>7 DEF Inv

(* scheduleRetry, or its reset.                                            *)
LEMMA RetryKeeps ==
  ASSUME NEW c \in ChatStates, NEW ok \in BOOLEAN, NEW d, d = CountRetry(c, ok)
  PROVE  /\ d \in ChatStates /\ Frame(c, d, {"retries", "timers"})
<1>1. CASE ok \/ c.retries >= MaxRetries
  <2>1. d = [c EXCEPT !.retries = 0]
    BY <1>1 DEF CountRetry
  <2>2. 0 \in 0..MaxRetries
    BY ChatAssumption
  <2> QED
    BY <2>1, <2>2 DEF ChatStates, Frame
<1>2. CASE ~(ok \/ c.retries >= MaxRetries)
  <2> DEFINE n == c.retries + 1
             t == c.timers + 1
  <2>1. d = [c EXCEPT !.retries = n, !.timers = t]
    BY <1>2 DEF CountRetry
  <2>2. n \in 0..MaxRetries /\ t \in Nat
    BY <1>2, ChatAssumption DEF ChatStates
  <2> HIDE DEF n, t
  <2> QED
    BY <2>1, <2>2, ZenonT(40) DEF ChatStates, Frame
<1> QED
  BY <1>1, <1>2

(* Forgetting the runs that are over.                                      *)
LEMMA TidyKeeps ==
  ASSUME NEW c \in ChatStates, NEW d, d = Tidy(c)
  PROVE  /\ d \in ChatStates /\ d.runless = c.runless /\ Same(c, d)
         /\ Inv(c) => Inv(d)
<1> DEFINE run == [r \in Runs |-> IF /\ c.run[r].phase = "serving"
                                     /\ c.run[r].life # "live"
                                     /\ c.process # r
                                  THEN Unused ELSE c.run[r]]
<1>1. d = [c EXCEPT !.run = run]
  BY DEF Tidy
<1>2. run \in [Runs -> RunStates]
  BY UnusedRun DEF ChatStates
<1>3. \A r \in Runs :
        \/ run[r] = c.run[r]
        \/ run[r] = Unused /\ c.run[r].phase = "serving" /\ c.run[r].life # "live" /\ c.process # r
  OBVIOUS
<1> HIDE DEF run
<1>4. d \in ChatStates /\ Frame(c, d, {"run"}) /\ d.run = run
  BY <1>1, <1>2 DEF ChatStates, Frame
<1>5. /\ d.world = c.world /\ d.stored = c.stored /\ d.commands = c.commands
      /\ d.cursor = c.cursor /\ d.held = c.held /\ d.before = c.before
      /\ d.process = c.process /\ d.restarts = c.restarts /\ d.seen = c.seen
      /\ d.handed = c.handed /\ d.prompted = c.prompted
      /\ d.answered = c.answered /\ d.runless = c.runless
      /\ d.active = c.active /\ d.idle = c.idle /\ d.inFlight = c.inFlight
  BY <1>4 DEF Frame, ChatStates
<1>6. \A r \in Runs :
        \/ d.run[r] = c.run[r]
        \/ /\ d.run[r].phase = "free" /\ d.run[r].life = "none" /\ ~d.run[r].direct
           /\ d.run[r].previous = 0 /\ d.run[r].batch = {}
           /\ c.run[r].phase = "serving" /\ c.run[r].life # "live" /\ c.process # r
  BY <1>3, <1>4 DEF Unused
<1>7. ASSUME Inv(c) PROVE Inv(d)
  <2>1. 0 <= c.stored
    BY ChatAssumption DEF ChatStates, Cursors
  <2>2. Ongoing(d) = Ongoing(c)
    BY <1>6 DEF Ongoing
  <2>3. Alone(d) /\ Stored(d)
    BY <1>5, <1>6, <1>7, <2>1, <2>2 DEF Inv, Alone, Stored
  <2>4. Slot(d)
    <3>1. c.process \in Runs \cup {NoRun}
      BY DEF ChatStates
    <3> QED
      BY <1>5, <1>6, <1>7, <3>1 DEF Inv, Slot, Busy
  <2>5. /\ \A r \in Runs : Busy(d, r) <=> Busy(c, r)
        /\ \A r \in Runs : d.run[r].phase \in {"fetched", "prompted", "query"} => d.run[r] = c.run[r]
        /\ \A r \in Runs : c.run[r].phase \in {"fetched", "prompted", "query"} => d.run[r] = c.run[r]
        /\ \A r \in Runs : d.run[r].life = "live" => d.run[r] = c.run[r]
    BY <1>6 DEF Busy
  <2>6. \A m : (Past(d, m) <=> Past(c, m)) /\ (Given(d, m) <=> Given(c, m))
    BY <1>5 DEF Past, Given
  <2>7. \A m : \A r \in Runs : Returns(d, r, m) <=> Returns(c, r, m)
    BY <2>5 DEF Returns, Busy
  <2>8. Below(d) /\ BelowPrevious(d) /\ BelowInFlight(d)
    <3>1. Below(d)
      BY <1>5, <1>7, <2>6 DEF Inv, Below
    <3>2. ASSUME NEW r \in Runs, Busy(d, r)
          PROVE  /\ \A m \in 1..d.run[r].previous : Given(d, m)
                 /\ \A m \in 1..d.run[r].previous : m > d.cursor => Past(d, m)
      <4>1. d.run[r] = c.run[r] /\ Busy(c, r)
        BY <2>5, <3>2 DEF Busy
      <4> QED
        BY <1>5, <1>7, <2>6, <4>1 DEF Inv, BelowPrevious
    <3>3. ASSUME NEW r \in Runs, d.inFlight # 0, d.run[r].life = "live"
          PROVE  /\ \A m \in 1..d.inFlight : Given(d, m)
                 /\ Busy(d, r) =>
                      \A m \in 1..d.run[r].previous : m > d.inFlight => Past(d, m)
                 /\ \A m \in 1..d.inFlight : m > d.cursor => Past(d, m)
                 /\ d.cursor <= d.seen
                 /\ d.held # {} => d.before = d.cursor
      <4>1. d.run[r] = c.run[r] /\ c.inFlight # 0 /\ c.run[r].life = "live"
            /\ (Busy(d, r) <=> Busy(c, r))
        BY <1>5, <2>5, <3>3
      <4> QED
        BY <1>5, <1>7, <2>6, <4>1 DEF Inv, BelowInFlight
    <3> QED
      BY <3>1, <3>2, <3>3 DEF BelowPrevious, BelowInFlight
  <2>9. HeldBatch(d)
    BY <1>5, <1>7, <2>6 DEF Inv, HeldBatch
  <2>10. HeldSafe(d)
    <3> SUFFICES ASSUME d.held # {} PROVE HeldSafe(d)
      BY DEF HeldSafe
    <3>1. HeldSafe(c) /\ c.held # {}
      BY <1>5, <1>7 DEF Inv
    <3>2. d.process # NoRun \/ (\E r \in Runs : d.run[r].phase = "prompted") =>
            \A m \in 1..d.before : Given(d, m)
      BY <1>5, <2>5, <2>6, <3>1 DEF HeldSafe
    <3>3. ASSUME NEW r \in Runs, d.run[r].phase = "fetched", NEW m \in 1..d.before
          PROVE  m <= d.cursor \/ m \in d.run[r].batch \/ Past(d, m)
      BY <1>5, <2>5, <2>6, <3>1, <3>3 DEF HeldSafe
    <3>4. ASSUME NEW r \in Runs, Busy(d, r), NEW m \in 1..d.run[r].previous, m > d.before
          PROVE  Past(d, m)
      <4>1. d.run[r] = c.run[r] /\ Busy(c, r)
        BY <2>5, <3>4 DEF Busy
      <4> QED
        BY <1>5, <2>6, <3>1, <3>4, <4>1 DEF HeldSafe
    <3>5. ASSUME NEW m \in 1..d.cursor, m > d.before
          PROVE  Past(d, m) \/ \E r \in Runs : Returns(d, r, m)
      BY <1>5, <2>6, <2>7, <3>1, <3>5 DEF HeldSafe
    <3> QED
      BY <3>2, <3>3, <3>4, <3>5 DEF HeldSafe
  <2>11. Fetched(d) /\ Prompts(d)
    BY <1>5, <1>7, <2>5, <2>6, <2>7 DEF Inv, Fetched, Prompts
  <2>12. SeenSafe(d)
    <3>1. ASSUME NEW r \in Runs, Busy(d, r), NEW m \in 1..d.run[r].previous, m > d.seen
          PROVE  Past(d, m)
      <4>1. d.run[r] = c.run[r] /\ Busy(c, r)
        BY <2>5, <3>1 DEF Busy
      <4> QED
        BY <1>5, <1>7, <2>6, <3>1, <4>1 DEF Inv, SeenSafe
    <3> QED
      BY <1>5, <1>7, <2>6, <2>7, <3>1 DEF Inv, SeenSafe
  <2> QED
    BY <1>5, <1>7, <2>3, <2>4, <2>8, <2>9, <2>10, <2>11, <2>12 DEF Inv
<1> QED
  BY <1>4, <1>5, <1>7 DEF Same

(* Nothing waits for run r to roll back.                                   *)
Unneeded(c, r) == \A m \in 1..c.cursor \cup c.prompted : ~Returns(c, r, m)

(* Run r is settled.                                                       *)
Settled(c, r) ==
  [c EXCEPT !.run[r] = [@ EXCEPT !.phase = "serving", !.batch = {}, !.previous = 0,
                                 !.sent = FALSE, !.direct = FALSE]]

LEMMA SettledKeeps ==
  ASSUME NEW c \in ChatStates, NEW r \in Runs, NEW d, d = Settled(c, r)
  PROVE  /\ d \in ChatStates
         /\ Frame(c, d, {"run"})
         /\ \A q \in Runs : d.run[q].life = c.run[q].life
         /\ Inv(c) /\ Unneeded(c, r) => Inv(d)
         /\ Inv(c) /\ r \in Ongoing(c) => Unstarted(d)
<1> DEFINE x == [c.run[r] EXCEPT !.phase = "serving", !.batch = {}, !.previous = 0,
                                 !.sent = FALSE, !.direct = FALSE]
           run == [c.run EXCEPT ![r] = x]
<1>1. c.run \in [Runs -> RunStates] /\ c.run[r] \in RunStates
  BY DEF ChatStates
<1>2. /\ x \in RunStates /\ x.phase = "serving" /\ x.batch = {} /\ x.previous = 0
      /\ ~x.sent /\ ~x.direct /\ x.life = c.run[r].life
      /\ x.query = c.run[r].query
  <2>1. 0 \in Cursors
    BY ChatAssumption DEF Cursors
  <2> QED
    BY <1>1, <2>1 DEF RunStates
<1>3. d = [c EXCEPT !.run = run]
  BY DEF Settled
<1> HIDE DEF x
<1>4. run \in [Runs -> RunStates] /\ run[r] = x /\ \A q \in Runs \ {r} : run[q] = c.run[q]
  BY <1>1, <1>2
<1> HIDE DEF run
<1>5. d \in ChatStates /\ Frame(c, d, {"run"}) /\ d.run = run
  BY <1>3, <1>4 DEF ChatStates, Frame
<1>9. Frame(c, d, {"run"})
  BY <1>5
<1>6. /\ d.world = c.world /\ d.stored = c.stored /\ d.commands = c.commands
      /\ d.cursor = c.cursor /\ d.held = c.held /\ d.before = c.before
      /\ d.process = c.process /\ d.restarts = c.restarts /\ d.seen = c.seen
      /\ d.handed = c.handed /\ d.prompted = c.prompted
      /\ d.answered = c.answered
      /\ d.active = c.active /\ d.idle = c.idle /\ d.inFlight = c.inFlight
  BY <1>9 DEF Frame, ChatStates
<1>7. \A q \in Runs : d.run[q].life = c.run[q].life
  BY <1>2, <1>4, <1>5
<1>8. ASSUME Inv(c), Unneeded(c, r) PROVE Inv(d)
  <2>1. 0 <= c.stored
    BY ChatAssumption DEF ChatStates, Cursors
  <2>2. Ongoing(d) \subseteq Ongoing(c)
    BY <1>2, <1>4, <1>5 DEF Ongoing
  <2>3. Alone(d)
    BY <1>6, <1>8, <2>2 DEF Inv, Alone
  <2>4. Stored(d)
    BY <1>2, <1>4, <1>5, <1>6, <1>8, <2>1 DEF Inv, Stored
  <2>5. \A q \in Runs :
          \/ d.run[q] = c.run[q] /\ q # r
          \/ d.run[q].phase = "serving" /\ ~d.run[q].direct /\ d.run[q].batch = {} /\ q = r
    BY <1>2, <1>4, <1>5
  <2>6. Slot(d)
    <3>1. c.process \in Runs \cup {NoRun}
      BY DEF ChatStates
    <3>2. Slot(c)
      BY <1>8 DEF Inv
    <3>3. /\ ~d.active => d.process = NoRun
          /\ d.idle /\ d.process # NoRun => d.run[d.process].life = "live"
      BY <1>6, <1>7, <3>1, <3>2 DEF Slot
    <3>4. ASSUME NEW q \in Runs
          PROVE  /\ ~d.run[q].direct
                 /\ d.run[q].phase \in {"fetched", "prompted"} =>
                      /\ d.active /\ d.process = NoRun /\ d.inFlight = 0
                      /\ ~d.run[q].sent /\ d.run[q].life = "none"
                 /\ Busy(d, q) /\ d.run[q].life \in {"none", "live"} =>
                      d.run[q].query # {}
      BY <1>6, <2>5, <3>2 DEF Slot, Busy
    <3> QED
      BY <3>3, <3>4 DEF Slot
  <2>7. /\ \A q \in Runs : d.run[q].phase \in {"fetched", "prompted", "query"} =>
             d.run[q] = c.run[q] /\ (Busy(d, q) <=> Busy(c, q))
        /\ \A m : \A q \in Runs : Returns(c, q, m) /\ q # r => Returns(d, q, m)
    BY <2>5 DEF Returns, Busy
  <2>8. \A m : (Past(d, m) <=> Past(c, m)) /\ (Given(d, m) <=> Given(c, m))
    BY <1>6 DEF Past, Given
  <2>9. Below(d)
    BY <1>6, <1>8, <2>8 DEF Inv, Below
  <2>10. BelowPrevious(d)
    <3>1. ASSUME NEW q \in Runs, Busy(d, q)
          PROVE  /\ \A m \in 1..d.run[q].previous : Given(d, m)
                 /\ \A m \in 1..d.run[q].previous : m > d.cursor => Past(d, m)
      <4>1. d.run[q] = c.run[q] /\ Busy(c, q)
        BY <2>7, <3>1 DEF Busy
      <4> QED
        BY <1>6, <1>8, <2>8, <4>1 DEF Inv, BelowPrevious
    <3> QED
      BY <3>1 DEF BelowPrevious
  <2>11. BelowInFlight(d)
    <3>1. ASSUME NEW q \in Runs, d.inFlight # 0, d.run[q].life = "live"
          PROVE  /\ \A m \in 1..d.inFlight : Given(d, m)
                 /\ Busy(d, q) =>
                      \A m \in 1..d.run[q].previous : m > d.inFlight => Past(d, m)
                 /\ \A m \in 1..d.inFlight : m > d.cursor => Past(d, m)
                 /\ d.cursor <= d.seen
                 /\ d.held # {} => d.before = d.cursor
      <4>1. c.inFlight # 0 /\ c.run[q].life = "live"
        BY <1>6, <1>7, <3>1
      <4>2. Busy(d, q) => d.run[q] = c.run[q] /\ Busy(c, q)
        BY <2>7 DEF Busy
      <4> QED
        BY <1>6, <1>8, <2>8, <4>1, <4>2 DEF Inv, BelowInFlight
    <3> QED
      BY <3>1 DEF BelowInFlight
  <2>12. HeldBatch(d)
    BY <1>6, <1>8, <2>8 DEF Inv, HeldBatch
  <2>13. HeldSafe(d)
    <3> SUFFICES ASSUME d.held # {} PROVE HeldSafe(d)
      BY DEF HeldSafe
    <3>1. HeldSafe(c) /\ c.held # {}
      BY <1>6, <1>8 DEF Inv
    <3>2. d.process # NoRun \/ (\E q \in Runs : d.run[q].phase = "prompted") =>
            \A m \in 1..d.before : Given(d, m)
      BY <1>6, <2>7, <2>8, <3>1 DEF HeldSafe
    <3>3. ASSUME NEW q \in Runs, d.run[q].phase = "fetched", NEW m \in 1..d.before
          PROVE  m <= d.cursor \/ m \in d.run[q].batch \/ Past(d, m)
      BY <1>6, <2>7, <2>8, <3>1, <3>3 DEF HeldSafe
    <3>4. ASSUME NEW q \in Runs, Busy(d, q), NEW m \in 1..d.run[q].previous, m > d.before
          PROVE  Past(d, m)
      <4>1. d.run[q] = c.run[q] /\ Busy(c, q)
        BY <2>7, <3>4 DEF Busy
      <4> QED
        BY <1>6, <2>8, <3>1, <3>4, <4>1 DEF HeldSafe
    <3>5. ASSUME NEW m \in 1..d.cursor, m > d.before
          PROVE  Past(d, m) \/ \E q \in Runs : Returns(d, q, m)
      <4>1. ~Returns(c, r, m)
        BY <1>6, <1>8, <3>5 DEF Unneeded
      <4> QED
        BY <1>6, <2>7, <2>8, <3>1, <3>5, <4>1 DEF HeldSafe
    <3> QED
      BY <3>2, <3>3, <3>4, <3>5 DEF HeldSafe
  <2>14. Fetched(d)
    BY <1>6, <1>8, <2>7, <2>8 DEF Inv, Fetched
  <2>15. Prompts(d)
    <3> SUFFICES ASSUME NEW m \in d.prompted
                 PROVE  \/ m \in d.answered
                        \/ \E k \in d.commands : k > m
                        \/ \E q \in Runs : Returns(d, q, m)
      BY DEF Prompts
    <3>1. ~Returns(c, r, m)
      BY <1>6, <1>8 DEF Unneeded
    <3> QED
      BY <1>6, <1>8, <2>7, <3>1 DEF Inv, Prompts
  <2>16. SeenSafe(d)
    <3>1. ASSUME NEW q \in Runs, Busy(d, q), NEW m \in 1..d.run[q].previous, m > d.seen
          PROVE  Past(d, m)
      <4>1. d.run[q] = c.run[q] /\ Busy(c, q)
        BY <2>7, <3>1 DEF Busy
      <4> QED
        BY <1>6, <1>8, <2>8, <3>1, <4>1 DEF Inv, SeenSafe
    <3>2. ASSUME NEW m \in 1..d.cursor, m > d.seen
          PROVE  Past(d, m) \/ \E q \in Runs : Returns(d, q, m)
      <4>1. ~Returns(c, r, m)
        BY <1>6, <1>8, <3>2 DEF Unneeded
      <4> QED
        BY <1>6, <1>8, <2>7, <2>8, <3>2, <4>1 DEF Inv, SeenSafe
    <3> QED
      BY <3>1, <3>2 DEF SeenSafe
  <2> QED
    BY <1>6, <1>8, <2>3, <2>4, <2>6, <2>9, <2>10, <2>11, <2>12, <2>13, <2>14, <2>15, <2>16 DEF Inv
<1>10. ASSUME Inv(c), r \in Ongoing(c) PROVE Unstarted(d)
  <2>1. ASSUME NEW q \in Runs, d.run[q].phase \in {"fetched", "prompted"} PROVE FALSE
    <3>1. q # r /\ d.run[q] = c.run[q]
      BY <1>2, <1>4, <1>5, <2>1
    <3>2. q \in Ongoing(c)
      BY <2>1, <3>1 DEF Ongoing
    <3> QED
      BY <1>10, <3>1, <3>2 DEF Inv, Alone
  <2> QED
    BY <2>1 DEF Unstarted
<1> QED
  BY <1>5, <1>7, <1>8, <1>10

(* The finally block of runForGroup.                                       *)
LEMMA EndKeeps ==
  ASSUME NEW c \in ChatStates, NEW d, d = EndRun(c)
  PROVE  /\ d \in ChatStates /\ Same(c, d)
         /\ d.active => d.idle /\ d.process # NoRun
         /\ Inv(c) /\ Unstarted(c) => Inv(d)
<1>1. CASE c.idle /\ c.process # NoRun /\ c.run[c.process].life # "coded"
  BY <1>1 DEF EndRun, Same
<1>2. CASE ~(c.idle /\ c.process # NoRun /\ c.run[c.process].life # "coded")
  <2>1. d = [c EXCEPT !.active = FALSE, !.process = NoRun]
    BY <1>2 DEF EndRun
  <2>2. d \in ChatStates /\ ~d.active /\ d.process = NoRun
    BY <2>1, ZenonT(40) DEF ChatStates
  <2>3. Frame(c, d, {"active", "process"})
    BY <2>1 DEF ChatStates, Frame
  <2>4. /\ Frame(c, d, {"active", "process", "inFlight", "idle", "inbox", "pending"})
        /\ d.inFlight = c.inFlight /\ Same(c, d)
    BY <2>3 DEF ChatStates, Frame, Same
  <2> QED
    BY <2>2, <2>4, FreedKeeps
<1> QED
  BY <1>1, <1>2

(* The end of a run that need not roll back.                               *)
LEMMA FinishKeeps ==
  ASSUME NEW c \in ChatStates, NEW r \in Runs, NEW ok \in BOOLEAN,
         NEW d, d = Finish(c, r, ok)
  PROVE  /\ d \in ChatStates /\ Same(c, d)
         /\ Inv(c) /\ Unneeded(c, r) /\ r \in Ongoing(c) => Inv(d)
<1> DEFINE over == Settled(c, r)
           counted == CountRetry(over, ok)
           ended == EndRun(counted)
<1>1. d = IF c.run[r].direct THEN over ELSE DrainGroup(ended)
  BY DEF Finish, Settled
<1>2. /\ over \in ChatStates
      /\ Frame(c, over, {"run"})
      /\ \A q \in Runs : over.run[q].life = c.run[q].life
      /\ Inv(c) /\ Unneeded(c, r) => Inv(over)
      /\ Inv(c) /\ r \in Ongoing(c) => Unstarted(over)
  BY SettledKeeps
<1> HIDE DEF over
<1>3. counted \in ChatStates /\ Frame(over, counted, {"retries", "timers"})
  BY <1>2, RetryKeeps
<1> HIDE DEF counted
<1>4. /\ Frame(over, counted, {"pending", "piped", "hasOutput", "retries",
               "timers", "deaths", "runless", "active", "idle", "inFlight"})
      /\ counted.idle = over.idle /\ counted.inFlight = over.inFlight
      /\ counted.active = over.active /\ counted.run = over.run
  BY <1>2, <1>3 DEF Frame, ChatStates
<1>5. Inv(over) => Inv(counted)
  BY <1>2, <1>3, <1>4, QuietKeeps
<1>9. Unstarted(over) => Unstarted(counted)
  BY <1>4 DEF Unstarted
<1>10. Same(c, over) /\ Same(over, counted)
  BY <1>2, <1>3 DEF Frame, ChatStates, Same
<1>6. /\ ended \in ChatStates /\ Same(counted, ended)
      /\ ended.active => ended.idle /\ ended.process # NoRun
      /\ Inv(counted) /\ Unstarted(counted) => Inv(ended)
  BY <1>3, EndKeeps
<1> HIDE DEF ended
<1>7. CASE c.run[r].direct
  BY <1>1, <1>2, <1>7, <1>10
<1>8. CASE ~c.run[r].direct
  <2>1. d \in ChatStates /\ Same(ended, d) /\ (Inv(ended) => Inv(d))
    BY <1>1, <1>6, <1>8, DrainKeeps
  <2> QED
    BY <1>2, <1>5, <1>6, <1>9, <1>10, <2>1 DEF Same
<1> QED
  BY <1>7, <1>8

(* A set of messages that is not empty has a last one.                     *)
LEMMA MaxOf ==
  ASSUME NEW S \in SUBSET Messages, S # {}
  PROVE  Max(S) \in S /\ \A x \in S : x <= Max(S)
<1> DEFINE T == {MaxMessages - x : x \in S}
<1>0. \A x \in S : MaxMessages - x \in Nat
  BY ChatAssumption DEF Messages
<1>1. T \subseteq Nat /\ T # {}
  BY <1>0
<1>2. PICK t \in T : \A y \in T : ~(<<y, t>> \in OpToRel(<, Nat))
  <2>1. IsWellFoundedOn(OpToRel(<, Nat), Nat)
    BY NatLessThanWellFounded
  <2> HIDE DEF T
  <2> QED
    BY <1>1, <2>1, WFMin
<1>3. PICK x \in S : t = MaxMessages - x
  BY <1>2
<1>4. ASSUME NEW y \in S PROVE x >= y
  <2>1. MaxMessages - y \in T /\ MaxMessages - y \in Nat /\ t \in Nat
    BY <1>1, <1>2
  <2>2. ~(MaxMessages - y < t)
    BY <1>2, <2>1 DEF OpToRel
  <2> QED
    BY <1>3, <2>2, ChatAssumption DEF Messages
<1>5. \A k \in S : (\A y \in S : k >= y) => \A y \in S : y <= k
  BY DEF Messages
<1> QED
  BY <1>4, <1>5 DEF Max

(* Handling the slash commands of a batch leaves the cursor, or puts it at *)
(* the last of them.                                                       *)
LEMMA PastIs ==
  ASSUME NEW c \in ChatStates, NEW batch \in SUBSET Messages,
         NEW past, past = PastCommands(c, batch)
  PROVE  /\ past \in Cursors
         /\ \/ past = c.cursor /\ batch \cap c.commands = {}
            \/ past \in batch /\ past \in c.commands
<1>1. CASE batch \cap c.commands = {}
  BY <1>1 DEF PastCommands, ChatStates
<1>2. CASE batch \cap c.commands # {}
  <2>1. Max(batch \cap c.commands) \in batch \cap c.commands
    BY <1>2, MaxOf
  <2> QED
    BY <1>2, <2>1 DEF PastCommands, Messages, Cursors
<1> QED
  BY <1>1, <1>2

Guarded(c) == ~c.world.overlap /\ c.restarts = 0 => Inv(c)

(* An action is a change that keeps the invariant, and Tidy.               *)
LEMMA StepKeeps ==
  ASSUME chat \in ChatStates, NEW d \in ChatStates, Same(chat, d),
         Inv(chat) => Inv(d), Step(d)
  PROVE  chat' \in ChatStates /\ (Guarded(chat) => Guarded(chat'))
<1> DEFINE e == Tidy(d)
<1>1. chat' = e
  BY DEF Step
<1>2. e \in ChatStates /\ e.runless = d.runless /\ Same(d, e) /\ (Inv(d) => Inv(e))
  BY TidyKeeps
<1> HIDE DEF e
<1> QED
  BY <1>1, <1>2 DEF Guarded, Same

(* Action Receive keeps the invariant.                                     *)
LEMMA ReceiveKeeps ==
  ASSUME chat \in ChatStates, NEW isCommand \in BOOLEAN, Receive(isCommand)
  PROVE  chat' \in ChatStates /\ (Guarded(chat) => Guarded(chat'))
<1> DEFINE commands == IF isCommand THEN chat.commands \cup {chat.stored + 1}
                                    ELSE chat.commands
           d == [chat EXCEPT !.stored = @ + 1, !.commands = commands]
<1>1. Step(d) /\ chat.stored < MaxMessages
  BY DEF Receive
<1>2. /\ commands \in SUBSET Messages /\ chat.commands \subseteq commands
      /\ chat.stored + 1 \in Cursors /\ chat.stored \in Nat
  BY <1>1, ChatAssumption DEF ChatStates, Messages, Cursors
<1> HIDE DEF commands
<1>3. /\ d \in ChatStates /\ Frame(chat, d, {"stored", "commands"})
      /\ d.commands = commands /\ d.stored = chat.stored + 1
  BY <1>2 DEF ChatStates, Frame
<1> HIDE DEF d
<1>4. /\ d.world = chat.world /\ d.cursor = chat.cursor /\ d.held = chat.held
      /\ d.before = chat.before /\ d.process = chat.process /\ d.run = chat.run
      /\ d.restarts = chat.restarts /\ d.handed = chat.handed
      /\ d.prompted = chat.prompted /\ d.answered = chat.answered
      /\ d.seen = chat.seen /\ d.active = chat.active /\ d.idle = chat.idle
      /\ d.inFlight = chat.inFlight
  BY <1>3 DEF Frame, ChatStates
<1>5. ASSUME Inv(chat) PROVE Inv(d)
  <2>1. \A m : (Past(chat, m) => Past(d, m)) /\ (Given(chat, m) => Given(d, m))
    BY <1>2, <1>3, <1>4 DEF Past, Given
  <2>2. \A m : \A r \in Runs : /\ Returns(d, r, m) <=> Returns(chat, r, m)
                               /\ Busy(d, r) <=> Busy(chat, r)
    BY <1>4 DEF Returns, Busy
  <2>3. Stored(d)
    BY <1>2, <1>3, <1>4, <1>5, ChatAssumption
       DEF Inv, Stored, ChatStates, Cursors, Messages, RunStates
  <2>4. Alone(d) /\ Slot(d)
    BY <1>4, <1>5 DEF Inv, Alone, Ongoing, Slot, Busy
  <2>5. Below(d) /\ BelowPrevious(d)
    BY <1>4, <1>5, <2>1, <2>2 DEF Inv, Below, BelowPrevious
  <2>6. BelowInFlight(d)
    BY <1>4, <1>5, <2>1, <2>2 DEF Inv, BelowInFlight
  <2>7. HeldBatch(d) /\ HeldSafe(d)
    BY <1>4, <1>5, <2>1, <2>2 DEF Inv, HeldBatch, HeldSafe
  <2>8. Fetched(d) /\ SeenSafe(d)
    BY <1>2, <1>3, <1>4, <1>5, <2>1, <2>2 DEF Inv, Fetched, SeenSafe
  <2>9. Prompts(d)
    BY <1>2, <1>3, <1>4, <1>5, <2>2 DEF Inv, Prompts
  <2> QED
    BY <1>4, <1>5, <2>3, <2>4, <2>5, <2>6, <2>7, <2>8, <2>9 DEF Inv
<1> QED
  BY <1>1, <1>3, <1>4, <1>5, StepKeeps DEF Same

(* Action Poll keeps the invariant.                                        *)
LEMMA PollKeeps ==
  ASSUME chat \in ChatStates, Poll
  PROVE  chat' \in ChatStates /\ (Guarded(chat) => Guarded(chat'))
<1> DEFINE all == Since(chat, chat.cursor)
           batch == IF all # {} THEN all ELSE Since(chat, chat.seen)
           past == PastCommands(chat, batch)
           texts == Texts(chat, batch)
           d == [chat EXCEPT !.seen = chat.stored, !.cursor = past,
                             !.held = texts, !.before = past]
<1>1. Step(d) /\ chat.seen < chat.stored
  BY DEF Poll
<1>2. /\ chat.cursor \in Nat /\ chat.seen \in Nat /\ chat.stored \in Nat
      /\ chat.stored \in Cursors /\ chat.stored <= MaxMessages /\ MaxMessages \in Nat
  BY ChatAssumption DEF ChatStates, Cursors
<1>3. /\ batch \in SUBSET Messages
      /\ \A m \in batch : m \in Nat /\ m <= chat.stored
      /\ \/ \A m \in Nat : m \in batch <=> m > chat.cursor /\ m <= chat.stored
         \/ /\ chat.cursor >= chat.stored
            /\ \A m \in batch : m > chat.seen
            /\ \A m \in Nat : m > chat.seen /\ m <= chat.stored => m \in batch
  <2>1. /\ Since(chat, chat.cursor) \in SUBSET Messages
        /\ Since(chat, chat.seen) \in SUBSET Messages
        /\ \A m \in Nat : m \in Since(chat, chat.cursor) <=> m > chat.cursor /\ m <= chat.stored
        /\ \A m \in Nat : m \in Since(chat, chat.seen) <=> m > chat.seen /\ m <= chat.stored
    BY <1>2 DEF Since, Messages
  <2>2. CASE all # {}
    BY <2>1, <2>2 DEF Messages
  <2>3. CASE all = {}
    <3>1. chat.cursor >= chat.stored
      BY <1>2, <2>1, <2>3
    <3> QED
      BY <2>1, <2>3, <3>1 DEF Messages
  <2> QED
    BY <2>2, <2>3
<1> HIDE DEF batch
<1>4. /\ past \in Cursors
      /\ \/ past = chat.cursor /\ batch \cap chat.commands = {}
         \/ past \in batch /\ past \in chat.commands
  BY <1>3, PastIs
<1>5. texts \in SUBSET Messages /\ \A m : m \in texts <=> m \in batch /\ m \notin chat.commands
  BY <1>3 DEF Texts
<1>6. \A m \in batch : m \in chat.commands => m <= past
  <2>1. CASE batch \cap chat.commands = {}
    BY <2>1
  <2>2. CASE batch \cap chat.commands # {}
    BY <1>3, <2>2, MaxOf DEF PastCommands
  <2> QED
    BY <2>1, <2>2
<1> HIDE DEF past, texts
<1>7. /\ d \in ChatStates /\ Frame(chat, d, {"seen", "cursor", "held", "before"})
      /\ d.seen = chat.stored /\ d.cursor = past /\ d.held = texts /\ d.before = past
  BY <1>2, <1>4, <1>5 DEF ChatStates, Frame
<1> HIDE DEF d
<1>8. /\ d.world = chat.world /\ d.stored = chat.stored /\ d.commands = chat.commands
      /\ d.process = chat.process /\ d.run = chat.run
      /\ d.restarts = chat.restarts /\ d.handed = chat.handed
      /\ d.prompted = chat.prompted /\ d.answered = chat.answered
      /\ d.active = chat.active /\ d.idle = chat.idle /\ d.inFlight = chat.inFlight
  BY <1>7 DEF Frame, ChatStates
<1>9. ASSUME Inv(chat) PROVE Inv(d)
  <2>1. \A m : (Past(d, m) <=> Past(chat, m)) /\ (Given(d, m) <=> Given(chat, m))
    BY <1>8 DEF Past, Given
  <2>2. \A m : \A r \in Runs : /\ Returns(d, r, m) <=> Returns(chat, r, m)
                               /\ Busy(d, r) <=> Busy(chat, r)
    BY <1>8 DEF Returns, Busy
  <2>3. past \in Nat /\ past <= chat.stored
    BY <1>2, <1>3, <1>4, <1>9 DEF Inv, Stored, Cursors
  \* The cursor stays, or is at a command; if that is below the former cursor
  \* it is a message that the loop had not seen.
  <2>4. /\ past >= chat.cursor \/ (past > chat.seen /\ chat.cursor = chat.stored)
        /\ past = chat.cursor \/ \A m \in Nat : m <= past => Past(chat, m)
    <3>1. CASE past = chat.cursor
      BY <1>2, <3>1
    <3>2. CASE past \in batch /\ past \in chat.commands
      <4>1. \A m \in Nat : m <= past => Past(chat, m)
        BY <2>3, <3>2 DEF Past
      <4>2. chat.cursor <= chat.stored
        BY <1>9 DEF Inv, Stored
      <4> QED
        BY <1>2, <1>3, <2>3, <3>2, <4>1, <4>2
    <3> QED
      BY <1>4, <3>1, <3>2
  <2>5. \A m \in Nat \ {0} : m <= past => Given(chat, m)
    BY <1>2, <1>9, <2>3, <2>4 DEF Inv, Below, Given
  <2>6. Stored(d)
    BY <1>2, <1>3, <1>5, <1>7, <1>8, <1>9, <2>3 DEF Inv, Stored
  <2>7. Alone(d) /\ Slot(d)
    BY <1>8, <1>9 DEF Inv, Alone, Ongoing, Slot, Busy
  <2>8. Below(d)
    BY <1>7, <2>1, <2>3, <2>5 DEF Below
  <2>9. \A r \in Runs : Busy(d, r) => \A m \in 1..d.run[r].previous : m > past => Past(d, m)
    <3>1. ASSUME NEW r \in Runs, Busy(chat, r), NEW m \in 1..chat.run[r].previous, m > past
          PROVE  Past(chat, m)
      <4>1. chat.run[r].previous \in Nat
        BY ChatAssumption DEF ChatStates, RunStates, Cursors
      <4>2. CASE past >= chat.cursor
        BY <1>2, <1>9, <2>3, <3>1, <4>1, <4>2 DEF Inv, BelowPrevious
      <4>3. CASE past > chat.seen
        BY <1>2, <1>9, <2>3, <3>1, <4>1, <4>3 DEF Inv, SeenSafe
      <4> QED
        BY <2>4, <4>2, <4>3
    <3> QED
      BY <1>8, <2>1, <2>2, <3>1
  <2>10. BelowPrevious(d)
    BY <1>7, <1>8, <1>9, <2>1, <2>2, <2>9 DEF Inv, BelowPrevious
  <2>11. BelowInFlight(d)
    <3>1. ASSUME NEW r \in Runs, d.inFlight # 0, d.run[r].life = "live"
          PROVE  /\ \A m \in 1..d.inFlight : Given(d, m)
                 /\ Busy(d, r) =>
                      \A m \in 1..d.run[r].previous : m > d.inFlight => Past(d, m)
                 /\ \A m \in 1..d.inFlight : m > d.cursor => Past(d, m)
                 /\ d.cursor <= d.seen
                 /\ d.held # {} => d.before = d.cursor
      <4>1. chat.inFlight # 0 /\ chat.run[r].life = "live" /\ chat.inFlight \in Nat
        BY <1>8, <3>1, ChatAssumption DEF ChatStates, Cursors
      <4>2. chat.cursor <= chat.seen
        BY <1>9, <4>1 DEF Inv, BelowInFlight
      <4>3. past >= chat.cursor
        BY <1>1, <1>2, <2>4, <4>2
      <4>4. \A m \in 1..chat.inFlight : m > past => Past(chat, m)
        BY <1>2, <1>9, <2>3, <4>1, <4>3 DEF Inv, BelowInFlight
      <4> QED
        BY <1>7, <1>8, <1>9, <2>1, <2>2, <2>3, <4>1, <4>4 DEF Inv, BelowInFlight
    <3> QED
      BY <3>1 DEF BelowInFlight
  <2>12. HeldBatch(d)
    <3> SUFFICES ASSUME texts # {}
                 PROVE  /\ \A m \in 1..Max(texts) : m > past => m \in texts
                        /\ \A m \in 1..past : m > Max(texts) => Past(d, m)
      BY <1>7 DEF HeldBatch
    <3>1. Max(texts) \in texts /\ \A x \in texts : x <= Max(texts)
      BY <1>5, MaxOf
    <3>2. Max(texts) \in Nat /\ Max(texts) <= chat.stored /\ Max(texts) \in batch
      BY <1>3, <1>5, <3>1
    <3>3. ASSUME NEW m \in 1..Max(texts), m > past PROVE m \in texts
      <4>1. m \in batch
        BY <1>2, <1>3, <2>3, <2>4, <3>2, <3>3
      <4> QED
        BY <1>5, <1>6, <2>3, <3>3, <4>1
    <3>4. ASSUME NEW m \in 1..past, m > Max(texts) PROVE Past(chat, m)
      <4>1. CASE past = chat.cursor
        <5>1. batch \cap chat.commands = {} \/ past \in chat.commands
          BY <1>4
        <5>2. CASE past \in chat.commands
          BY <2>3, <3>4, <5>2 DEF Past
        <5>3. CASE batch \cap chat.commands = {}
          <6>1. chat.stored \in batch /\ chat.stored \in texts
            BY <1>1, <1>2, <1>3, <1>5, <2>3, <3>2, <3>4, <4>1, <5>3
          <6>2. Max(texts) >= chat.stored
            BY <1>2, <3>1, <3>2, <6>1
          <6> QED
            BY <1>2, <2>3, <3>2, <3>4, <6>2
        <5> QED
          BY <5>1, <5>2, <5>3
      <4> QED
        BY <2>3, <2>4, <3>4, <4>1
    <3> QED
      BY <2>1, <3>3, <3>4
  <2>13. HeldSafe(d)
    <3>1. \A m \in 1..past : Given(d, m)
      BY <2>1, <2>3, <2>5
    <3>2. \A m \in 1..past : ~(m > past)
      BY <2>3
    <3> QED
      BY <1>7, <2>3, <2>9, <3>1, <3>2 DEF HeldSafe
  <2>14. Fetched(d)
    <3>1. ASSUME NEW r \in Runs, chat.run[r].phase = "fetched", NEW b \in chat.run[r].batch
          PROVE  /\ \A m \in 1..b : m <= past \/ m \in chat.run[r].batch \/ Past(chat, m)
                 /\ b <= past => past \in chat.commands
      <4>1. b \in Nat
        BY DEF ChatStates, RunStates, Messages
      <4>2. /\ \A m \in 1..b : m <= chat.cursor \/ m \in chat.run[r].batch \/ Past(chat, m)
            /\ b <= chat.cursor => chat.cursor \in chat.commands
        BY <1>9, <3>1 DEF Inv, Fetched
      <4>3. ASSUME NEW m \in 1..b, m <= chat.cursor, m > past PROVE Past(chat, m)
        <5>1. m > chat.seen
          BY <1>2, <2>3, <2>4, <4>1, <4>3
        <5>2. \A q \in Runs : ~Busy(chat, q)
          BY <1>9, <3>1 DEF Inv, Alone, Ongoing, Busy
        <5> QED
          BY <1>2, <1>9, <4>1, <4>3, <5>1, <5>2 DEF Inv, SeenSafe, Returns
      <4>4. b <= past => past \in chat.commands
        BY <1>4, <4>2
      <4> QED
        BY <1>2, <2>3, <4>1, <4>2, <4>3, <4>4
    <3> QED
      BY <1>7, <1>8, <2>1, <3>1 DEF Fetched
  <2>15. SeenSafe(d)
    <3>1. \A m \in 1..past : ~(m > chat.stored)
      BY <1>2, <2>3
    <3>2. \A r \in Runs : chat.run[r].previous <= chat.stored /\ chat.run[r].previous \in Nat
      BY <1>9, ChatAssumption DEF Inv, Stored, ChatStates, RunStates, Cursors
    <3>3. \A r \in Runs : \A m \in 1..chat.run[r].previous : ~(m > chat.stored)
      BY <1>2, <3>2
    <3> QED
      BY <1>7, <1>8, <3>1, <3>3 DEF SeenSafe
  <2>16. Prompts(d)
    BY <1>8, <1>9, <2>2 DEF Inv, Prompts
  <2> QED
    BY <1>8, <1>9, <2>6, <2>7, <2>8, <2>10, <2>11, <2>12, <2>13, <2>14, <2>15, <2>16 DEF Inv
<1> QED
  BY <1>1, <1>7, <1>8, <1>9, StepKeeps DEF Same

(* The loop lets go of what it holds.                                      *)
LEMMA DroppedKeeps ==
  ASSUME NEW c \in ChatStates, NEW d \in ChatStates, Inv(c),
         Frame(c, d, {"held", "before"}), d.held = {}, d.before = 0
  PROVE  Inv(d)
<1>1. /\ d.world = c.world /\ d.stored = c.stored /\ d.commands = c.commands
      /\ d.cursor = c.cursor /\ d.process = c.process /\ d.run = c.run
      /\ d.restarts = c.restarts /\ d.handed = c.handed
      /\ d.prompted = c.prompted /\ d.answered = c.answered
      /\ d.seen = c.seen /\ d.active = c.active /\ d.idle = c.idle
      /\ d.inFlight = c.inFlight
  BY DEF Frame, ChatStates
<1>2. 0 <= c.stored
  BY ChatAssumption DEF ChatStates, Cursors
<1>3. Alone(d) /\ Stored(d) /\ Slot(d)
  BY <1>1, <1>2 DEF Inv, Alone, Ongoing, Stored, Slot, Busy
<1>4. Below(d) /\ BelowPrevious(d) /\ BelowInFlight(d)
  BY <1>1 DEF Inv, Below, BelowPrevious, BelowInFlight, Given, Past, Busy
<1>5. HeldBatch(d) /\ HeldSafe(d)
  BY DEF HeldBatch, HeldSafe
<1>6. Fetched(d) /\ SeenSafe(d) /\ Prompts(d)
  BY <1>1 DEF Inv, Fetched, SeenSafe, Prompts, Past, Busy, Returns
<1> QED
  BY <1>1, <1>3, <1>4, <1>5, <1>6 DEF Inv

(* ... and pipes it to the agent of the slot.                              *)
LEMMA PipedKeeps ==
  ASSUME NEW c \in ChatStates, NEW d \in ChatStates, Inv(c), HasContainer(c), c.held # {},
         Frame(c, d, {"held", "before", "idle", "piped", "inbox", "inFlight", "cursor",
                      "handed"}),
         d.held = {}, d.before = 0, ~d.idle, d.cursor = Max(c.held),
         d.handed = c.handed \cup c.held,
         d.inFlight = IF c.inFlight = 0 THEN c.before ELSE c.inFlight
  PROVE  Inv(d)
<1>1. /\ d.world = c.world /\ d.stored = c.stored /\ d.commands = c.commands
      /\ d.process = c.process /\ d.run = c.run
      /\ d.restarts = c.restarts
      /\ d.prompted = c.prompted /\ d.answered = c.answered
      /\ d.seen = c.seen /\ d.active = c.active
  BY DEF Frame, ChatStates
<1>2. /\ c.stored \in Nat /\ c.seen \in Nat /\ c.cursor \in Nat /\ c.before \in Nat
      /\ c.inFlight \in Nat /\ c.held \in SUBSET Messages
      /\ \A r \in Runs : c.run[r].previous \in Nat
  BY ChatAssumption DEF ChatStates, Cursors, RunStates
<1> DEFINE top == Max(c.held)
<1>3. top \in c.held /\ top \in Nat /\ top >= 1
  BY <1>2, MaxOf DEF Messages
<1>4. top <= c.seen /\ top <= c.stored
  BY <1>2, <1>3 DEF Inv, Stored
<1>5. /\ \A m \in 1..top : m > c.before => m \in c.held
      /\ \A m \in 1..c.before : m > top => Past(c, m)
  BY DEF Inv, HeldBatch
<1>6. /\ \A m \in 1..c.before : Given(c, m)
      /\ \A r \in Runs : Busy(c, r) => \A m \in 1..c.run[r].previous : m > c.before => Past(c, m)
      /\ \A m \in 1..c.cursor : m > c.before => Past(c, m) \/ \E r \in Runs : Returns(c, r, m)
  BY DEF Inv, HeldSafe, HasContainer
<1> HIDE DEF top
<1>7. \A m : /\ Past(d, m) <=> Past(c, m)
             /\ Given(c, m) => Given(d, m)
             /\ m \in c.held => Given(d, m)
  BY <1>1 DEF Past, Given
<1>8. \A m : \A r \in Runs : /\ Returns(d, r, m) <=> Returns(c, r, m)
                             /\ Busy(d, r) <=> Busy(c, r)
  BY <1>1 DEF Returns, Busy
<1>9. d.cursor = top
  BY DEF top
<1>10. \A r \in Runs : d.run[r].phase \notin {"fetched", "prompted"}
  BY <1>1 DEF Inv, Slot, HasContainer
<1>11. Stored(d) /\ Alone(d)
  BY <1>1, <1>2, <1>4, <1>9 DEF Inv, Stored, Alone, Ongoing
<1>12. Slot(d)
  BY <1>1, <1>10 DEF Inv, Slot, Busy
<1>13. Below(d)
  BY <1>2, <1>3, <1>5, <1>6, <1>7, <1>9 DEF Below
<1>14. \A r \in Runs : Busy(c, r) => \A m \in 1..c.run[r].previous : m > top => Past(c, m)
  BY <1>2, <1>3, <1>5, <1>6
<1>15. BelowPrevious(d)
  BY <1>1, <1>7, <1>8, <1>9, <1>14 DEF Inv, BelowPrevious
<1>16. BelowInFlight(d)
  <2> SUFFICES ASSUME NEW r \in Runs, d.inFlight # 0, c.run[r].life = "live"
               PROVE  /\ \A m \in 1..d.inFlight : Given(c, m)
                      /\ Busy(c, r) =>
                           \A m \in 1..c.run[r].previous : m > d.inFlight => Past(c, m)
                      /\ \A m \in 1..d.inFlight : m > top => Past(c, m)
    BY <1>1, <1>4, <1>7, <1>8, <1>9 DEF BelowInFlight
  <2>1. CASE c.inFlight = 0
    BY <1>5, <1>6, <2>1
  <2>2. CASE c.inFlight # 0
    <3>1. /\ \A m \in 1..c.inFlight : Given(c, m)
          /\ Busy(c, r) => \A m \in 1..c.run[r].previous : m > c.inFlight => Past(c, m)
          /\ \A m \in 1..c.inFlight : m > c.cursor => Past(c, m)
          /\ c.before = c.cursor
      BY <2>2 DEF Inv, BelowInFlight
    <3>2. \A m \in 1..c.inFlight : m > top => Past(c, m)
      BY <1>2, <1>3, <1>5, <3>1
    <3> QED
      BY <2>2, <3>1, <3>2
  <2> QED
    BY <2>1, <2>2
<1>17. HeldBatch(d) /\ HeldSafe(d) /\ Fetched(d)
  BY <1>10 DEF HeldBatch, HeldSafe, Fetched
<1>18. SeenSafe(d)
  BY <1>1, <1>2, <1>3, <1>4, <1>7, <1>8, <1>9 DEF Inv, SeenSafe
<1>19. Prompts(d)
  BY <1>1, <1>8 DEF Inv, Prompts
<1> QED
  BY <1>1, <1>11, <1>12, <1>13, <1>15, <1>16, <1>17, <1>18, <1>19 DEF Inv

(* Action Pipe keeps the invariant.                                        *)
LEMMA PipeKeeps ==
  ASSUME chat \in ChatStates, NEW written \in BOOLEAN, Pipe(written)
  PROVE  chat' \in ChatStates /\ (Guarded(chat) => Guarded(chat'))
<1> DEFINE c == [chat EXCEPT !.held = {}, !.before = 0]
           gone == HasContainer(c) /\ c.run[c.process].life = "coded"
           released == [Release(c) EXCEPT !.idle = FALSE, !.pending = TRUE]
           woken == [c EXCEPT !.idle = FALSE]
           flight == IF c.inFlight = 0 THEN chat.before ELSE c.inFlight
           piped == [c EXCEPT !.idle = FALSE, !.piped = TRUE,
                              !.inbox = @ \cup chat.held, !.inFlight = flight,
                              !.cursor = Max(chat.held)]
           handed == Hand(piped, chat.held)
           d == IF ~HasContainer(c) THEN EnqueueMessageCheck(c)
                ELSE IF gone THEN EnqueueMessageCheck(DrainGroup(released))
                ELSE IF ~written THEN EnqueueMessageCheck(woken)
                ELSE handed
<1>1. Step(d) /\ chat.held # {}
  BY DEF Pipe
<1>2. 0 \in Cursors
  BY ChatAssumption DEF Cursors
<1>3. /\ c \in ChatStates /\ Frame(chat, c, {"held", "before"}) /\ c.held = {} /\ c.before = 0
      /\ Same(chat, c) /\ c.process = chat.process /\ c.active = chat.active
      /\ c.inFlight = chat.inFlight /\ c.inbox = chat.inbox /\ c.handed = chat.handed
  BY <1>2 DEF ChatStates, Frame, Same
<1>4. Inv(chat) => Inv(c)
  BY <1>3, DroppedKeeps
<1> HIDE DEF c
<1>20. c \in ChatStates
  BY <1>3
<1>5. CASE ~HasContainer(c)
  <2>1. d = EnqueueMessageCheck(c)
    BY <1>5
  <2> HIDE DEF d
  <2>2. d \in ChatStates /\ Same(c, d) /\ (Inv(c) => Inv(d))
    BY <1>3, <2>1, EnqueueKeeps
  <2> QED
    BY <1>1, <1>3, <1>4, <2>2, StepKeeps DEF Same
<1>6. CASE HasContainer(c) /\ gone
  <2> DEFINE drained == DrainGroup(released)
  <2>1. d = EnqueueMessageCheck(drained)
    BY <1>6
  <2> HIDE DEF d
  <2>2. /\ released \in ChatStates /\ Same(c, released)
        /\ Frame(c, released, {"active", "process", "inFlight", "idle", "inbox", "pending"})
        /\ ~released.active /\ released.process = NoRun /\ released.inFlight = 0
    <3>1. released = [c EXCEPT !.active = FALSE, !.process = NoRun, !.inFlight = 0,
                               !.idle = FALSE, !.pending = TRUE]
      BY <1>3 DEF Release, ChatStates
    <3> HIDE DEF released
    <3>2. released \in ChatStates
      BY <1>2, <1>20, <3>1, ZenonT(40) DEF ChatStates
    <3> QED
      BY <1>3, <3>1, <3>2, ZenonT(40) DEF ChatStates, Same, Frame
  <2> HIDE DEF released
  <2>3. Inv(c) => Unstarted(c)
    BY <1>6 DEF HasContainer, Inv, Slot, Unstarted
  <2>4. Inv(c) => Inv(released)
    BY <1>3, <2>2, <2>3, FreedKeeps
  <2>5. /\ drained \in ChatStates /\ Same(released, drained)
        /\ Inv(released) /\ (released.active => released.idle /\ released.process # NoRun)
             => Inv(drained)
    BY <2>2, DrainKeeps
  <2> HIDE DEF drained
  <2>6. d \in ChatStates /\ Same(drained, d) /\ (Inv(drained) => Inv(d))
    BY <2>1, <2>5, EnqueueKeeps
  <2> QED
    BY <1>1, <1>3, <1>4, <2>2, <2>4, <2>5, <2>6, StepKeeps DEF Same
<1>7. CASE HasContainer(c) /\ ~gone /\ ~written
  <2>1. d = EnqueueMessageCheck(woken)
    BY <1>7
  <2> HIDE DEF d
  <2>2. woken \in ChatStates /\ Frame(c, woken, {"idle"}) /\ ~woken.idle
    BY <1>20, ZenonT(40) DEF ChatStates, Frame
  <2> HIDE DEF woken
  <2>3. /\ Frame(c, woken, {"pending", "piped", "hasOutput", "retries", "timers",
                            "deaths", "runless", "active", "idle", "inFlight"})
        /\ woken.active = c.active /\ woken.inFlight = c.inFlight /\ Same(c, woken)
    BY <1>3, <2>2 DEF ChatStates, Frame, Same
  <2>4. Inv(c) => Inv(woken)
    BY <1>3, <2>2, <2>3, QuietKeeps
  <2>5. d \in ChatStates /\ Same(woken, d) /\ (Inv(woken) => Inv(d))
    BY <2>1, <2>2, EnqueueKeeps
  <2> QED
    BY <1>1, <1>3, <1>4, <2>3, <2>4, <2>5, StepKeeps DEF Same
<1>8. CASE HasContainer(c) /\ ~gone /\ written
  <2>1. d = handed
    BY <1>8
  <2> HIDE DEF d
  <2>2. /\ chat.held \in SUBSET Messages /\ Max(chat.held) \in Cursors
        /\ chat.before \in Cursors
    BY <1>1, MaxOf DEF ChatStates, Messages, Cursors
  <2>20. /\ flight \in Cursors
         /\ flight = IF c.inFlight = 0 THEN chat.before ELSE c.inFlight
    BY <1>3, <2>2 DEF ChatStates
  <2> HIDE DEF flight
  <2>3. /\ piped \in ChatStates /\ ~piped.idle
        /\ Frame(c, piped, {"idle", "piped", "inbox", "inFlight", "cursor"})
        /\ piped.cursor = Max(chat.held)
        /\ piped.inFlight = flight
    <3> DEFINE inbox == c.inbox \cup chat.held
               top == Max(chat.held)
    <3>1. inbox \in SUBSET Messages /\ top \in Cursors /\ flight \in Cursors
      BY <1>20, <2>2, <2>20 DEF ChatStates
    <3>2. piped = [c EXCEPT !.idle = FALSE, !.piped = TRUE, !.inbox = inbox,
                            !.inFlight = flight, !.cursor = top]
      OBVIOUS
    <3> HIDE DEF inbox, piped
    <3>3. piped \in ChatStates
      BY <1>20, <3>1, <3>2 DEF ChatStates
    <3> QED
      BY <1>20, <3>2, <3>3 DEF ChatStates, Frame
  <2> HIDE DEF piped
  <2>4. /\ handed \in ChatStates /\ Frame(piped, handed, {"handed"})
        /\ handed.handed = piped.handed \cup chat.held
    BY <2>2, <2>3 DEF ChatStates, Frame, Hand
  <2> HIDE DEF handed
  <2>5. /\ Frame(chat, handed, {"held", "before", "idle", "piped", "inbox", "inFlight",
                                "cursor", "handed"})
        /\ handed.held = {} /\ handed.before = 0 /\ ~handed.idle
        /\ handed.cursor = Max(chat.held) /\ handed.handed = chat.handed \cup chat.held
        /\ handed.inFlight = IF chat.inFlight = 0 THEN chat.before ELSE chat.inFlight
        /\ Same(chat, handed)
    BY <1>3, <2>20, <2>3, <2>4 DEF ChatStates, Frame, Same
  <2>6. HasContainer(chat)
    BY <1>3, <1>8 DEF HasContainer
  <2>7. Inv(chat) => Inv(handed)
    BY <1>1, <2>4, <2>5, <2>6, PipedKeeps
  <2> QED
    BY <1>1, <2>1, <2>4, <2>5, <2>7, StepKeeps
<1> QED
  BY <1>5, <1>6, <1>7, <1>8

(* A run whose batch is all commands moves the cursor to the last.         *)
LEMMA MovedKeeps ==
  ASSUME NEW c \in ChatStates, NEW d \in ChatStates, Inv(c), NEW r \in Runs,
         c.run[r].phase = "fetched", Frame(c, d, {"cursor"}),
         Texts(c, c.run[r].batch) = {}, d.cursor = PastCommands(c, c.run[r].batch)
  PROVE  Inv(d)
<1> DEFINE batch == c.run[r].batch
           past == PastCommands(c, batch)
<1>1. /\ d.world = c.world /\ d.stored = c.stored /\ d.commands = c.commands
      /\ d.process = c.process /\ d.run = c.run /\ d.held = c.held
      /\ d.restarts = c.restarts /\ d.handed = c.handed /\ d.before = c.before
      /\ d.prompted = c.prompted /\ d.answered = c.answered
      /\ d.seen = c.seen /\ d.active = c.active /\ d.idle = c.idle
      /\ d.inFlight = c.inFlight
  BY DEF Frame, ChatStates
<1>2. /\ c.stored \in Nat /\ c.seen \in Nat /\ c.cursor \in Nat /\ c.before \in Nat
      /\ batch \in SUBSET Messages
  BY ChatAssumption DEF ChatStates, Cursors, RunStates
<1>3. /\ past \in Cursors
      /\ \/ past = c.cursor /\ batch \cap c.commands = {}
         \/ past \in batch /\ past \in c.commands
  BY <1>2, PastIs
<1>4. batch \subseteq c.commands /\ past \in Nat
  BY <1>2, <1>3, ChatAssumption DEF Texts, Cursors
<1> HIDE DEF past
<1>5. past <= c.stored
  BY <1>3 DEF Inv, Stored
<1>6. \A m : (Past(d, m) <=> Past(c, m)) /\ (Given(d, m) <=> Given(c, m))
  BY <1>1 DEF Past, Given
<1>7. \A q \in Runs : /\ ~Busy(c, q) /\ ~Busy(d, q)
                      /\ c.run[q].phase \in {"fetched", "prompted"} => q = r
  BY <1>1 DEF Inv, Alone, Ongoing, Busy
<1>8. d.cursor = past
  BY DEF past
<1>9. past = c.cursor \/ (past \in c.commands /\ \A m \in Nat : m <= past => Past(c, m))
  BY <1>3, <1>4 DEF Past
<1>10. Stored(d) /\ Alone(d) /\ Slot(d)
  BY <1>1, <1>5, <1>8 DEF Inv, Stored, Alone, Ongoing, Slot, Busy
<1>11. Below(d)
  BY <1>4, <1>6, <1>8, <1>9 DEF Inv, Below, Given
<1>12. BelowPrevious(d) /\ BelowInFlight(d)
  BY <1>1, <1>7 DEF BelowPrevious, BelowInFlight, Inv, Slot
<1>13. HeldBatch(d)
  BY <1>1, <1>6 DEF Inv, HeldBatch
<1>14. HeldSafe(d)
  <2> SUFFICES ASSUME c.held # {} PROVE HeldSafe(d)
    BY <1>1 DEF HeldSafe
  <2>1. c.process = NoRun
    BY DEF Inv, Slot
  <2>2. ASSUME NEW m \in 1..c.before PROVE m <= past \/ m \in batch \/ Past(c, m)
    <3>1. m <= c.cursor \/ m \in batch \/ Past(c, m)
      BY DEF Inv, HeldSafe
    <3>2. CASE past # c.cursor /\ m <= c.cursor /\ m > past
      <4>1. past <= c.cursor /\ past \in batch
        BY <1>2, <1>3, <1>4, <3>2
      <4>2. c.cursor \in c.commands
        BY <4>1 DEF Inv, Fetched
      <4> QED
        BY <1>2, <3>2, <4>2 DEF Past
    <3> QED
      BY <1>2, <1>4, <3>1, <3>2
  <2>3. ASSUME NEW m \in 1..past, m > c.before PROVE Past(c, m)
    BY <1>4, <1>7, <1>9, <2>3 DEF Inv, HeldSafe, Returns
  <2> QED
    <3>1. ASSUME NEW q \in Runs, d.run[q].phase = "fetched", NEW m \in 1..d.before
          PROVE  m <= d.cursor \/ m \in d.run[q].batch \/ Past(d, m)
      BY <1>1, <1>6, <1>7, <1>8, <2>2, <3>1
    <3>2. \A q \in Runs : d.run[q].phase # "prompted"
      BY <1>7 DEF Busy
    <3> QED
      BY <1>1, <1>6, <1>7, <1>8, <2>1, <2>3, <3>1, <3>2 DEF HeldSafe
<1>15. Fetched(d)
  <2>1. ASSUME NEW q \in Runs, c.run[q].phase = "fetched", NEW b \in c.run[q].batch
        PROVE  /\ \A m \in 1..b : Past(c, m)
               /\ b <= past => past \in c.commands
    <3>1. q = r /\ b \in c.commands /\ b \in Nat
      BY <1>2, <1>4, <1>7, <2>1 DEF Messages
    <3>2. past = c.cursor /\ b <= past => past \in c.commands
      BY <2>1, <3>1 DEF Inv, Fetched
    <3> QED
      BY <1>9, <3>1, <3>2 DEF Past
  <2> QED
    BY <1>1, <1>6, <1>8, <2>1 DEF Fetched
<1>16. SeenSafe(d)
  <2>1. ASSUME NEW m \in 1..past, m > c.seen PROVE Past(c, m)
    BY <1>4, <1>7, <1>9, <2>1 DEF Inv, SeenSafe, Returns
  <2> QED
    BY <1>1, <1>6, <1>7, <1>8, <2>1 DEF SeenSafe
<1>17. Prompts(d)
  BY <1>1, <1>7 DEF Inv, Prompts, Returns
<1> QED
  BY <1>1, <1>10, <1>11, <1>12, <1>13, <1>14, <1>15, <1>16, <1>17 DEF Inv

(* A run moves the cursor to the end of its batch, and prompts with it.    *)
Prompting(c, d, r, texts, past) ==
  /\ c.run[r].phase = "fetched"
  /\ Frame(c, d, {"cursor", "run", "handed", "prompted"})
  /\ texts = Texts(c, c.run[r].batch) /\ texts # {}
  /\ past = PastCommands(c, c.run[r].batch)
  /\ d.cursor = Max(texts)
  /\ d.handed = c.handed \cup texts /\ d.prompted = c.prompted \cup texts
  /\ \A q \in Runs \ {r} : d.run[q] = c.run[q]
  /\ d.run[r] = [c.run[r] EXCEPT !.phase = "prompted", !.batch = {},
                                 !.previous = past, !.query = texts]

LEMMA PromptedKeeps ==
  ASSUME NEW c \in ChatStates, NEW d \in ChatStates, Inv(c), NEW r \in Runs,
         NEW texts, NEW past, Prompting(c, d, r, texts, past)
  PROVE  Inv(d)
<1>0. /\ c.run[r].phase = "fetched"
      /\ Frame(c, d, {"cursor", "run", "handed", "prompted"})
      /\ texts = Texts(c, c.run[r].batch) /\ texts # {}
      /\ past = PastCommands(c, c.run[r].batch)
      /\ d.cursor = Max(texts)
      /\ d.handed = c.handed \cup texts /\ d.prompted = c.prompted \cup texts
      /\ \A q \in Runs \ {r} : d.run[q] = c.run[q]
      /\ d.run[r] = [c.run[r] EXCEPT !.phase = "prompted", !.batch = {},
                                     !.previous = past, !.query = texts]
  BY DEF Prompting
<1> USE <1>0
<1> DEFINE batch == c.run[r].batch
           top == Max(texts)
<1>1. /\ d.world = c.world /\ d.stored = c.stored /\ d.commands = c.commands
      /\ d.process = c.process /\ d.held = c.held
      /\ d.restarts = c.restarts /\ d.before = c.before
      /\ d.answered = c.answered
      /\ d.seen = c.seen /\ d.active = c.active /\ d.idle = c.idle
      /\ d.inFlight = c.inFlight
  BY DEF Frame, ChatStates
<1>2. /\ c.stored \in Nat /\ c.seen \in Nat /\ c.cursor \in Nat /\ c.before \in Nat
      /\ batch \in SUBSET Messages /\ c.run[r] \in RunStates
  BY ChatAssumption DEF ChatStates, Cursors, RunStates
<1>3. /\ past \in Cursors
      /\ \/ past = c.cursor /\ batch \cap c.commands = {}
         \/ past \in batch /\ past \in c.commands
  BY <1>2, PastIs
<1>4. past \in Nat /\ past <= c.stored
  BY <1>2, <1>3, ChatAssumption DEF Inv, Stored, Cursors
<1>5. /\ texts \in SUBSET Messages
      /\ \A m : m \in texts <=> m \in batch /\ m \notin c.commands
  BY <1>2 DEF Texts
<1>6. top \in texts /\ top \in Nat /\ top \in batch /\ top <= c.stored
  BY <1>5, MaxOf DEF Messages, Inv, Stored
<1>7. d.cursor = top
  OBVIOUS
<1> HIDE DEF batch, top
<1>8. \A m : /\ Past(d, m) <=> Past(c, m)
             /\ Given(c, m) => Given(d, m)
             /\ m \in batch => Given(d, m)
  BY <1>1, <1>5 DEF Past, Given
<1>9. /\ c.active /\ c.process = NoRun /\ c.inFlight = 0 /\ ~c.run[r].sent
      /\ c.run[r].life = "none" /\ ~c.run[r].direct
  BY DEF Inv, Slot
<1>10. /\ d.run[r].phase = "prompted" /\ d.run[r].previous = past /\ d.run[r].query = texts
       /\ ~d.run[r].sent /\ d.run[r].life = "none" /\ ~d.run[r].direct
       /\ d.run[r].batch = {}
  BY <1>2, <1>9 DEF RunStates
<1>11. \A q \in Ongoing(c) : q = r
  BY DEF Inv, Alone, Ongoing
<1>12. /\ \A q \in Runs : q # r => d.run[q] = c.run[q] /\ d.run[q].phase \in {"free", "serving"}
                                   /\ d.run[q].life # "live"
       /\ Ongoing(d) = {r}
       /\ \A q \in Runs : ~Busy(c, q)
  <2>1. \A q \in Runs : q # r => /\ c.run[q].phase \in {"free", "serving"}
                                  /\ c.run[q].life # "live" /\ d.run[q] = c.run[q]
    BY <1>11 DEF Ongoing
  <2>2. \A q \in Runs : ~Busy(c, q)
    BY <2>1 DEF Busy
  <2>3. Ongoing(d) = {r}
    BY <1>10, <2>1, ZenonT(40) DEF Ongoing
  <2> QED
    BY <2>1, <2>2, <2>3
<1>13. \A q \in Runs : /\ Busy(d, q) <=> q = r
                       /\ d.run[q].phase # "fetched"
                       /\ d.run[q].phase \in {"fetched", "prompted"} => q = r
  BY <1>10, <1>12 DEF Busy
<1>14. \A m \in texts : m > past => Returns(d, r, m)
  BY <1>10, <1>13 DEF Returns
\* What the cursor passes: it was below, is in the batch, or needs nobody.
<1>15. ASSUME NEW m \in 1..top
       PROVE  m <= c.cursor \/ m \in batch \/ Past(c, m)
  BY <1>6 DEF Inv, Fetched, batch
<1>16. top <= c.cursor => c.cursor \in c.commands
  BY <1>6 DEF Inv, Fetched, batch
<1>17. past = c.cursor \/ (past \in c.commands /\ \A m \in Nat : m <= past => Past(c, m))
  BY <1>3, <1>4 DEF Past
<1>18. ASSUME NEW m \in texts
       PROVE  (\E k \in c.commands : k > m) \/ Returns(d, r, m)
  <2>1. m \in Nat /\ m >= 1 /\ m <= top /\ m \notin c.commands
    BY <1>5, MaxOf DEF Messages, top
  <2>2. CASE m > past
    BY <1>14, <2>2
  <2>3. CASE m <= past /\ past \in c.commands
    BY <1>4, <2>1, <2>3
  <2>4. CASE m <= past /\ past = c.cursor
    <3>1. m \in c.run[r].batch /\ m <= c.cursor
      BY <1>5, <2>4 DEF batch
    <3>2. c.cursor \in c.commands
      BY <3>1 DEF Inv, Fetched
    <3> QED
      BY <1>2, <2>1, <3>1, <3>2
  <2> QED
    BY <1>3, <1>4, <2>1, <2>2, <2>3, <2>4
<1>19. \A m \in batch : Past(c, m) \/ Returns(d, r, m)
  BY <1>5, <1>18 DEF Past
<1>20. Stored(d)
  <2>1. \A q \in Runs : /\ d.run[q].previous <= d.stored
                         /\ \A m \in d.run[q].batch : m <= d.stored
    <3>1. ASSUME NEW q \in Runs, q # r
          PROVE  /\ d.run[q].previous <= d.stored
                 /\ \A m \in d.run[q].batch : m <= d.stored
      <4>1. d.run[q] = c.run[q] /\ d.stored = c.stored
        BY <1>1, <1>12, <3>1
      <4> QED
        BY <4>1 DEF Inv, Stored
    <3>2. /\ d.run[r].previous <= d.stored
          /\ \A m \in d.run[r].batch : m <= d.stored
      BY <1>1, <1>4, <1>10
    <3> QED
      BY <3>1, <3>2
  <2>2. \A m \in c.run[r].batch : m <= c.stored
    BY DEF Inv, Stored
  <2>3. \A m \in d.prompted : m <= d.stored
    BY <1>1, <1>5, <2>2 DEF Inv, Stored, batch
  <2> QED
    BY <1>1, <1>6, <1>7, <2>1, <2>3 DEF Inv, Stored
<1>21. Alone(d)
  BY <1>1, <1>9, <1>12 DEF Alone
<1>22. Slot(d)
  BY <1>1, <1>9, <1>10, <1>12, <1>13, ZenonT(40) DEF Inv, Slot
<1>23. Below(d)
  BY <1>6, <1>7, <1>8, <1>15 DEF Inv, Below, Given
<1>24. \A m \in 1..past : m > top => Past(c, m)
  BY <1>2, <1>4, <1>6, <1>16, <1>17 DEF Past
<1>25. BelowPrevious(d)
  <2>1. \A m \in 1..past : Given(d, m)
    BY <1>4, <1>8, <1>17 DEF Inv, Below, Given
  <2> QED
    BY <1>7, <1>8, <1>10, <1>13, <1>24, <2>1 DEF BelowPrevious
<1>26. BelowInFlight(d)
  BY <1>1, <1>9 DEF BelowInFlight
<1>27. HeldBatch(d)
  BY <1>1, <1>8 DEF Inv, HeldBatch
<1>28. HeldSafe(d)
  <2> SUFFICES ASSUME c.held # {} PROVE HeldSafe(d)
    BY <1>1 DEF HeldSafe
  <2>1. ASSUME NEW m \in 1..c.before PROVE Given(d, m)
    <3>1. m <= c.cursor \/ m \in batch \/ Past(c, m)
      BY DEF Inv, HeldSafe, batch
    <3> QED
      BY <1>2, <1>8, <3>1 DEF Inv, Below, Given
  <2>2. ASSUME NEW m \in 1..c.cursor, m > c.before PROVE Past(c, m)
    BY <1>12, <2>2 DEF Inv, HeldSafe, Returns
  <2>3. \A m \in 1..past : m > c.before => Past(c, m)
    BY <1>4, <1>17, <2>2
  <2>4. \A m \in 1..top : m > c.before => Past(c, m) \/ Returns(d, r, m)
    BY <1>2, <1>6, <1>15, <1>19, <2>2
  <2> QED
    BY <1>1, <1>7, <1>8, <1>10, <1>13, <2>1, <2>3, <2>4 DEF HeldSafe
<1>29. Fetched(d)
  BY <1>13 DEF Fetched
<1>30. SeenSafe(d)
  <2>1. ASSUME NEW m \in 1..c.cursor, m > c.seen PROVE Past(c, m)
    BY <1>12, <2>1 DEF Inv, SeenSafe, Returns
  <2>2. \A m \in 1..past : m > c.seen => Past(c, m)
    BY <1>4, <1>17, <2>1
  <2>3. \A m \in 1..top : m > c.seen => Past(c, m) \/ Returns(d, r, m)
    BY <1>2, <1>6, <1>15, <1>19, <2>1
  <2> QED
    BY <1>1, <1>7, <1>8, <1>10, <1>13, <2>2, <2>3 DEF SeenSafe
<1>31. Prompts(d)
  BY <1>1, <1>12, <1>18 DEF Inv, Prompts, Returns
<1> QED
  BY <1>1, <1>20, <1>21, <1>22, <1>23, <1>25, <1>26, <1>27, <1>28, <1>29, <1>30, <1>31
     DEF Inv

(* Action Prompt keeps the invariant.                                      *)
LEMMA PromptKeeps ==
  ASSUME chat \in ChatStates, NEW r \in Runs, Prompt(r)
  PROVE  chat' \in ChatStates /\ (Guarded(chat) => Guarded(chat'))
<1> DEFINE batch == chat.run[r].batch
           texts == Texts(chat, batch)
           past == PastCommands(chat, batch)
           moved == [chat EXCEPT !.cursor = past]
           x == [chat.run[r] EXCEPT !.phase = "prompted", !.batch = {},
                                    !.previous = past, !.query = texts]
           run == [chat.run EXCEPT ![r] = x]
           top == Max(texts)
           asked == chat.prompted \cup texts
           given == chat.handed \cup texts
           prompted == [chat EXCEPT !.cursor = top, !.run = run,
                                    !.prompted = asked, !.handed = given]
           d == IF texts = {} THEN Finish(moved, r, TRUE)
                ELSE Hand([chat EXCEPT !.cursor = Max(texts),
                                    !.run[r] =
                                      [@ EXCEPT !.phase = "prompted", !.batch = {},
                                                !.previous = past, !.query = texts],
                                    !.prompted = @ \cup texts],
                          texts)
<1>1. Step(d) /\ chat.run[r].phase = "fetched"
  BY DEF Prompt
<1>2. /\ batch \in SUBSET Messages /\ chat.run[r] \in RunStates
      /\ chat.run \in [Runs -> RunStates]
      /\ chat.prompted \in SUBSET Messages /\ chat.handed \in SUBSET Messages
  BY DEF ChatStates, RunStates
<1>3. past \in Cursors
  BY <1>2, PastIs
<1>4. texts \in SUBSET Messages
  BY <1>2 DEF Texts
<1>5. CASE texts = {}
  <2>1. d = Finish(moved, r, TRUE)
    BY <1>5
  <2> HIDE DEF d
  <2>2. /\ moved \in ChatStates /\ Frame(chat, moved, {"cursor"})
        /\ moved.cursor = past
    BY <1>3 DEF ChatStates, Frame
  <2> HIDE DEF moved
  <2>3. Inv(chat) => Inv(moved)
    BY <1>1, <1>5, <2>2, MovedKeeps
  <2>4. Same(chat, moved) /\ moved.run = chat.run
    BY <2>2 DEF ChatStates, Frame, Same
  <2>5. Unneeded(moved, r) /\ r \in Ongoing(moved)
    BY <1>1, <2>4 DEF Unneeded, Returns, Busy, Ongoing
  <2>6. /\ d \in ChatStates /\ Same(moved, d)
        /\ Inv(moved) /\ Unneeded(moved, r) /\ r \in Ongoing(moved) => Inv(d)
    BY <2>1, <2>2, FinishKeeps
  <2> QED
    BY <1>1, <2>3, <2>4, <2>5, <2>6, StepKeeps DEF Same
<1>6. CASE texts # {}
  <2>1. d = prompted
    BY <1>6, <1>2 DEF Hand, ChatStates
  <2> HIDE DEF d
  <2>2. top \in Cursors
    BY <1>4, <1>6, MaxOf DEF Messages, Cursors
  <2>3. x \in RunStates
    BY <1>2, <1>3, <1>4 DEF RunStates
  <2>4. x = [chat.run[r] EXCEPT !.phase = "prompted", !.batch = {},
                                !.previous = past, !.query = texts]
    OBVIOUS
  <2>5. asked \in SUBSET Messages /\ given \in SUBSET Messages
    BY <1>2, <1>4
  <2> HIDE DEF x
  <2>6. /\ run \in [Runs -> RunStates] /\ run[r] = x
        /\ \A q \in Runs \ {r} : run[q] = chat.run[q]
    BY <1>2, <2>3
  <2>7. asked = chat.prompted \cup texts /\ given = chat.handed \cup texts /\ top = Max(texts)
    OBVIOUS
  <2> HIDE DEF run, asked, given, top, past, texts, batch
  <2>8. prompted \in ChatStates
    BY <2>2, <2>5, <2>6 DEF ChatStates
  <2>9. /\ Frame(chat, prompted, {"cursor", "run", "handed", "prompted"})
        /\ prompted.cursor = top /\ prompted.run = run
        /\ prompted.handed = given /\ prompted.prompted = asked
    BY DEF ChatStates, Frame
  <2> HIDE DEF prompted
  <2>10. Same(chat, prompted)
    BY <2>9 DEF ChatStates, Frame, Same
  <2>11. Inv(chat) => Inv(prompted)
    <3>1. texts = Texts(chat, chat.run[r].batch) /\ past = PastCommands(chat, chat.run[r].batch)
      BY DEF texts, past, batch
    <3>2. \A q \in Runs \ {r} : prompted.run[q] = chat.run[q]
      BY <2>6, <2>9
    <3>3. Prompting(chat, prompted, r, texts, past)
      BY <1>1, <1>6, <2>4, <2>6, <2>7, <2>9, <3>1, <3>2 DEF Prompting, batch
    <3> QED
      BY <2>8, <3>3, PromptedKeeps
  <2> QED
    BY <1>1, <2>1, <2>8, <2>10, <2>11, StepKeeps
<1> QED
  BY <1>5, <1>6

Spawning(c, d, r) ==
  /\ c.run[r].phase = "prompted" /\ Frame(c, d, {"run", "process"}) /\ d.process = r
  /\ \A q \in Runs \ {r} : d.run[q] = c.run[q]
  /\ d.run[r] = [c.run[r] EXCEPT !.phase = "query", !.life = "live"]

LEMMA SpawnedKeeps ==
  ASSUME NEW c \in ChatStates, NEW d \in ChatStates, Inv(c), NEW r \in Runs,
         Spawning(c, d, r)
  PROVE  Inv(d)
<1>0. c.run[r].phase = "prompted" /\ d.process = r
  BY DEF Spawning
<1>1. /\ d.world = c.world /\ d.stored = c.stored /\ d.commands = c.commands
      /\ d.cursor = c.cursor /\ d.held = c.held /\ d.before = c.before
      /\ d.restarts = c.restarts /\ d.handed = c.handed /\ d.prompted = c.prompted
      /\ d.seen = c.seen /\ d.answered = c.answered
      /\ d.active = c.active /\ d.idle = c.idle /\ d.inFlight = c.inFlight
  BY DEF Frame, ChatStates, Spawning
<1>2. /\ c.active /\ c.process = NoRun /\ c.inFlight = 0 /\ ~c.run[r].sent
      /\ c.run[r].life = "none" /\ ~c.run[r].direct
      /\ c.run[r].query # {}
  BY <1>0 DEF Inv, Slot, Busy
<1>3. /\ d.run[r].phase = "query" /\ d.run[r].life = "live"
      /\ d.run[r].previous = c.run[r].previous /\ d.run[r].query = c.run[r].query
      /\ d.run[r].sent = c.run[r].sent /\ d.run[r].direct = c.run[r].direct
      /\ d.run[r].batch = c.run[r].batch
  BY DEF ChatStates, RunStates, Spawning
<1>4. \A q \in Runs : q # r => /\ c.run[q].phase \in {"free", "serving"}
                               /\ c.run[q].life # "live" /\ d.run[q] = c.run[q]
  BY DEF Inv, Alone, Ongoing, Spawning
<1>5. Ongoing(d) = {r}
  BY <1>3, <1>4 DEF Ongoing
<1>6. \A q \in Runs : /\ Busy(d, q) <=> Busy(c, q)
                      /\ Busy(d, q) <=> q = r
                      /\ d.run[q].phase \notin {"fetched", "prompted"}
                      /\ d.run[q].previous = c.run[q].previous
                      /\ d.run[q].batch = c.run[q].batch
  BY <1>0, <1>3, <1>4 DEF Busy
<1>7. \A m : \A q \in Runs : Returns(d, q, m) <=> Returns(c, q, m)
  BY <1>2, <1>3, <1>4, <1>6 DEF Returns
<1>8. \A m : (Past(d, m) <=> Past(c, m)) /\ (Given(d, m) <=> Given(c, m))
  BY <1>1 DEF Past, Given
<1>9. Stored(d) /\ Alone(d)
  BY <1>0, <1>1, <1>5, <1>6 DEF Inv, Stored, Alone
<1>10. Slot(d)
  <2>1. ASSUME NEW q \in Runs
        PROVE  /\ ~d.run[q].direct
               /\ Busy(d, q) /\ d.run[q].life \in {"none", "live"} => d.run[q].query # {}
    <3>1. CASE q = r
      BY <1>2, <1>3, <3>1
    <3>2. CASE q # r
      BY <1>4, <1>6, <3>2 DEF Inv, Slot
    <3> QED
      BY <3>1, <3>2
  <2> QED
    BY <1>0, <1>1, <1>2, <1>3, <1>6, <2>1 DEF Slot
<1>11. Below(d) /\ BelowPrevious(d) /\ BelowInFlight(d)
  BY <1>1, <1>2, <1>6, <1>8 DEF Inv, Below, BelowPrevious, BelowInFlight
<1>12. HeldBatch(d)
  BY <1>1, <1>8 DEF Inv, HeldBatch
<1>13. HeldSafe(d)
  BY <1>0, <1>1, <1>6, <1>7, <1>8 DEF Inv, HeldSafe
<1>14. Fetched(d) /\ SeenSafe(d) /\ Prompts(d)
  BY <1>1, <1>6, <1>7, <1>8 DEF Inv, Fetched, SeenSafe, Prompts
<1> QED
  BY <1>1, <1>9, <1>10, <1>11, <1>12, <1>13, <1>14 DEF Inv

(* The agent of a run is registered.                                       *)
LEMMA SpawnKeeps ==
  ASSUME chat \in ChatStates, NEW r \in Runs, Spawn(r)
  PROVE  chat' \in ChatStates /\ (Guarded(chat) => Guarded(chat'))
<1> DEFINE x == [chat.run[r] EXCEPT !.phase = "query", !.life = "live"]
           run == [chat.run EXCEPT ![r] = x]
           d == [chat EXCEPT !.run = run, !.process = r]
<1>1. Step(d) /\ chat.run[r].phase = "prompted"
  BY DEF Spawn
<1>20. chat.run \in [Runs -> RunStates] /\ chat.run[r] \in RunStates
  BY DEF ChatStates
<1>2. chat.run \in [Runs -> RunStates] /\ x \in RunStates
  BY <1>20 DEF RunStates
<1>3. run \in [Runs -> RunStates] /\ run[r] = x /\ \A q \in Runs \ {r} : run[q] = chat.run[q]
  BY <1>2
<1>4. x = [chat.run[r] EXCEPT !.phase = "query", !.life = "live"]
  OBVIOUS
<1> HIDE DEF x, run
<1>5. d \in ChatStates
  BY <1>3 DEF ChatStates
<1>6. Frame(chat, d, {"run", "process"}) /\ d.process = r /\ d.run = run
  BY DEF ChatStates, Frame
<1> HIDE DEF d
<1>7. Same(chat, d)
  BY <1>6 DEF ChatStates, Frame, Same
<1>8. Inv(chat) => Inv(d)
  <2>1. Spawning(chat, d, r)
    BY <1>1, <1>3, <1>4, <1>6 DEF Spawning
  <2> QED
    BY <1>5, <2>1, SpawnedKeeps
<1> QED
  BY <1>1, <1>5, <1>7, <1>8, StepKeeps

(* A live agent works: what a run would roll back it still works on, or    *)
(* has answered.                                                           *)
Working(c, d, r) ==
  /\ c.run[r].life = "live"
  /\ Frame(c, d, {"run", "answered", "piped", "hasOutput", "inFlight", "idle", "inbox"})
  /\ c.answered \subseteq d.answered
  /\ d.inFlight \in {0, c.inFlight}
  /\ \A q \in Runs \ {r} : d.run[q] = c.run[q]
  /\ d.run[r].life = "live" /\ d.run[r].previous = c.run[r].previous
  /\ d.run[r].batch = c.run[r].batch /\ d.run[r].direct = c.run[r].direct
  /\ \/ d.run[r].phase = c.run[r].phase
     \/ c.run[r].phase = "query" /\ d.run[r].phase = "returned"
  /\ Busy(d, r) => d.run[r].query = c.run[r].query
  /\ \A m : Returns(c, r, m) => Returns(d, r, m) \/ m \in d.answered

LEMMA WorkKeeps ==
  ASSUME NEW c \in ChatStates, NEW d \in ChatStates, Inv(c), NEW r \in Runs, Working(c, d, r)
  PROVE  Inv(d)
<1>1. /\ d.world = c.world /\ d.stored = c.stored /\ d.commands = c.commands
      /\ d.cursor = c.cursor /\ d.held = c.held /\ d.before = c.before
      /\ d.restarts = c.restarts /\ d.handed = c.handed /\ d.prompted = c.prompted
      /\ d.seen = c.seen /\ d.active = c.active /\ d.process = c.process
  BY DEF Frame, ChatStates, Working
<1>2. c.answered \subseteq d.answered /\ d.inFlight \in {0, c.inFlight}
  BY DEF Working
<1>3. /\ d.run[r].life = "live" /\ c.run[r].life = "live"
      /\ d.run[r].previous = c.run[r].previous
      /\ d.run[r].batch = c.run[r].batch /\ d.run[r].direct = c.run[r].direct
      /\ d.run[r].phase \in {c.run[r].phase, "returned"}
      /\ Busy(d, r) => Busy(c, r) /\ d.run[r].query = c.run[r].query
  BY DEF Working, Busy
<1>4. \A q \in Runs : q # r => /\ c.run[q].phase \in {"free", "serving"}
                               /\ c.run[q].life # "live" /\ d.run[q] = c.run[q]
  BY DEF Inv, Alone, Ongoing, Working
<1>5. c.run[r].phase \notin {"fetched", "prompted"}
  BY <1>3 DEF Inv, Slot
<1>6. Ongoing(d) = {r}
  BY <1>3, <1>4 DEF Ongoing
<1>7. \A q \in Runs : /\ Busy(d, q) => Busy(c, q)
                      /\ d.run[q].phase \notin {"fetched", "prompted"}
                      /\ d.run[q].previous = c.run[q].previous
                      /\ d.run[q].batch = c.run[q].batch
                      /\ d.run[q].life = c.run[q].life
  BY <1>3, <1>4, <1>5 DEF Busy
<1>8. \A m : \A q \in Runs : Returns(c, q, m) => Returns(d, q, m) \/ m \in d.answered
  <2>1. \A m : Returns(c, r, m) => Returns(d, r, m) \/ m \in d.answered
    BY DEF Working
  <2>2. \A m : \A q \in Runs : q # r => ~Returns(c, q, m)
    BY <1>4 DEF Returns, Busy
  <2> QED
    BY <2>1, <2>2
<1>9. \A m : (Past(c, m) => Past(d, m)) /\ (Given(c, m) => Given(d, m))
  BY <1>1, <1>2 DEF Past, Given
<1>10. \A m : m \in d.answered => Past(d, m)
  BY DEF Past
<1>11. Stored(d)
  <2>1. 0 <= c.stored
    BY ChatAssumption DEF ChatStates, Cursors
  <2> QED
    BY <1>1, <1>2, <1>7, <2>1 DEF Inv, Stored
<1>12. Alone(d)
  <2>1. c.process # NoRun => c.process = r
    BY <1>3 DEF Inv, Alone, Ongoing
  <2> QED
    BY <1>1, <1>6, <2>1 DEF Alone
<1>13. Slot(d)
  <2>1. d.process # NoRun => d.process = r
    BY <1>1, <1>6, <1>12 DEF Alone
  <2>2. ASSUME NEW q \in Runs
        PROVE  /\ ~d.run[q].direct
               /\ Busy(d, q) /\ d.run[q].life \in {"none", "live"} => d.run[q].query # {}
    <3>1. CASE q = r
      BY <1>3, <3>1 DEF Inv, Slot
    <3>2. CASE q # r
      BY <1>4, <1>7, <3>2 DEF Inv, Slot
    <3> QED
      BY <3>1, <3>2
  <2>3. ~d.active => d.process = NoRun
    BY <1>1 DEF Inv, Slot
  <2> QED
    BY <1>3, <1>7, <2>1, <2>2, <2>3 DEF Slot
<1>14. Below(d) /\ BelowPrevious(d)
  BY <1>1, <1>7, <1>9 DEF Inv, Below, BelowPrevious
<1>15. BelowInFlight(d)
  <2> SUFFICES ASSUME NEW q \in Runs, d.inFlight # 0, d.run[q].life = "live"
               PROVE  /\ \A m \in 1..d.inFlight : Given(d, m)
                      /\ Busy(d, q) =>
                           \A m \in 1..d.run[q].previous : m > d.inFlight => Past(d, m)
                      /\ \A m \in 1..d.inFlight : m > d.cursor => Past(d, m)
                      /\ d.cursor <= d.seen
                      /\ d.held # {} => d.before = d.cursor
    BY DEF BelowInFlight
  <2>1. d.inFlight = c.inFlight /\ c.run[q].life = "live"
    BY <1>2, <1>7
  <2> QED
    BY <1>1, <1>7, <1>9, <2>1 DEF Inv, BelowInFlight
<1>16. HeldBatch(d)
  BY <1>1, <1>9 DEF Inv, HeldBatch
<1>17. HeldSafe(d)
  BY <1>1, <1>7, <1>8, <1>9, <1>10 DEF Inv, HeldSafe
<1>18. Fetched(d) /\ SeenSafe(d)
  BY <1>1, <1>7, <1>8, <1>9, <1>10 DEF Inv, Fetched, SeenSafe
<1>19. Prompts(d)
  BY <1>1, <1>2, <1>8 DEF Inv, Prompts
<1> QED
  BY <1>1, <1>11, <1>12, <1>13, <1>14, <1>15, <1>16, <1>17, <1>18, <1>19 DEF Inv

(* Action ReadInbox keeps the invariant.                                   *)
LEMMA ReadInboxKeeps ==
  ASSUME chat \in ChatStates, NEW r \in Runs, ReadInbox(r)
  PROVE  chat' \in ChatStates /\ (Guarded(chat) => Guarded(chat'))
<1> DEFINE x == [chat.run[r] EXCEPT !.queued = @ \cup chat.inbox]
           run == [chat.run EXCEPT ![r] = x]
           d == [chat EXCEPT !.run = run, !.inbox = {}]
<1>1. chat.run[r].life = "live"
  BY DEF ReadInbox
<1>2. chat.run \in [Runs -> RunStates] /\ chat.run[r] \in RunStates /\ chat.inbox \in SUBSET Messages
  BY DEF ChatStates
<1>3. Step(d)
  BY DEF ReadInbox
<1>4. /\ x \in RunStates
      /\ x.life = chat.run[r].life /\ x.previous = chat.run[r].previous
      /\ x.batch = chat.run[r].batch /\ x.direct = chat.run[r].direct
      /\ x.phase = chat.run[r].phase /\ x.query = chat.run[r].query
      /\ x.sent = chat.run[r].sent
  BY <1>2 DEF RunStates
<1> HIDE DEF x
<1>5. run \in [Runs -> RunStates] /\ run[r] = x /\ \A q \in Runs \ {r} : run[q] = chat.run[q]
  BY <1>2, <1>4
<1> HIDE DEF run
<1>6. d \in ChatStates
  BY <1>5 DEF ChatStates
<1>7. /\ Frame(chat, d, {"run", "answered", "piped", "hasOutput", "inFlight", "idle", "inbox"})
      /\ d.run = run /\ d.answered = chat.answered /\ d.inFlight = chat.inFlight
      /\ Same(chat, d)
  BY DEF ChatStates, Frame, Same
<1> HIDE DEF d
<1>8. Working(chat, d, r)
  BY <1>1, <1>4, <1>5, <1>7 DEF Working, Returns, Busy
<1> QED
  BY <1>3, <1>6, <1>7, <1>8, WorkKeeps, StepKeeps

(* Action Output keeps the invariant.                                      *)
LEMMA OutputKeeps ==
  ASSUME chat \in ChatStates, NEW r \in Runs, NEW final \in BOOLEAN, Output(r, final)
  PROVE  chat' \in ChatStates /\ (Guarded(chat) => Guarded(chat'))
<1> DEFINE now == chat.run[r].sent \/ (final /\ chat.run[r].phase = "query")
           x == [chat.run[r] EXCEPT !.sent = now]
           run == [chat.run EXCEPT ![r] = x]
           answered == IF final THEN chat.answered \cup chat.run[r].query ELSE chat.answered
           d == [chat EXCEPT !.piped = FALSE, !.hasOutput = TRUE, !.inFlight = 0,
                             !.idle = TRUE, !.run = run, !.answered = answered]
<1>1. chat.run[r].life = "live"
  BY DEF Output
<1>2. /\ chat.run \in [Runs -> RunStates] /\ chat.run[r] \in RunStates
      /\ chat.answered \in SUBSET Messages /\ chat.run[r].query \in SUBSET Messages
      /\ 0 \in Cursors
  BY ChatAssumption DEF ChatStates, RunStates, Cursors
<1>3. Step(d)
  BY DEF Output
<1>4. /\ x \in RunStates
      /\ x.life = chat.run[r].life /\ x.previous = chat.run[r].previous
      /\ x.batch = chat.run[r].batch /\ x.direct = chat.run[r].direct
      /\ x.phase = chat.run[r].phase /\ x.query = chat.run[r].query
      /\ x.sent => chat.run[r].sent \/ final
  BY <1>2 DEF RunStates
<1>5. /\ answered \in SUBSET Messages /\ chat.answered \subseteq answered
      /\ final => chat.run[r].query \subseteq answered
  BY <1>2
<1> HIDE DEF x, answered
<1>6. run \in [Runs -> RunStates] /\ run[r] = x /\ \A q \in Runs \ {r} : run[q] = chat.run[q]
  BY <1>2, <1>4
<1> HIDE DEF run
<1>7. d \in ChatStates
  BY <1>2, <1>5, <1>6 DEF ChatStates
<1>8. /\ Frame(chat, d, {"run", "answered", "piped", "hasOutput", "inFlight", "idle", "inbox"})
      /\ d.run = run /\ d.answered = answered /\ d.inFlight = 0
      /\ Same(chat, d)
  BY DEF ChatStates, Frame, Same
<1> HIDE DEF d
<1>9. ASSUME NEW m, Returns(chat, r, m) PROVE Returns(d, r, m) \/ m \in d.answered
  <2>1. m \in chat.run[r].query
    BY <1>1, <1>9 DEF Returns
  <2>2. CASE final
    BY <1>5, <1>8, <2>1, <2>2
  <2>3. CASE ~final
    BY <1>4, <1>6, <1>8, <1>9, <2>3 DEF Returns, Busy
  <2> QED
    BY <2>2, <2>3
<1>10. Working(chat, d, r)
  BY <1>1, <1>4, <1>5, <1>6, <1>8, <1>9 DEF Working
<1> QED
  BY <1>3, <1>7, <1>8, <1>10, WorkKeeps, StepKeeps

(* Action QueryComplete keeps the invariant.                               *)
LEMMA QueryCompleteKeeps ==
  ASSUME chat \in ChatStates, NEW r \in Runs, QueryComplete(r)
  PROVE  chat' \in ChatStates /\ (Guarded(chat) => Guarded(chat'))
<1> DEFINE phase == IF chat.run[r].phase = "query" THEN "returned" ELSE chat.run[r].phase
           x == [chat.run[r] EXCEPT !.query = {}, !.phase = phase]
           run == [chat.run EXCEPT ![r] = x]
           answered == chat.answered \cup chat.run[r].query
           d == [chat EXCEPT !.idle = TRUE, !.run = run, !.answered = answered]
<1>1. chat.run[r].life = "live"
  BY DEF QueryComplete
<1>2. /\ chat.run \in [Runs -> RunStates] /\ chat.run[r] \in RunStates
      /\ chat.answered \in SUBSET Messages /\ chat.run[r].query \in SUBSET Messages
  BY DEF ChatStates, RunStates
<1>3. Step(d)
  BY DEF QueryComplete
<1>4. /\ x \in RunStates
      /\ x.life = chat.run[r].life /\ x.previous = chat.run[r].previous
      /\ x.batch = chat.run[r].batch /\ x.direct = chat.run[r].direct
      /\ x.phase = IF chat.run[r].phase = "query" THEN "returned" ELSE chat.run[r].phase
  BY <1>2 DEF RunStates
<1>5. answered \in SUBSET Messages
  BY <1>2
<1> HIDE DEF x
<1>6. run \in [Runs -> RunStates] /\ run[r] = x /\ \A q \in Runs \ {r} : run[q] = chat.run[q]
  BY <1>2, <1>4
<1> HIDE DEF run
<1>7. d \in ChatStates
  BY <1>5, <1>6 DEF ChatStates
<1>8. /\ Frame(chat, d, {"run", "answered", "piped", "hasOutput", "inFlight", "idle", "inbox"})
      /\ d.run = run /\ d.answered = answered /\ d.inFlight = chat.inFlight
      /\ Same(chat, d)
  BY DEF ChatStates, Frame, Same
<1> HIDE DEF d
<1>9. ASSUME Inv(chat) PROVE Working(chat, d, r)
  <2>1. chat.run[r].phase # "prompted"
    BY <1>1, <1>9 DEF Inv, Slot
  <2>2. ~Busy(d, r)
    BY <1>4, <1>6, <1>8, <2>1 DEF Busy
  <2>3. \A m : Returns(chat, r, m) => m \in d.answered
    BY <1>1, <1>8 DEF Returns
  <2> QED
    BY <1>1, <1>4, <1>6, <1>8, <2>2, <2>3 DEF Working
<1>10. Inv(chat) => Inv(d)
  BY <1>7, <1>9, WorkKeeps
<1> QED
  BY <1>3, <1>7, <1>8, <1>10, StepKeeps

(* Action NextQuery keeps the invariant.                                   *)
LEMMA NextQueryKeeps ==
  ASSUME chat \in ChatStates, NEW r \in Runs, NextQuery(r)
  PROVE  chat' \in ChatStates /\ (Guarded(chat) => Guarded(chat'))
<1> DEFINE x == [chat.run[r] EXCEPT !.query = chat.run[r].queued, !.queued = {}]
           run == [chat.run EXCEPT ![r] = x]
           d == [chat EXCEPT !.run = run]
<1>1. chat.run[r].life = "live" /\ chat.run[r].query = {}
  BY DEF NextQuery
<1>2. /\ chat.run \in [Runs -> RunStates] /\ chat.run[r] \in RunStates
  BY DEF ChatStates
<1>3. Step(d)
  BY DEF NextQuery
<1>4. /\ x \in RunStates
      /\ x.life = chat.run[r].life /\ x.previous = chat.run[r].previous
      /\ x.batch = chat.run[r].batch /\ x.direct = chat.run[r].direct
      /\ x.phase = chat.run[r].phase
  BY <1>2 DEF RunStates
<1> HIDE DEF x
<1>6. run \in [Runs -> RunStates] /\ run[r] = x /\ \A q \in Runs \ {r} : run[q] = chat.run[q]
  BY <1>2, <1>4
<1> HIDE DEF run
<1>7. d \in ChatStates
  BY <1>6 DEF ChatStates
<1>8. /\ Frame(chat, d, {"run", "answered", "piped", "hasOutput", "inFlight", "idle", "inbox"})
      /\ d.run = run /\ d.answered = chat.answered /\ d.inFlight = chat.inFlight
      /\ Same(chat, d)
  BY DEF ChatStates, Frame, Same
<1> HIDE DEF d
<1>9. ASSUME Inv(chat) PROVE Working(chat, d, r)
  <2>1. ~Busy(chat, r)
    BY <1>1, <1>9 DEF Inv, Slot
  <2>2. ~Busy(d, r) /\ \A m : ~Returns(chat, r, m)
    BY <1>4, <1>6, <1>8, <2>1 DEF Busy, Returns
  <2> QED
    BY <1>1, <1>4, <1>6, <1>8, <2>2 DEF Working
<1>10. Inv(chat) => Inv(d)
  BY <1>7, <1>9, WorkKeeps
<1> QED
  BY <1>3, <1>7, <1>8, <1>10, StepKeeps

(* Action Return keeps the invariant.                                      *)
LEMMA ReturnKeeps ==
  ASSUME chat \in ChatStates, NEW r \in Runs, Return(r)
  PROVE  chat' \in ChatStates /\ (Guarded(chat) => Guarded(chat'))
<1> DEFINE d == Finish(chat, r, TRUE)
<1>1. Step(d) /\ chat.run[r].phase = "returned"
  BY DEF Return
<1>2. Unneeded(chat, r) /\ r \in Ongoing(chat)
  BY <1>1 DEF Unneeded, Returns, Busy, Ongoing
<1>3. /\ d \in ChatStates /\ Same(chat, d)
      /\ Inv(chat) /\ Unneeded(chat, r) /\ r \in Ongoing(chat) => Inv(d)
  BY FinishKeeps
<1> HIDE DEF d
<1> QED
  BY <1>1, <1>2, <1>3, StepKeeps

(* Action RetryTimer keeps the invariant.                                  *)
LEMMA RetryTimerKeeps ==
  ASSUME chat \in ChatStates, RetryTimer
  PROVE  chat' \in ChatStates /\ (Guarded(chat) => Guarded(chat'))
<1> DEFINE c == [chat EXCEPT !.timers = @ - 1]
           d == EnqueueMessageCheck(c)
<1>1. Step(d) /\ chat.timers > 0
  BY DEF RetryTimer
<1>2. chat.timers \in Nat /\ chat.timers - 1 \in Nat
  BY <1>1 DEF ChatStates
<1>3. c \in ChatStates /\ Frame(chat, c, {"timers"})
  BY <1>2 DEF ChatStates, Frame
<1> HIDE DEF c
<1>4. /\ Frame(chat, c, {"pending", "piped", "hasOutput", "retries", "timers",
                         "deaths", "runless", "active", "idle", "inFlight"})
      /\ c.idle = chat.idle /\ c.active = chat.active /\ c.inFlight = chat.inFlight
      /\ Same(chat, c)
  BY <1>3 DEF ChatStates, Frame, Same
<1>5. Inv(chat) => Inv(c)
  BY <1>3, <1>4, QuietKeeps
<1>6. d \in ChatStates /\ Same(c, d) /\ (Inv(c) => Inv(d))
  BY <1>3, EnqueueKeeps
<1> HIDE DEF d
<1> QED
  BY <1>1, <1>4, <1>5, <1>6, StepKeeps DEF Same

(* Action Restart keeps the invariant.                                     *)
LEMMA RestartKeeps ==
  ASSUME chat \in ChatStates, Restart
  PROVE  chat' \in ChatStates /\ (Guarded(chat) => Guarded(chat'))
<1> DEFINE run == [r \in Runs |-> Unused]
           n == chat.restarts + 1
           c == [chat EXCEPT
                 !.restarts = n, !.held = {}, !.before = 0,
                 !.active = FALSE, !.idle = FALSE, !.pending = FALSE,
                 !.piped = FALSE, !.hasOutput = FALSE, !.inFlight = 0,
                 !.process = NoRun, !.retries = 0, !.timers = 0,
                 !.run = run]
           d == IF Since(c, c.cursor) # {} THEN EnqueueMessageCheck(c) ELSE c
<1>1. Step(d)
  BY DEF Restart
<1>2. /\ n \in Nat /\ n > 0 /\ 0 \in Cursors /\ 0 \in 0..MaxRetries
      /\ run \in [Runs -> RunStates]
  BY ChatAssumption, UnusedRun DEF ChatStates, Cursors
<1> HIDE DEF run, n
<1>3. c \in ChatStates /\ c.restarts = n
  BY <1>2, ZenonT(40) DEF ChatStates
<1> HIDE DEF c
<1>4. d \in ChatStates /\ Same(c, d)
  BY <1>3, EnqueueKeeps DEF Same
<1> HIDE DEF d
<1>5. ~Inv(d) /\ d.restarts # 0
  BY <1>2, <1>3, <1>4 DEF Inv, Same
<1>6. chat' = Tidy(d)
  BY <1>1 DEF Step
<1>7. chat' \in ChatStates /\ Same(d, chat')
  BY <1>4, <1>6, TidyKeeps
<1> QED
  BY <1>5, <1>7 DEF Guarded, Same

(* What a roll-back changes.                                               *)
LEMMA RollBackIs ==
  ASSUME NEW c \in ChatStates, NEW k \in Cursors, NEW d, d = RollBack(c, k)
  PROVE  /\ d \in ChatStates /\ Frame(c, d, {"cursor", "handed", "prompted"})
         /\ d.cursor = k
         /\ \A m : m \in d.handed <=> m \in c.handed /\ m \notin Since(c, k)
         /\ \A m : m \in d.prompted <=> m \in c.prompted /\ m \notin Since(c, k)
<1> DEFINE handed == c.handed \ Since(c, k)
           prompted == c.prompted \ Since(c, k)
<1>1. handed \in SUBSET Messages /\ prompted \in SUBSET Messages
  BY DEF ChatStates
<1>2. d = [c EXCEPT !.cursor = k, !.handed = handed, !.prompted = prompted]
  BY DEF RollBack
<1>3. /\ \A m : m \in handed <=> m \in c.handed /\ m \notin Since(c, k)
      /\ \A m : m \in prompted <=> m \in c.prompted /\ m \notin Since(c, k)
  OBVIOUS
<1> HIDE DEF handed, prompted
<1>4. d \in ChatStates
  BY <1>1, <1>2, ZenonT(40) DEF ChatStates
<1>5. d.handed = handed /\ d.prompted = prompted /\ d.cursor = k
  BY <1>2 DEF ChatStates
<1>6. Frame(c, d, {"cursor", "handed", "prompted"})
  BY <1>2 DEF ChatStates, Frame
<1> QED
  BY <1>3, <1>4, <1>5, <1>6

(* A roll-back to k leaves what was handed up to k.                        *)
LEMMA SinceIs ==
  ASSUME NEW c \in ChatStates, NEW k \in Cursors
  PROVE  \A m \in Nat : m \in Since(c, k) => m > k
BY ChatAssumption DEF Since, ChatStates, Cursors

(* Run r fails: the cursor goes back, and the slot is free.                *)
Failing(c, d, r) ==
  /\ Busy(c, r) /\ ~c.run[r].sent /\ c.run[r].life # "live"
  /\ Frame(c, d, {"cursor", "handed", "prompted", "run", "active", "process",
                  "retries", "timers"})
  /\ d.cursor = c.run[r].previous
  /\ \A m : m \in d.handed <=> m \in c.handed /\ m \notin Since(c, c.run[r].previous)
  /\ \A m : m \in d.prompted <=> m \in c.prompted /\ m \notin Since(c, c.run[r].previous)
  /\ \A q \in Runs \ {r} : d.run[q] = c.run[q]
  /\ d.run[r].phase = "serving" /\ d.run[r].life # "live" /\ ~d.run[r].direct
  /\ d.run[r].previous = 0 /\ d.run[r].batch = {}
  /\ ~d.active /\ d.process = NoRun

LEMMA FailedKeeps ==
  ASSUME NEW c \in ChatStates, NEW d \in ChatStates, Inv(c), NEW r \in Runs, Failing(c, d, r)
  PROVE  Inv(d)
<1> DEFINE k == c.run[r].previous
<1>1. /\ d.world = c.world /\ d.stored = c.stored /\ d.commands = c.commands
      /\ d.held = c.held /\ d.before = c.before
      /\ d.restarts = c.restarts /\ d.seen = c.seen /\ d.answered = c.answered
      /\ d.idle = c.idle /\ d.inFlight = c.inFlight
  BY DEF Frame, ChatStates, Failing
<1>2. Busy(c, r) /\ d.cursor = k
  BY DEF Failing
<1>3. /\ c.stored \in Nat /\ c.before \in Nat /\ c.seen \in Nat
      /\ k \in Nat /\ k \in Cursors /\ k <= c.stored
  BY ChatAssumption DEF Inv, Stored, ChatStates, RunStates, Cursors
<1> HIDE DEF k
<1>4. \A q \in Runs : q # r => /\ c.run[q].phase \in {"free", "serving"}
                               /\ c.run[q].life # "live" /\ d.run[q] = c.run[q]
  BY <1>2 DEF Inv, Alone, Ongoing, Failing, Busy
<1>5. /\ d.run[r].phase = "serving" /\ d.run[r].life # "live" /\ ~d.run[r].direct
      /\ d.run[r].previous = 0 /\ d.run[r].batch = {}
      /\ ~d.active /\ d.process = NoRun
  BY DEF Failing
<1>6. \A q \in Runs : d.run[q].phase \in {"free", "serving"} /\ d.run[q].life # "live"
  BY <1>4, <1>5
<1>7. /\ Ongoing(d) = {}
      /\ \A q \in Runs : ~Busy(d, q) /\ d.run[q].phase \notin {"fetched", "prompted"}
  BY <1>6 DEF Ongoing, Busy
<1>8. \A m : Past(d, m) <=> Past(c, m)
  BY <1>1 DEF Past
<1>9. \A m \in Nat : m <= k /\ Given(c, m) => Given(d, m)
  <2>1. \A m \in Nat : m <= k => m \notin Since(c, k)
    BY <1>3, SinceIs
  <2>2. \A m : m \in d.handed <=> m \in c.handed /\ m \notin Since(c, k)
    BY DEF Failing, k
  <2> QED
    BY <1>8, <2>1, <2>2 DEF Given
<1>10. \A m \in d.prompted : m \in c.prompted /\ m <= k
  <2>1. \A m \in d.prompted : m \in c.prompted /\ m \notin Since(c, k)
    BY DEF Failing, k
  <2>2. \A m \in c.prompted : m \in Nat /\ m >= 1 /\ m <= c.stored
    BY DEF Inv, Stored, ChatStates, Messages
  <2>3. \A m \in Nat : m >= 1 /\ m <= c.stored /\ m > k => m \in Since(c, k)
    BY <1>3 DEF Since
  <2> QED
    BY <1>3, <2>1, <2>2, <2>3
<1>11. /\ \A m \in 1..k : Given(c, m)
       /\ \A m \in 1..k : m > c.before /\ c.held # {} => Past(c, m)
       /\ \A m \in 1..k : m > c.seen => Past(c, m)
  BY <1>2 DEF Inv, BelowPrevious, HeldSafe, SeenSafe, k
<1>12. Stored(d)
  <2>1. \A q \in Runs : /\ d.run[q].previous <= d.stored
                        /\ \A m \in d.run[q].batch : m <= d.stored
    <3>1. ASSUME NEW q \in Runs, q # r
          PROVE  /\ d.run[q].previous <= d.stored
                 /\ \A m \in d.run[q].batch : m <= d.stored
      <4>1. d.run[q] = c.run[q]
        BY <1>4, <3>1
      <4> QED
        BY <1>1, <4>1 DEF Inv, Stored
    <3> QED
      BY <1>1, <1>3, <1>5, <3>1
  <2> QED
    BY <1>1, <1>2, <1>3, <1>10, <2>1 DEF Inv, Stored
<1>13. Alone(d)
  BY <1>7 DEF Alone
<1>14. Slot(d)
  <2>1. \A q \in Runs : ~d.run[q].direct
    BY <1>4, <1>5 DEF Inv, Slot
  <2> QED
    BY <1>5, <1>7, <2>1 DEF Slot
<1>15. Below(d)
  BY <1>2, <1>3, <1>9, <1>11 DEF Below
<1>16. BelowPrevious(d) /\ BelowInFlight(d)
  BY <1>6, <1>7 DEF BelowPrevious, BelowInFlight
<1>17. HeldBatch(d)
  BY <1>1, <1>8 DEF Inv, HeldBatch
<1>18. HeldSafe(d)
  BY <1>1, <1>2, <1>5, <1>7, <1>8, <1>11 DEF HeldSafe
<1>19. Fetched(d) /\ SeenSafe(d)
  BY <1>1, <1>2, <1>7, <1>8, <1>11 DEF Fetched, SeenSafe
<1>20. Prompts(d)
  <2>1. ASSUME NEW m \in d.prompted
        PROVE  m \in c.answered \/ \E n \in c.commands : n > m
    <3>1. \A q \in Runs : ~Returns(c, q, m)
      <4>1. m \in Nat /\ m <= k
        BY <1>10, <2>1 DEF ChatStates, Messages
      <4>2. ~Returns(c, r, m)
        BY <1>3, <4>1 DEF Returns, k
      <4> QED
        BY <1>4, <4>2 DEF Returns, Busy
    <3> QED
      BY <1>10, <2>1, <3>1 DEF Inv, Prompts
  <2> QED
    BY <1>1, <2>1 DEF Prompts
<1> QED
  BY <1>1, <1>12, <1>13, <1>14, <1>15, <1>16, <1>17, <1>18, <1>19, <1>20 DEF Inv

(* The end of a run that failed.                                           *)
LEMMA RolledBackKeeps ==
  ASSUME NEW c \in ChatStates, NEW r \in Runs, Busy(c, r), ~c.run[r].sent,
         c.run[r].life # "live",
         NEW d, d = Finish(RollBack(c, c.run[r].previous), r, FALSE)
  PROVE  d \in ChatStates /\ Same(c, d) /\ (Inv(c) => Inv(d))
<1> DEFINE k == c.run[r].previous
           b == RollBack(c, k)
           over == Settled(b, r)
           counted == CountRetry(over, FALSE)
           ended == EndRun(counted)
<1>1. k \in Cursors
  BY DEF ChatStates, RunStates
<1>2. /\ b \in ChatStates /\ Frame(c, b, {"cursor", "handed", "prompted"})
      /\ b.cursor = k
      /\ \A m : m \in b.handed <=> m \in c.handed /\ m \notin Since(c, k)
      /\ \A m : m \in b.prompted <=> m \in c.prompted /\ m \notin Since(c, k)
  BY <1>1, RollBackIs
<1>3. d = IF b.run[r].direct THEN over ELSE DrainGroup(ended)
  BY DEF Finish, Settled
<1>4. d = Finish(b, r, FALSE)
  OBVIOUS
<1> HIDE DEF b
<1>5. d \in ChatStates /\ Same(b, d)
  BY <1>2, <1>4, FinishKeeps
<1>6. Same(c, b) /\ b.run = c.run
  BY <1>2 DEF ChatStates, Frame, Same
<1>7. ASSUME Inv(c) PROVE Inv(d)
  <2>1. /\ over \in ChatStates /\ Frame(b, over, {"run"})
        /\ \A q \in Runs : over.run[q].life = b.run[q].life
    BY <1>2, SettledKeeps
  <2>2. /\ over.run[r].phase = "serving" /\ ~over.run[r].direct
        /\ over.run[r].previous = 0 /\ over.run[r].batch = {}
        /\ \A q \in Runs \ {r} : over.run[q] = b.run[q]
    <3> DEFINE x == [b.run[r] EXCEPT !.phase = "serving", !.batch = {}, !.previous = 0,
                                     !.sent = FALSE, !.direct = FALSE]
    <3>1. b.run \in [Runs -> RunStates] /\ b.run[r] \in RunStates
      BY <1>2 DEF ChatStates
    <3>2. /\ x.phase = "serving" /\ ~x.direct /\ x.previous = 0 /\ x.batch = {}
      BY <3>1 DEF RunStates
    <3>3. over = [b EXCEPT !.run = [b.run EXCEPT ![r] = x]]
      BY DEF Settled
    <3> HIDE DEF x, over
    <3>4. over.run = [b.run EXCEPT ![r] = x]
      BY <1>2, <3>3 DEF ChatStates
    <3> QED
      BY <3>1, <3>2, <3>4
  <2> HIDE DEF over
  <2>3. counted \in ChatStates /\ Frame(over, counted, {"retries", "timers"})
    BY <2>1, RetryKeeps
  <2> HIDE DEF counted
  <2>4. /\ counted.run = over.run /\ counted.idle = c.idle /\ counted.process = c.process
    BY <1>2, <2>1, <2>3 DEF ChatStates, Frame
  <2>5. ~(counted.idle /\ counted.process # NoRun)
    <3>1. SUFFICES ASSUME c.idle, c.process # NoRun PROVE FALSE
      BY <2>4
    <3>2. c.process \in Runs /\ c.run[c.process].life = "live"
      BY <1>7, <3>1 DEF Inv, Slot, ChatStates
    <3>3. c.process \in Ongoing(c) /\ r \in Ongoing(c)
      BY <3>2 DEF Ongoing, Busy
    <3> QED
      BY <1>7, <3>2, <3>3 DEF Inv, Alone
  <2>6. ended = [counted EXCEPT !.active = FALSE, !.process = NoRun]
    BY <2>5 DEF EndRun
  <2> HIDE DEF ended
  <2>7. /\ ended \in ChatStates /\ ~ended.active /\ ended.process = NoRun
        /\ Frame(counted, ended, {"active", "process"})
    BY <2>3, <2>6 DEF ChatStates, Frame
  <2>8. Frame(c, ended, {"cursor", "handed", "prompted", "run", "active", "process",
                         "retries", "timers"})
    BY <1>2, <2>1, <2>3, <2>7 DEF ChatStates, Frame
  <2>9. /\ ended.run = over.run /\ ended.cursor = k
        /\ ended.handed = b.handed /\ ended.prompted = b.prompted
    BY <1>2, <2>1, <2>3, <2>7 DEF ChatStates, Frame
  <2>10. Failing(c, ended, r)
    BY <1>2, <1>6, <2>1, <2>2, <2>7, <2>8, <2>9 DEF Failing
  <2>11. Inv(ended)
    BY <1>7, <2>7, <2>10, FailedKeeps
  <2>12. d = DrainGroup(ended)
    BY <1>3, <1>6, <1>7 DEF Inv, Slot
  <2> QED
    BY <2>7, <2>11, <2>12, DrainKeeps
<1> QED
  BY <1>5, <1>6, <1>7 DEF Same

(* Action Fail keeps the invariant.                                        *)
LEMMA FailKeeps ==
  ASSUME chat \in ChatStates, NEW r \in Runs, Fail(r)
  PROVE  chat' \in ChatStates /\ (Guarded(chat) => Guarded(chat'))
<1> DEFINE n == IF chat.run[r].phase = "prompted" THEN chat.deaths + 1 ELSE chat.deaths
           c == [chat EXCEPT !.deaths = n]
           d == IF c.run[r].sent THEN Finish(c, r, TRUE)
                ELSE Finish(RollBack(c, chat.run[r].previous), r, FALSE)
<1>1. Step(d)
  BY DEF Fail
<1>2. \/ chat.run[r].phase = "prompted"
      \/ chat.run[r].phase = "query" /\ chat.run[r].life # "live"
  BY DEF Fail
<1>3. n \in Nat
  BY DEF ChatStates
<1> HIDE DEF n
<1>4. c \in ChatStates /\ Frame(chat, c, {"deaths"}) /\ Same(chat, c) /\ c.run = chat.run
  BY <1>3 DEF ChatStates, Frame, Same
<1> HIDE DEF c
<1>5. /\ Frame(chat, c, {"pending", "piped", "hasOutput", "retries", "timers",
                         "deaths", "runless", "active", "idle", "inFlight"})
      /\ c.idle = chat.idle /\ c.active = chat.active /\ c.inFlight = chat.inFlight
  BY <1>4 DEF ChatStates, Frame
<1>6. Inv(chat) => Inv(c)
  BY <1>4, <1>5, QuietKeeps
<1>7. r \in Ongoing(c) /\ Busy(c, r)
  BY <1>2, <1>4 DEF Ongoing, Busy
<1>8. CASE c.run[r].sent
  <2>1. d = Finish(c, r, TRUE)
    BY <1>8
  <2> HIDE DEF d
  <2>2. Unneeded(c, r)
    BY <1>8 DEF Unneeded, Returns
  <2>3. /\ d \in ChatStates /\ Same(c, d)
        /\ Inv(c) /\ Unneeded(c, r) /\ r \in Ongoing(c) => Inv(d)
    BY <1>4, <2>1, FinishKeeps
  <2> QED
    BY <1>1, <1>4, <1>6, <1>7, <2>2, <2>3, StepKeeps DEF Same
<1>9. CASE ~c.run[r].sent
  <2>1. d = Finish(RollBack(c, c.run[r].previous), r, FALSE)
    BY <1>4, <1>9
  <2> HIDE DEF d
  <2>2. CASE c.run[r].life # "live"
    <3>1. d \in ChatStates /\ Same(c, d) /\ (Inv(c) => Inv(d))
      BY <1>4, <1>7, <1>9, <2>1, <2>2, RolledBackKeeps, ZenonT(40)
    <3> QED
      BY <1>1, <1>4, <1>6, <3>1, StepKeeps DEF Same
  <2>3. CASE c.run[r].life = "live"
    <3> DEFINE b == RollBack(c, c.run[r].previous)
    <3>1. c.run[r].previous \in Cursors
      BY <1>4 DEF ChatStates, RunStates
    <3>2. b \in ChatStates /\ Frame(c, b, {"cursor", "handed", "prompted"})
      BY <1>4, <3>1, RollBackIs
    <3>3. d = Finish(b, r, FALSE)
      BY <2>1
    <3> HIDE DEF b
    <3>4. d \in ChatStates /\ Same(b, d)
      BY <3>2, <3>3, FinishKeeps
    <3>5. Same(chat, d)
      BY <1>4, <3>2, <3>4 DEF Same, Frame, ChatStates
    <3>6. ~Inv(chat)
      BY <1>2, <1>4, <2>3 DEF Inv, Slot
    <3> QED
      BY <1>1, <3>4, <3>5, <3>6, StepKeeps
  <2> QED
    BY <2>2, <2>3
<1> QED
  BY <1>8, <1>9

(* The agent of run r dies; the cursor stays, or goes back to where it was *)
(* before the first pipe that is not acknowledged.                         *)
Dying(c, d, r) ==
  /\ c.run[r].life = "live"
  /\ Frame(c, d, {"run", "deaths", "active", "process", "inFlight", "idle", "inbox",
                  "pending", "cursor", "handed", "prompted"})
  /\ \A q \in Runs \ {r} : d.run[q] = c.run[q]
  /\ d.run[r].life \in {"coded", "signalled"}
  /\ d.run[r].phase = c.run[r].phase /\ d.run[r].direct = c.run[r].direct
  /\ d.run[r].batch = c.run[r].batch /\ d.run[r].previous = c.run[r].previous
  /\ d.run[r].sent = c.run[r].sent
  /\ d.inFlight \in {0, c.inFlight}
  /\ \/ /\ ~(c.active /\ c.idle)
        /\ d.active = c.active /\ d.process = c.process /\ d.idle = c.idle
     \/ ~d.active /\ d.process = NoRun
  /\ \/ d.cursor = c.cursor /\ d.handed = c.handed /\ d.prompted = c.prompted
     \/ /\ c.inFlight # 0 /\ d.process = NoRun
        /\ d.cursor = c.inFlight
        /\ \A m : m \in d.handed <=> m \in c.handed /\ m \notin Since(c, c.inFlight)
        /\ \A m : m \in d.prompted <=> m \in c.prompted /\ m \notin Since(c, c.inFlight)

LEMMA DeadKeeps ==
  ASSUME NEW c \in ChatStates, NEW d \in ChatStates, Inv(c), NEW r \in Runs, Dying(c, d, r)
  PROVE  Inv(d)
<1> DEFINE k == c.inFlight
<1>1. /\ d.world = c.world /\ d.stored = c.stored /\ d.commands = c.commands
      /\ d.held = c.held /\ d.before = c.before
      /\ d.restarts = c.restarts /\ d.seen = c.seen /\ d.answered = c.answered
  BY DEF Frame, ChatStates, Dying
<1>2. /\ c.run[r].life = "live" /\ d.run[r].life \in {"coded", "signalled"}
      /\ d.run[r].phase = c.run[r].phase /\ d.run[r].direct = c.run[r].direct
      /\ d.run[r].batch = c.run[r].batch /\ d.run[r].previous = c.run[r].previous
      /\ d.run[r].sent = c.run[r].sent
      /\ d.inFlight \in {0, c.inFlight}
  BY DEF Dying
<1>3. /\ c.stored \in Nat /\ c.before \in Nat /\ c.seen \in Nat /\ c.cursor \in Nat
      /\ k \in Nat /\ k \in Cursors /\ k <= c.stored
  BY ChatAssumption DEF Inv, Stored, ChatStates, RunStates, Cursors
<1>4. \A q \in Runs : q # r => /\ c.run[q].phase \in {"free", "serving"}
                               /\ c.run[q].life # "live" /\ d.run[q] = c.run[q]
  BY <1>2 DEF Inv, Alone, Ongoing, Dying
<1>5. c.run[r].phase \notin {"fetched", "prompted"}
  BY <1>2 DEF Inv, Slot
<1>6. \A q \in Runs : /\ Busy(d, q) <=> Busy(c, q)
                      /\ Busy(d, q) => q = r
                      /\ d.run[q].phase \notin {"fetched", "prompted"}
                      /\ d.run[q].previous = c.run[q].previous
                      /\ d.run[q].batch = c.run[q].batch
                      /\ d.run[q].life # "live"
  BY <1>2, <1>4, <1>5 DEF Busy
<1>7. \A m : \A q \in Runs : Returns(c, q, m) => Returns(d, q, m)
  BY <1>2, <1>4, <1>6 DEF Returns
<1>8. \A m : Past(d, m) <=> Past(c, m)
  BY <1>1 DEF Past
<1>9. d.process # NoRun => d.process = c.process
  BY DEF Dying
<1>10. Alone(d)
  BY <1>2, <1>4, <1>9 DEF Inv, Alone, Ongoing
<1>11. Slot(d)
  <2>1. ~d.active => d.process = NoRun
    BY DEF Dying, Inv, Slot
  <2>2. ~(d.idle /\ d.process # NoRun)
    BY DEF Dying, Inv, Slot
  <2>3. \A q \in Runs : ~d.run[q].direct
    BY <1>2, <1>4 DEF Inv, Slot
  <2>4. \A q \in Runs : Busy(d, q) => d.run[q].life \notin {"none", "live"}
    BY <1>2, <1>6
  <2> QED
    BY <1>6, <2>1, <2>2, <2>3, <2>4 DEF Slot
<1>12. BelowInFlight(d) /\ Fetched(d)
  BY <1>6 DEF BelowInFlight, Fetched
<1>13. HeldBatch(d)
  BY <1>1, <1>8 DEF Inv, HeldBatch
<1>14. /\ \A q \in Runs : Busy(c, q) => \A m \in 1..c.run[q].previous :
            /\ m > c.before /\ c.held # {} => Past(c, m)
            /\ m > c.seen => Past(c, m)
       /\ \A q \in Runs : /\ c.run[q].previous <= c.stored
                          /\ \A m \in c.run[q].batch : m <= c.stored
  BY DEF Inv, HeldSafe, SeenSafe, Stored
<1>15. CASE d.cursor = c.cursor /\ d.handed = c.handed /\ d.prompted = c.prompted
  <2>1. \A m : Given(d, m) <=> Given(c, m)
    BY <1>8, <1>15 DEF Given
  <2>2. Stored(d)
    BY <1>1, <1>2, <1>3, <1>6, <1>15 DEF Inv, Stored
  <2>3. Below(d) /\ BelowPrevious(d)
    BY <1>6, <1>8, <1>15, <2>1 DEF Inv, Below, BelowPrevious
  <2>4. HeldSafe(d)
    BY <1>1, <1>6, <1>7, <1>8, <1>9, <1>15, <2>1 DEF Inv, HeldSafe
  <2>5. SeenSafe(d) /\ Prompts(d)
    BY <1>1, <1>6, <1>7, <1>8, <1>15 DEF Inv, SeenSafe, Prompts
  <2> QED
    BY <1>1, <1>10, <1>11, <1>12, <1>13, <2>2, <2>3, <2>4, <2>5 DEF Inv
<1>16. CASE ~(d.cursor = c.cursor /\ d.handed = c.handed /\ d.prompted = c.prompted)
  <2>1. /\ k # 0 /\ d.process = NoRun /\ d.cursor = k
        /\ \A m : m \in d.handed <=> m \in c.handed /\ m \notin Since(c, k)
        /\ \A m : m \in d.prompted <=> m \in c.prompted /\ m \notin Since(c, k)
    BY <1>16 DEF Dying
  <2>2. /\ \A m \in 1..k : Given(c, m)
        /\ Busy(c, r) => \A m \in 1..c.run[r].previous : m > k => Past(c, m)
        /\ \A m \in 1..k : m > c.cursor => Past(c, m)
        /\ c.cursor <= c.seen
        /\ c.held # {} => c.before = c.cursor
    BY <1>2, <2>1 DEF Inv, BelowInFlight
  <2> HIDE DEF k
  <2>3. \A m \in Nat : m <= k /\ Given(c, m) => Given(d, m)
    <3>1. \A m \in Nat : m <= k => m \notin Since(c, k)
      BY <1>3, SinceIs
    <3> QED
      BY <1>8, <2>1, <3>1 DEF Given
  <2>4. \A m : Past(d, m) => Given(d, m)
    BY DEF Given
  <2>5. \A q \in Runs : c.run[q].previous \in Nat
    BY ChatAssumption DEF ChatStates, RunStates, Cursors
  <2>6. Stored(d)
    BY <1>1, <1>2, <1>3, <1>6, <2>1 DEF Inv, Stored, k
  <2>7. Below(d)
    BY <1>3, <2>1, <2>2, <2>3 DEF Below
  <2>8. BelowPrevious(d)
    <3>1. ASSUME Busy(c, r), NEW m \in 1..c.run[r].previous
          PROVE  Given(d, m) /\ (m > k => Past(d, m))
      <4>1. Given(c, m) /\ m \in Nat /\ (m > k => Past(d, m))
        BY <1>8, <2>2, <2>5, <3>1 DEF Inv, BelowPrevious
      <4> QED
        BY <1>3, <2>3, <2>4, <4>1
    <3> QED
      BY <1>6, <2>1, <3>1 DEF BelowPrevious
  <2>9. \A m \in 1..k : /\ m > c.before /\ c.held # {} => Past(c, m)
                        /\ m > c.seen => Past(c, m)
    BY <1>3, <2>2
  <2>10. HeldSafe(d)
    BY <1>1, <1>6, <1>8, <1>14, <2>1, <2>9 DEF HeldSafe
  <2>11. SeenSafe(d)
    BY <1>1, <1>6, <1>8, <1>14, <2>1, <2>9 DEF SeenSafe
  <2>12. Prompts(d)
    BY <1>1, <1>7, <2>1 DEF Inv, Prompts
  <2> QED
    BY <1>1, <1>10, <1>11, <1>12, <1>13, <2>6, <2>7, <2>8, <2>10, <2>11, <2>12 DEF Inv
<1> QED
  BY <1>15, <1>16

(* Action Die keeps the invariant.                                         *)
LEMMA DieKeeps ==
  ASSUME chat \in ChatStates, NEW r \in Runs, NEW code \in BOOLEAN, Die(r, code)
  PROVE  chat' \in ChatStates /\ (Guarded(chat) => Guarded(chat'))
<1> DEFINE life == IF code THEN "coded" ELSE "signalled"
           x == [chat.run[r] EXCEPT !.query = {}, !.queued = {}, !.life = life]
           run == [chat.run EXCEPT ![r] = x]
           n == chat.deaths + 1
           c == [chat EXCEPT !.deaths = n, !.run = run]
           d == OnExit(c)
<1>1. Step(d) /\ chat.run[r].life = "live"
  BY DEF Die
<1>2. /\ chat.run \in [Runs -> RunStates] /\ chat.run[r] \in RunStates /\ n \in Nat
      /\ life \in {"coded", "signalled"} /\ 0 \in Cursors
  BY ChatAssumption DEF ChatStates, Cursors
<1> HIDE DEF life, n
<1>3. /\ x \in RunStates /\ x.life \in {"coded", "signalled"}
      /\ x.phase = chat.run[r].phase /\ x.direct = chat.run[r].direct
      /\ x.batch = chat.run[r].batch /\ x.previous = chat.run[r].previous
      /\ x.sent = chat.run[r].sent
  BY <1>2 DEF RunStates
<1> HIDE DEF x
<1>4. run \in [Runs -> RunStates] /\ run[r] = x /\ \A q \in Runs \ {r} : run[q] = chat.run[q]
  BY <1>2, <1>3
<1> HIDE DEF run
<1>5. c \in ChatStates /\ Frame(chat, c, {"run", "deaths"}) /\ c.run = run
  BY <1>2, <1>4 DEF ChatStates, Frame
<1>6. d = OnExit(c)
  OBVIOUS
<1> HIDE DEF c, d
<1>7. /\ c.active = chat.active /\ c.process = chat.process /\ c.idle = chat.idle
      /\ c.inFlight = chat.inFlight /\ c.cursor = chat.cursor /\ c.handed = chat.handed
      /\ c.prompted = chat.prompted /\ c.stored = chat.stored /\ Same(chat, c)
  BY <1>5 DEF Frame, ChatStates, Same
<1> DEFINE LetGo(e) ==
             /\ Frame(chat, e, {"run", "deaths", "active", "process", "inFlight", "idle",
                                "inbox", "pending", "cursor", "handed", "prompted"})
             /\ e.run = run /\ e.inFlight \in {0, chat.inFlight}
<1>8. ASSUME NEW e \in ChatStates, LetGo(e),
             \/ /\ ~(chat.active /\ chat.idle)
                /\ e.active = chat.active /\ e.process = chat.process /\ e.idle = chat.idle
             \/ ~e.active /\ e.process = NoRun,
             \/ e.cursor = chat.cursor /\ e.handed = chat.handed /\ e.prompted = chat.prompted
             \/ /\ chat.inFlight # 0 /\ e.process = NoRun
                /\ e.cursor = chat.inFlight
                /\ \A m : m \in e.handed <=> m \in chat.handed /\ m \notin Since(chat, chat.inFlight)
                /\ \A m : m \in e.prompted <=> m \in chat.prompted /\ m \notin Since(chat, chat.inFlight)
      PROVE  Inv(chat) => Inv(e)
  <2>1. Dying(chat, e, r)
    BY <1>1, <1>3, <1>4, <1>8 DEF Dying
  <2> QED
    BY <1>8, <2>1, DeadKeeps
<1> DEFINE stale == c.process # NoRun /\ c.inbox # {}
           inbox == IF stale THEN {} ELSE c.inbox
           pending == c.pending \/ stale
           freed == [c EXCEPT !.active = FALSE, !.process = NoRun, !.inFlight = 0,
                              !.idle = FALSE, !.inbox = inbox, !.pending = pending]
           back == RollBack(freed, c.inFlight)
<1>9. /\ freed \in ChatStates
      /\ Frame(c, freed, {"active", "process", "inFlight", "idle", "inbox", "pending"})
      /\ ~freed.active /\ freed.process = NoRun /\ freed.inFlight = 0
  <2>1. inbox \in SUBSET Messages /\ pending \in BOOLEAN
    BY <1>5 DEF ChatStates
  <2> HIDE DEF inbox, pending
  <2>2. c \in ChatStates
    BY <1>5
  <2>3. freed \in ChatStates
    BY <1>2, <2>1, <2>2 DEF ChatStates
  <2> QED
    BY <2>2, <2>3 DEF ChatStates, Frame
<1>10. d = IF ~(c.active /\ (c.idle \/ c.piped \/ c.hasOutput)) THEN c
           ELSE DrainGroup(IF c.piped /\ ~c.hasOutput /\ c.inFlight # 0 THEN back ELSE freed)
  <2>1. [Release(c) EXCEPT !.idle = FALSE,
                           !.inbox = IF stale THEN {} ELSE @,
                           !.pending = @ \/ stale] = freed
    BY <1>5 DEF Release, ChatStates
  <2> HIDE DEF freed
  <2> QED
    BY <1>6, <2>1 DEF OnExit
<1> HIDE DEF freed
<1>11. /\ freed.cursor = chat.cursor /\ freed.handed = chat.handed
       /\ freed.prompted = chat.prompted /\ freed.run = run
       /\ freed.stored = chat.stored /\ Same(chat, freed)
  BY <1>5, <1>7, <1>9 DEF Frame, ChatStates, Same
<1>12. CASE ~(c.active /\ (c.idle \/ c.piped \/ c.hasOutput))
  <2>1. d = c
    BY <1>10, <1>12
  <2>2. LetGo(c)
    BY <1>5, <1>7 DEF Frame
  <2>3. Inv(chat) => Inv(c)
    BY <1>5, <1>7, <1>8, <1>12, <2>2
  <2> QED
    BY <1>1, <1>5, <1>7, <2>1, <2>3, StepKeeps
<1>13. CASE c.active /\ (c.idle \/ c.piped \/ c.hasOutput)
            /\ ~(c.piped /\ ~c.hasOutput /\ c.inFlight # 0)
  <2>1. d = DrainGroup(freed)
    BY <1>10, <1>13
  <2>2. LetGo(freed)
    BY <1>5, <1>9, <1>11 DEF Frame, ChatStates
  <2>3. Inv(chat) => Inv(freed)
    BY <1>8, <1>9, <1>11, <2>2
  <2>4. /\ d \in ChatStates /\ Same(freed, d)
        /\ Inv(freed) /\ (freed.active => freed.idle /\ freed.process # NoRun) => Inv(d)
    BY <1>9, <2>1, DrainKeeps
  <2> QED
    BY <1>1, <1>9, <1>11, <2>3, <2>4, StepKeeps DEF Same
<1>14. CASE c.active /\ c.piped /\ ~c.hasOutput /\ c.inFlight # 0
  <2>1. d = DrainGroup(back)
    BY <1>10, <1>14
  <2>2. c.inFlight \in Cursors
    BY <1>5 DEF ChatStates
  <2>3. /\ back \in ChatStates /\ Frame(freed, back, {"cursor", "handed", "prompted"})
        /\ back.cursor = c.inFlight
        /\ \A m : m \in back.handed <=> m \in freed.handed /\ m \notin Since(freed, c.inFlight)
        /\ \A m : m \in back.prompted <=> m \in freed.prompted /\ m \notin Since(freed, c.inFlight)
    BY <1>9, <2>2, RollBackIs
  <2> HIDE DEF back
  <2>4. /\ back.run = run /\ ~back.active /\ back.process = NoRun /\ back.inFlight = 0
        /\ Same(chat, back)
    BY <1>9, <1>11, <2>3 DEF Frame, ChatStates, Same
  <2>5. LetGo(back)
    BY <1>5, <1>9, <2>3, <2>4 DEF Frame, ChatStates
  <2>6. Since(freed, c.inFlight) = Since(chat, chat.inFlight)
    BY <1>7, <1>11 DEF Since
  <2>7. /\ chat.inFlight # 0 /\ back.cursor = chat.inFlight
        /\ \A m : m \in back.handed <=> m \in chat.handed /\ m \notin Since(chat, chat.inFlight)
        /\ \A m : m \in back.prompted <=> m \in chat.prompted /\ m \notin Since(chat, chat.inFlight)
    BY <1>7, <1>11, <1>14, <2>3, <2>6
  <2>8. Inv(chat) => Inv(back)
    BY <1>8, <2>3, <2>4, <2>5, <2>7
  <2>9. /\ d \in ChatStates /\ Same(back, d)
        /\ Inv(back) /\ (back.active => back.idle /\ back.process # NoRun) => Inv(d)
    BY <2>1, <2>3, DrainKeeps
  <2> QED
    BY <1>1, <2>4, <2>8, <2>9, StepKeeps DEF Same
<1> QED
  BY <1>12, <1>13, <1>14

IInv == TypeOK /\ Guarded(chat)

(* The invariant holds initially ...                                       *)
LEMMA InitIInv == Init => IInv
<1> SUFFICES ASSUME NEW world \in Worlds, chat = Fresh(world) PROVE IInv
  BY DEF Init
<1> DEFINE run == [r \in Runs |-> Unused]
<1>1. 0 \in Cursors /\ 0 \in 0..MaxRetries /\ run \in [Runs -> RunStates]
  BY ChatAssumption, UnusedRun DEF Cursors
<1>2. \A r \in Runs : run[r].phase = "free" /\ run[r].life = "none" /\ ~run[r].direct
                      /\ run[r].previous = 0 /\ run[r].batch = {}
  BY DEF Unused
<1> HIDE DEF run
<1>3. chat = [world |-> world, stored |-> 0, commands |-> {}, seen |-> 0, cursor |-> 0,
              held |-> {}, before |-> 0, active |-> FALSE, idle |-> FALSE,
              pending |-> FALSE, piped |-> FALSE, hasOutput |-> FALSE, inFlight |-> 0,
              process |-> NoRun, retries |-> 0, timers |-> 0, inbox |-> {},
              run |-> run, restarts |-> 0, deaths |-> 0,
              handed |-> {}, prompted |-> {}, answered |-> {}, runless |-> FALSE]
  BY DEF Fresh, run
<1>4. chat \in ChatStates
  BY <1>1, <1>3 DEF ChatStates
<1>5. /\ chat.stored = 0 /\ chat.seen = 0 /\ chat.cursor = 0 /\ chat.held = {}
      /\ chat.before = 0 /\ ~chat.active /\ ~chat.idle /\ chat.inFlight = 0
      /\ chat.process = NoRun /\ chat.run = run /\ chat.restarts = 0
      /\ chat.prompted = {}
  BY <1>3
<1>6. \A r \in Runs : /\ ~Busy(chat, r)
                      /\ chat.run[r].phase \notin {"fetched", "prompted"}
                      /\ chat.run[r].life # "live"
  BY <1>2, <1>5 DEF Busy
<1>7. Ongoing(chat) = {}
  BY <1>2, <1>5 DEF Ongoing
<1>8. Stored(chat) /\ Alone(chat) /\ Slot(chat)
  BY <1>2, <1>5, <1>6, <1>7 DEF Stored, Alone, Slot
<1>9. Below(chat) /\ BelowPrevious(chat) /\ BelowInFlight(chat)
  BY <1>5, <1>6 DEF Below, BelowPrevious, BelowInFlight
<1>10. HeldBatch(chat) /\ HeldSafe(chat) /\ Fetched(chat) /\ SeenSafe(chat) /\ Prompts(chat)
  BY <1>5, <1>6 DEF HeldBatch, HeldSafe, Fetched, SeenSafe, Prompts
<1> QED
  BY <1>4, <1>5, <1>8, <1>9, <1>10 DEF IInv, TypeOK, Guarded, Inv

(* ... is kept by every step ...                                           *)
LEMMA NextIInv == IInv /\ [Next]_chat => IInv'
<1> SUFFICES ASSUME IInv, [Next]_chat PROVE IInv'
  OBVIOUS
<1>1. chat \in ChatStates /\ Guarded(chat)
  BY DEF IInv, TypeOK
<1>2. SUFFICES chat' \in ChatStates /\ Guarded(chat')
  BY DEF IInv, TypeOK
<1>3. CASE UNCHANGED chat
  BY <1>1, <1>3
<1>4. CASE \E isCommand \in BOOLEAN : Receive(isCommand)
  BY <1>1, <1>4, ReceiveKeeps
<1>5. CASE Poll
  BY <1>1, <1>5, PollKeeps
<1>6. CASE \E written \in BOOLEAN : Pipe(written)
  BY <1>1, <1>6, PipeKeeps
<1>7. CASE \E r \in Runs : Prompt(r)
  BY <1>1, <1>7, PromptKeeps
<1>8. CASE \E r \in Runs : Spawn(r)
  BY <1>1, <1>8, SpawnKeeps
<1>9. CASE \E r \in Runs : ReadInbox(r)
  BY <1>1, <1>9, ReadInboxKeeps
<1>10. CASE \E r \in Runs, final \in BOOLEAN : Output(r, final)
  BY <1>1, <1>10, OutputKeeps
<1>11. CASE \E r \in Runs : QueryComplete(r)
  BY <1>1, <1>11, QueryCompleteKeeps
<1>12. CASE \E r \in Runs : NextQuery(r)
  BY <1>1, <1>12, NextQueryKeeps
<1>13. CASE \E r \in Runs : Return(r)
  BY <1>1, <1>13, ReturnKeeps
<1>14. CASE \E r \in Runs : Fail(r)
  BY <1>1, <1>14, FailKeeps
<1>15. CASE \E r \in Runs, code \in BOOLEAN : Die(r, code)
  BY <1>1, <1>15, DieKeeps
<1>16. CASE RetryTimer
  BY <1>1, <1>16, RetryTimerKeeps
<1>17. CASE Restart
  BY <1>1, <1>17, RestartKeeps
<1> QED
  BY <1>3, <1>4, <1>5, <1>6, <1>7, <1>8, <1>9, <1>10, <1>11, <1>12, <1>13, <1>14,
     <1>15, <1>16, <1>17 DEF Next

(* ... and so always holds.                                                *)
LEMMA SpecIInv == Spec => []IInv
BY InitIInv, NextIInv, PTL DEF Spec

(* It says that nothing below the cursor is swallowed ...                  *)
LEMMA IInvSkips == IInv => NothingSkipped
<1> SUFFICES ASSUME IInv, ~chat.world.overlap, chat.restarts = 0, NEW m \in 1..chat.cursor
             PROVE  m \in chat.handed \cup chat.answered \cup chat.commands \/ Overtaken(m)
  BY DEF NothingSkipped
<1>1. Given(chat, m)
  BY DEF IInv, Guarded, Inv, Below
<1> QED
  BY <1>1 DEF Given, Past, Overtaken

(* ... and that a prompt is not lost.                                      *)
LEMMA IInvPrompts == IInv => PromptsKept
<1> SUFFICES ASSUME IInv, ~chat.world.overlap, chat.restarts = 0, NEW m \in chat.prompted
             PROVE  Kept(m) \/ Overtaken(m)
  BY DEF PromptsKept
<1>1. \/ m \in chat.answered
      \/ \E k \in chat.commands : k > m
      \/ \E r \in Runs : Returns(chat, r, m)
  BY DEF IInv, Guarded, Inv, Prompts
<1>2. (\E r \in Runs : Returns(chat, r, m)) => InCustody(m)
  BY DEF InCustody, Returns, Busy
<1> QED
  BY <1>1, <1>2 DEF Kept, Overtaken

(* The type invariant of the turns of a chat.                              *)
THEOREM TypeCorrect == Spec => []TypeOK
<1>1. IInv => TypeOK
  BY DEF IInv
<1> QED
  BY <1>1, SpecIInv, PTL

(* With one agent at a time and no crash of the daemon, whatever the       *)
(* interleaving of the loop, the runs, slash commands, failing writes and  *)
(* dying agents, the cursor passes no message that was not handed to an    *)
(* agent or answered.  src/index.ts:317, :1327, :1646                      *)
THEOREM NoneSkipped == Spec => []NothingSkipped
BY IInvSkips, SpecIInv, PTL

(* ... and what was in a prompt is answered, or will be rolled back by its *)
(* run.  src/index.ts:1315                                                 *)
THEOREM PromptsStayKept == Spec => []PromptsKept
BY IInvPrompts, SpecIInv, PTL

-----------------------------------------------------------------------------
(* Outputs: a final is in one place.                                       *)
LEMMA AlikeMoves ==
  ASSUME NEW S, NEW R, NEW t, NEW es,
         Moving(S, t, es), Alike(S, R), R.thread = S.thread
  PROVE  Moving(R, t, es)
<1>1. OutShape(R) /\ OutTypes(R)
  BY DEF Moving, Alike, OutShape, OutTypes
<1>2. \A u \in Out!Threads \ {t} : Waits(R, u)
  BY DEF Moving, Alike, Waits, TheOutput
<1>3. ASSUME NEW x \in Finals PROVE OnePlace(R, es, Out!Threads \ {t}, x)
  <2>1. OnePlace(S, es, Out!Threads \ {t}, x)
    BY DEF Moving
  <2> QED
    BY <2>1 DEF Alike, OnePlace, InChat, Sending, Buffered, Old
<1> QED
  BY <1>1, <1>2, <1>3 DEF Moving, Alike

LEMMA WaitMoves ==
  ASSUME NEW S, NEW t \in Out!Threads, NEW where, NEW held, NEW what, OutShape(S)
  PROVE  WaitsThus(S, Out!Wait(S, t, where, held, what), t, where, held, what)
BY DEF WaitsThus, OnlyMoves, Alike, Out!Wait, OutShape, OutFields, ThreadFields

LEMMA RestMoves ==
  ASSUME NEW S, NEW t \in Out!Threads, OutShape(S)
  PROVE  /\ OnlyMoves(S, Out!Rest(S, t), t)
         /\ Out!Rest(S, t).thread[t].at = "none"
         /\ Out!Rest(S, t).thread[t].texts = {}
BY DEF OnlyMoves, Alike, Out!Rest, Out!Resting, OutShape, OutFields, ThreadFields

(* A thread that has moved waits again: for anything but a plain send.     *)
LEMMA WaitsAgain ==
  ASSUME NEW S, NEW R, NEW t \in Out!Threads, NEW es,
         Moving(S, t, es), OnlyMoves(S, R, t), es = Left(R, "none"),
         Waits(R, t), R.thread[t].at # "plain",
         R.thread[t].at = "end" => \A u \in Out!Threads \ {t} :
           S.thread[u].at = "end" => S.thread[u].hold # R.thread[t].hold
  PROVE  OutInv(R)
<1>1. OutShape(R)
  BY DEF Moving, OnlyMoves, Alike, OutShape
<1>2. OutTypes(R)
  BY DEF Moving, OnlyMoves, Alike, OutTypes
<1>3. ASSUME NEW u \in Out!Threads PROVE Waits(R, u)
  <2>1. CASE u # t
    <3>1. Waits(S, u) /\ R.thread[u] = S.thread[u]
      BY <2>1 DEF Moving, OnlyMoves
    <3> QED
      BY <3>1 DEF OnlyMoves, Alike, Waits, TheOutput
  <2> QED
    BY <2>1
<1>4. ASSUME NEW x \in Finals PROVE OnePlace(R, es, Out!Threads, x)
  <2>1. OnePlace(S, es, Out!Threads \ {t}, x)
    BY DEF Moving
  <2>2. \A u \in Out!Threads : Sending(R, u, x) => u \in Out!Threads \ {t} /\ Sending(S, u, x)
    BY DEF OnlyMoves, Sending
  <2>3. /\ InChat(R, x) <=> InChat(S, x)
        /\ Buffered(R, x) <=> Buffered(S, x)
        /\ Old(R, x) <=> Old(S, x)
        /\ R.chat = S.chat /\ R.attempted = S.attempted
    BY DEF OnlyMoves, Alike, InChat, Buffered, Old
  <2> QED
    BY <2>1, <2>2, <2>3 DEF OnePlace
<1>5. ApartAt(R)
  BY DEF OnlyMoves, ApartAt, Out!Threads
<1> QED
  BY <1>1, <1>2, <1>3, <1>4, <1>5 DEF OutInv

(* A final that waits to be sent plain is in no other place.               *)
LEMMA SendsPlain ==
  ASSUME NEW S, NEW t \in Out!Threads, NEW what, NEW stage,
         Moving(S, t, Left(S, t)),
         Out!MaySendPlain(S, what),
         what = S.buffer \/ what = S.failure \/ what \cap Finals = {},
         what \subseteq TextRecords,
         stage \in {"coalesced", "failure", "partial", "unfinished"}
  PROVE  OutInv(Out!SendPlain(S, t, what, stage))
<1> DEFINE R == Out!SendPlain(S, t, what, stage)
           es == Left(S, t)
<1>1. /\ OutFields \subseteq DOMAIN R
      /\ Out!Threads \subseteq DOMAIN R.thread
      /\ \A u \in Out!Threads : ThreadFields \subseteq DOMAIN R.thread[u]
      /\ \A u \in Out!Threads : u # t => R.thread[u] = S.thread[u]
      /\ R.thread[t].at = "plain" /\ R.thread[t].texts = what
      /\ R.thread[t].stage = stage
  BY DEF Out!SendPlain, Out!Wait, Moving, OutShape, OutFields, ThreadFields
<1>2. /\ R.chat = S.chat /\ R.events = S.events /\ R.streams = S.streams
      /\ R.handle = S.handle /\ R.buffer = S.buffer /\ R.failure = S.failure
      /\ R.partial = S.partial /\ R.query = S.query /\ R.emitted = S.emitted
      /\ R.channel = S.channel /\ R.attempted = TRUE
  BY DEF Out!SendPlain, Out!Wait, Moving, OutShape, OutFields, ThreadFields
<1> HIDE DEF R
<1>3. OutShape(R) /\ OutTypes(R)
  BY <1>1, <1>2 DEF Moving, OutShape, OutTypes
<1>4. ASSUME NEW u \in Out!Threads PROVE Waits(R, u)
  <2>1. CASE u # t
    <3>1. Waits(S, u) /\ R.thread[u] = S.thread[u]
      BY <1>1, <2>1 DEF Moving
    <3> QED
      BY <1>2, <3>1 DEF Waits, TheOutput
  <2>2. CASE u = t
    BY <1>1, <1>2, <2>2 DEF Waits, Moving
  <2> QED
    BY <2>1, <2>2
<1>5. ApartAt(R)
  BY <1>1 DEF ApartAt, Out!Threads
<1>6. Left(R, "none") = es
  BY <1>1, <1>2 DEF Left, Out!Threads
<1>7. ASSUME NEW x \in Finals PROVE OnePlace(R, es, Out!Threads, x)
  <2>1. OnePlace(S, es, Out!Threads \ {t}, x)
    BY DEF Moving
  <2>2. \A u \in Out!Threads \ {t} : Sending(R, u, x) <=> Sending(S, u, x)
    BY <1>1 DEF Sending
  <2>3. /\ InChat(R, x) <=> InChat(S, x)
        /\ Buffered(R, x) <=> Buffered(S, x)
        /\ Old(R, x) <=> Old(S, x)
        /\ R.chat = S.chat /\ R.attempted
    BY <1>2 DEF InChat, Buffered, Old
  <2>4. Sending(R, t, x) => Buffered(S, x)
    BY <1>1 DEF Sending, Buffered
  <2>5. S.attempted = FALSE \/ ~S.attempted
    BY DEF Out!MaySendPlain
  <2>6. Sending(R, t, x) =>
          /\ ~InChat(S, x) /\ ~Due(es, x) /\ Old(S, x)
          /\ \A u \in Out!Threads \ {t} : ~Sending(S, u, x)
    BY <2>1, <2>4, <2>5 DEF OnePlace
  <2>7. \A u, v \in Out!Threads : Sending(R, u, x) /\ Sending(R, v, x) => u = v
    BY <2>1, <2>2, <2>6 DEF OnePlace
  <2>8. \A u \in Out!Threads : Sending(R, u, x) =>
          /\ ~InChat(R, x) /\ ~Due(es, x) /\ Old(R, x)
    BY <2>1, <2>2, <2>3, <2>6 DEF OnePlace
  <2> QED
    BY <2>1, <2>3, <2>7, <2>8 DEF OnePlace
<1>8. OutInv(R)
  BY <1>3, <1>4, <1>5, <1>6, <1>7 DEF OutInv
<1> QED
  BY <1>8 DEF R

(* An output is handled: it leaves the queue.                              *)
LEMMA TailFacts ==
  ASSUME NEW T, NEW es \in Seq(T), es # <<>>
  PROVE  /\ Tail(es) \in Seq(T)
         /\ Len(Tail(es)) = Len(es) - 1
         /\ \A i \in DOMAIN Tail(es) : i + 1 \in DOMAIN es /\ Tail(es)[i] = es[i + 1]
         /\ \A i \in DOMAIN Tail(es) : i \in Nat
         /\ Head(es) \in T /\ Head(es) = es[1] /\ 1 \in DOMAIN es
OBVIOUS

LEMMA DueLess ==
  ASSUME NEW es \in Seq(OutputRecords), es # <<>>, NEW x
  PROVE  /\ Due(Tail(es), x) => Due(es, x)
         /\ (\A i, j \in DOMAIN es : DueAt(es, i, x) /\ DueAt(es, j, x) => i = j) =>
              /\ \A i, j \in DOMAIN Tail(es) :
                   DueAt(Tail(es), i, x) /\ DueAt(Tail(es), j, x) => i = j
              /\ DueAt(es, 1, x) => ~Due(Tail(es), x)
<1> DEFINE ts == Tail(es)
<1>1. /\ \A i \in DOMAIN ts : i \in Nat /\ i + 1 \in DOMAIN es /\ ts[i] = es[i + 1]
      /\ 1 \in DOMAIN es
  BY TailFacts
<1> HIDE DEF ts
<1>2. \A i \in DOMAIN ts : DueAt(ts, i, x) => DueAt(es, i + 1, x)
  BY <1>1 DEF DueAt
<1>3. Due(ts, x) => Due(es, x)
  BY <1>1, <1>2 DEF Due
<1>4. ASSUME \A i, j \in DOMAIN es : DueAt(es, i, x) /\ DueAt(es, j, x) => i = j
      PROVE  /\ \A i, j \in DOMAIN ts : DueAt(ts, i, x) /\ DueAt(ts, j, x) => i = j
             /\ DueAt(es, 1, x) => ~Due(ts, x)
  <2>1. ASSUME NEW i \in DOMAIN ts, NEW j \in DOMAIN ts, DueAt(ts, i, x), DueAt(ts, j, x)
        PROVE  i = j
    <3>1. i + 1 = j + 1
      BY <1>1, <1>2, <1>4, <2>1
    <3> QED
      BY <1>1, <3>1
  <2>2. ASSUME DueAt(es, 1, x), NEW i \in DOMAIN ts, DueAt(ts, i, x) PROVE FALSE
    <3>1. i + 1 = 1 /\ i \in Nat
      BY <1>1, <1>2, <1>4, <2>2
    <3>2. i = 0
      BY <3>1
    <3>3. 0 \notin DOMAIN ts
      BY DEF ts
    <3> QED
      BY <2>2, <3>2, <3>3
  <2> QED
    BY <2>1, <2>2 DEF Due
<1> QED
  BY <1>3, <1>4 DEF ts

LEMMA LessDue ==
  ASSUME NEW S, NEW x, NEW T, S.events \in Seq(OutputRecords), S.events # <<>>,
         OnePlace(S, S.events, T, x)
  PROVE  OnePlace(S, Tail(S.events), T, x)
BY DueLess DEF OnePlace

LEMMA LessMoving ==
  ASSUME NEW S, Moving(S, "chain", S.events)
  PROVE  Moving(S, "chain", Tail(S.events))
BY LessDue DEF Moving, OutTypes

LEMMA Popped ==
  ASSUME NEW S, NEW R, Moving(S, "chain", Tail(S.events)), Pops(S, R)
  PROVE  OutInv(R)
<1> DEFINE es == Tail(S.events)
<1>1. S.events \in Seq(OutputRecords) /\ S.events # <<>>
  BY DEF Moving, OutTypes
<1>2. es \in Seq(OutputRecords)
  BY <1>1, TailFacts
<1>3. OutShape(R) /\ OutTypes(R)
  BY <1>2 DEF Moving, Pops, OutShape, OutTypes, Out!Threads
<1>4. Waits(R, "chain")
  BY DEF Pops, Waits
<1>5. Waits(R, "tail")
  <2>1. Waits(S, "tail") /\ R.thread["tail"] = S.thread["tail"]
    BY DEF Moving, Pops, Out!Threads
  <2> QED
    BY <2>1 DEF Pops, Waits, TheOutput
<1>6. ApartAt(R)
  BY DEF Pops, ApartAt, Out!Threads
<1>7. Left(R, "none") = es
  BY DEF Pops, Left
<1>8. ASSUME NEW x \in Finals PROVE OnePlace(R, es, Out!Threads, x)
  <2>1. OnePlace(S, es, Out!Threads \ {"chain"}, x)
    BY DEF Moving
  <2>2. \A u \in Out!Threads : Sending(R, u, x) =>
          u \in Out!Threads \ {"chain"} /\ Sending(S, u, x)
    BY DEF Pops, Sending, Out!Threads
  <2>3. /\ InChat(R, x) <=> InChat(S, x)
        /\ Buffered(R, x) <=> Buffered(S, x)
        /\ Old(R, x) <=> Old(S, x)
        /\ R.chat = S.chat /\ R.attempted = S.attempted
    BY DEF Pops, InChat, Buffered, Old
  <2> QED
    BY <2>1, <2>2, <2>3 DEF OnePlace
<1> QED
  BY <1>3, <1>4, <1>5, <1>6, <1>7, <1>8 DEF OutInv, Out!Threads

LEMMA ReturnIsOut ==
  ASSUME NEW S, NEW t \in Out!Threads, Moving(S, t, Left(S, t))
  PROVE  OutInv(Out!Return(S, t))
<1> DEFINE R == Out!Return(S, t)
           where == IF S.thread[t].final THEN "over" ELSE "turn-end"
<1>0. OutShape(S)
  BY DEF Moving
<1>1. CASE t = "tail"
  <2>1. R = Out!Wait(S, t, where, 0, {})
    BY <1>1 DEF Out!Return
  <2>2. /\ OnlyMoves(S, R, t)
        /\ R.thread[t].at = where /\ R.thread[t].texts = {}
    BY <1>0, <2>1, WaitMoves DEF WaitsThus
  <2>3. where \in {"over", "turn-end"}
    OBVIOUS
  <2>4. Waits(R, t)
    BY <1>1, <2>2, <2>3 DEF Waits
  <2>5. Left(S, t) = Left(R, "none")
    BY <1>1, <2>2 DEF OnlyMoves, Alike, Left, Out!Threads
  <2> HIDE DEF R, where
  <2>6. OutInv(R)
    BY <2>2, <2>3, <2>4, <2>5, WaitsAgain
  <2> QED
    BY <2>6 DEF R
<1>2. CASE t = "chain"
  <2>1. Moving(S, "chain", Tail(S.events))
    BY <1>2, LessMoving DEF Left
  <2>2. Pops(S, R)
    BY <1>0, <1>2 DEF Pops, Out!Return, Out!Rest, Out!Resting, OutShape, OutFields,
                     ThreadFields, Out!Threads
  <2> QED
    BY <2>1, <2>2, Popped
<1> QED
  BY <1>1, <1>2 DEF Out!Threads

LEMMA LeftAlike ==
  ASSUME NEW S, NEW R, NEW t, Alike(S, R), R.thread = S.thread
  PROVE  Left(R, t) = Left(S, t)
BY DEF Alike, Left

LEMMA RetryIsAlike ==
  ASSUME NEW S, NEW un, OutFields \subseteq DOMAIN S
  PROVE  /\ Alike(S, Out!RetryDelivery(S, un))
         /\ Out!RetryDelivery(S, un).thread = S.thread
<1> DEFINE back == [S EXCEPT !.cursor = S.turnCursor]
<1>1. Alike(S, back) /\ back.thread = S.thread
  BY DEF Alike, OutFields
<1>2. \/ Out!RetryDelivery(S, un) = S
      \/ Out!RetryDelivery(S, un) = back
      \/ Out!RetryDelivery(S, un) = Out!Write(back, S.turnText, un)
  BY DEF Out!RetryDelivery
<1> HIDE DEF back
<1>3. /\ Alike(S, Out!Write(back, S.turnText, un))
      /\ Out!Write(back, S.turnText, un).thread = S.thread
  BY <1>1 DEF Out!Write, Alike, OutFields
<1>4. Alike(S, S)
  BY DEF Alike
<1> QED
  BY <1>1, <1>2, <1>3, <1>4

LEMMA AlikeTwice ==
  ASSUME NEW S, NEW R, NEW Q, Alike(S, R), Alike(R, Q), R.thread = S.thread,
         Q.thread = R.thread
  PROVE  Alike(S, Q) /\ Q.thread = S.thread
BY DEF Alike

(* The verdict on the turn, last of all.                                   *)
LEMMA VerdictIsOut ==
  ASSUME NEW S, NEW t \in Out!Threads, Moving(S, t, Left(S, t))
  PROVE  OutInv(Out!Verdict(S, t))
<1> DEFINE others == Out!Unhandled(S) \
                       (IF t = "chain" THEN {Head(S.events).query} ELSE {})
           Handled == [S EXCEPT !.handled = TRUE]
           Retried == Out!RetryDelivery(Handled, others)
           Error == [S EXCEPT !.handled = TRUE, !.hadError = TRUE]
           Told == Out!NotifyUserDelivery(S)
<1>1. OutFields \subseteq DOMAIN S
  BY DEF Moving, OutShape
<1>2. /\ Alike(S, S)
      /\ Alike(S, Handled) /\ Handled.thread = S.thread
      /\ Alike(S, Error) /\ Error.thread = S.thread
      /\ Alike(S, Told) /\ Told.thread = S.thread
  BY <1>1 DEF Alike, OutFields, Out!NotifyUserDelivery
<1>3. \/ Out!Verdict(S, t) = Out!Return(Retried, t)
      \/ Out!Verdict(S, t) = Out!Return(Error, t)
      \/ Out!Verdict(S, t) = Out!Return(Told, t)
      \/ Out!Verdict(S, t) = Out!Return(S, t)
  BY DEF Out!Verdict
<1> HIDE DEF Handled, Error, Told, others
<1>4. Alike(S, Retried) /\ Retried.thread = S.thread
  BY <1>2, RetryIsAlike, AlikeTwice DEF Alike
<1> HIDE DEF Retried
<1>5. ASSUME NEW R, Alike(S, R), R.thread = S.thread
      PROVE  OutInv(Out!Return(R, t))
  BY <1>5, AlikeMoves, LeftAlike, ReturnIsOut
<1> QED
  BY <1>2, <1>3, <1>4, <1>5

LEMMA SlackWaits ==
  ASSUME NEW S, NEW R, NEW u, Slack(S, R), Waits(S, u)
  PROVE  Waits(R, u)
BY DEF Slack, SlackStreams, Waits, TheOutput

LEMMA SlackTypes ==
  ASSUME NEW S, NEW R, Slack(S, R), OutShape(S), OutTypes(S)
  PROVE  OutShape(R) /\ OutTypes(R)
BY DEF Slack, SlackStreams, SlackBuffers, OutShape, OutTypes

LEMMA SlackPlace ==
  ASSUME NEW S, NEW R, NEW es, NEW T, NEW x \in Finals, Slack(S, R), OnePlace(S, es, T, x)
  PROVE  OnePlace(R, es, T, x)
<1>1. /\ InChat(R, x) <=> InChat(S, x)
      /\ Buffered(R, x) => Buffered(S, x)
      /\ Old(R, x) <=> Old(S, x)
      /\ R.chat = S.chat
  BY DEF Slack, SlackBuffers, InChat, Buffered, Old
<1>2. Buffered(R, x) => R.attempted = S.attempted
  BY DEF Slack, SlackBuffers, Buffered
<1>3. \A u \in T : Sending(R, u, x) <=> Sending(S, u, x)
  BY DEF Slack, Sending
<1> QED
  BY <1>1, <1>2, <1>3 DEF OnePlace

LEMMA SlackMovesOn ==
  ASSUME NEW S, NEW R, NEW t, NEW es, Moving(S, t, es), Slack(S, R)
  PROVE  Moving(R, t, es)
<1>1. OutShape(R) /\ OutTypes(R)
  BY SlackTypes DEF Moving
<1>2. \A u \in Out!Threads \ {t} : Waits(R, u)
  BY SlackWaits DEF Moving
<1>3. \A x \in Finals : OnePlace(R, es, Out!Threads \ {t}, x)
  BY SlackPlace DEF Moving
<1>4. R.events = S.events
  BY DEF Slack
<1> QED
  BY <1>1, <1>2, <1>3, <1>4 DEF Moving

LEMMA SlackMoves ==
  ASSUME NEW S, NEW R, NEW t, Moving(S, t, Left(S, t)), Slack(S, R)
  PROVE  Moving(R, t, Left(R, t)) /\ Left(R, t) = Left(S, t)
<1>1. Left(R, t) = Left(S, t)
  BY DEF Slack, Left
<1> QED
  BY <1>1, SlackMovesOn

LEMMA SlackOut ==
  ASSUME NEW S, NEW R, OutInv(S), Slack(S, R)
  PROVE  OutInv(R)
<1>1. Left(R, "none") = Left(S, "none")
  BY DEF Slack, Left
<1>2. OutShape(R) /\ OutTypes(R)
  BY SlackTypes DEF OutInv
<1>3. \A u \in Out!Threads : Waits(R, u)
  BY SlackWaits DEF OutInv
<1>4. \A x \in Finals : OnePlace(R, Left(S, "none"), Out!Threads, x)
  BY SlackPlace DEF OutInv
<1>5. ApartAt(R)
  BY DEF OutInv, Slack, ApartAt
<1> QED
  BY <1>1, <1>2, <1>3, <1>4, <1>5 DEF OutInv

(* One field of one stream changes.                                        *)
LEMMA AlikeSlack ==
  ASSUME NEW S, NEW R, OutTypes(S), Alike(S, R), R.thread = S.thread
  PROVE  Slack(S, R)
BY DEF OutTypes, Alike, Slack, SlackStreams, SlackBuffers

LEMMA EndStream ==
  ASSUME NEW st \in Seq(StreamRecords), NEW h, NEW b \in BOOLEAN
  PROVE  EndedStream(st, [st EXCEPT ![h].ended = b], h, b)
<1> DEFINE ns == [st EXCEPT ![h].ended = b]
<1>1. st \in [1..Len(st) -> StreamRecords] /\ Len(st) \in Nat
  OBVIOUS
<1>2. ns \in [1..Len(st) -> StreamRecords]
  BY <1>1 DEF StreamRecords
<1>3. ns \in Seq(StreamRecords) /\ Len(ns) = Len(st)
  BY <1>1, <1>2
<1>4. DOMAIN ns = DOMAIN st
  OBVIOUS
<1>5. \A g \in DOMAIN st : g # h => ns[g] = st[g]
  OBVIOUS
<1>6. ASSUME h \in DOMAIN st
      PROVE  /\ ns[h].ended = b /\ ns[h].lost = st[h].lost
             /\ ns[h].draining = st[h].draining
  <2>1. st[h] \in StreamRecords
    BY <1>1, <1>6
  <2>2. ns[h] = [st[h] EXCEPT !.ended = b]
    BY <1>6
  <2> QED
    BY <2>1, <2>2 DEF StreamRecords
<1> QED
  BY <1>3, <1>4, <1>5, <1>6 DEF EndedStream

LEMMA CancelIsSlack ==
  ASSUME NEW S, NEW h, OutShape(S), OutTypes(S)
  PROVE  Slack(S, Out!Cancelled(S, h))
<1> DEFINE R == Out!Cancelled(S, h)
           b == S.streams[h].ended \/ ~Out!Dead(S, h)
           ns == [S.streams EXCEPT ![h].ended = b]
<1>1. /\ OutFields \subseteq DOMAIN R
      /\ R.chat = S.chat /\ R.events = S.events /\ R.thread = S.thread
      /\ R.query = S.query /\ R.emitted = S.emitted /\ R.channel = S.channel
      /\ R.buffer = S.buffer /\ R.failure = S.failure /\ R.partial = S.partial
      /\ R.attempted = S.attempted /\ R.handle = 0
  BY DEF Out!Cancelled, OutShape, OutFields
<1>2. R.streams = ns
  BY DEF Out!Cancelled, OutShape, OutFields
<1>3. b \in BOOLEAN /\ (S.streams[h].ended => b)
  OBVIOUS
<1> HIDE DEF b
<1>4. EndedStream(S.streams, ns, h, b)
  BY <1>3, EndStream DEF OutTypes
<1> HIDE DEF R, ns
<1>5. \A g \in DOMAIN S.streams : S.streams[g].ended => ns[g].ended
  BY <1>3, <1>4 DEF b, EndedStream
<1>6. Len(S.streams) \in Nat
  BY DEF OutTypes
<1>7. SlackStreams(S, R)
  BY <1>1, <1>2, <1>4, <1>5, <1>6 DEF SlackStreams, OutTypes, EndedStream
<1>8. Slack(S, R)
  BY <1>1, <1>7 DEF Slack, SlackBuffers, OutTypes
<1> QED
  BY <1>8 DEF R

(* A thread waits for the frames in flight.                                *)
LEMMA SettlesOut ==
  ASSUME NEW S, NEW t \in Out!Threads, NEW where \in {"cancel", "settle"}, NEW h,
         Moving(S, t, Left(S, t))
  PROVE  OutInv(Out!Wait(S, t, where, h, {}))
<1> DEFINE R == Out!Wait(S, t, where, h, {})
<1>1. WaitsThus(S, R, t, where, h, {})
  BY WaitMoves DEF Moving
<1> HIDE DEF R
<1>2. OnlyMoves(S, R, t) /\ R.thread[t].at = where /\ R.thread[t].texts = {}
  BY <1>1 DEF WaitsThus
<1>3. Left(R, "none") = Left(S, t)
  BY <1>2 DEF OnlyMoves, Alike, Left, Out!Threads
<1>4. Waits(R, t)
  BY <1>2 DEF Waits, OnlyMoves, Alike, Moving
<1>5. OutInv(R)
  BY <1>2, <1>3, <1>4, WaitsAgain
<1> QED
  BY <1>5 DEF R

LEMMA CleanupIsOut ==
  ASSUME NEW S, NEW t \in Out!Threads, Moving(S, t, Left(S, t))
  PROVE  OutInv(Out!Cleanup(S, t))
<1>1. Moving(Out!Cancelled(S, S.handle), t, Left(Out!Cancelled(S, S.handle), t))
  BY CancelIsSlack, SlackMoves DEF Moving
<1>2. OutInv(Out!Verdict(Out!Cancelled(S, S.handle), t))
  BY <1>1, VerdictIsOut
<1>3. OutInv(Out!Wait(S, t, "cancel", S.handle, {}))
  BY SettlesOut
<1>4. OutInv(Out!Verdict(S, t))
  BY VerdictIsOut
<1> QED
  BY <1>2, <1>3, <1>4 DEF Out!Cleanup

LEMMA EndsOut ==
  ASSUME NEW S, NEW t \in Out!Threads, NEW h \in DOMAIN S.streams, NEW R,
         Moving(S, t, Left(S, t)), EndsStream(S, R, t, h), ~S.streams[h].ended,
         R.thread[t].texts \subseteq TextRecords,
         \/ R.thread[t].stage = "callback" /\ TheOutput(R, t)
         \/ R.thread[t].stage = "unfinished" /\ R.thread[t].texts \cap Finals = {}
  PROVE  OutInv(R)
<1> DEFINE ns == [S.streams EXCEPT ![h].ended = TRUE]
           M == [S EXCEPT !.handle = R.handle, !.streams = ns]
<1>1. /\ OutFields \subseteq DOMAIN M
      /\ M.chat = S.chat /\ M.events = S.events /\ M.streams = ns
      /\ M.handle = R.handle /\ M.buffer = S.buffer /\ M.failure = S.failure
      /\ M.partial = S.partial /\ M.query = S.query /\ M.emitted = S.emitted
      /\ M.channel = S.channel /\ M.attempted = S.attempted /\ M.thread = S.thread
  BY DEF Moving, OutShape, OutFields
<1>2. S.streams \in Seq(StreamRecords) /\ S.handle \in 0..Len(S.streams)
  BY DEF Moving, OutTypes
<1>3. EndedStream(S.streams, ns, h, TRUE)
  BY <1>2, EndStream
<1>4. S.streams[h].lost = FALSE \/ ~S.streams[h].lost
  BY DEF Moving, OutTypes
<1> HIDE DEF M, ns
<1>5. SlackStreams(S, M)
  <2>1. Len(S.streams) \in Nat
    BY <1>2
  <2>2. M.handle \in 0..Len(M.streams)
    BY <1>1, <1>2, <1>3, <2>1 DEF EndsStream, EndedStream
  <2>3. \A g \in DOMAIN ns : ns[g].lost => ns[g].ended
    BY <1>3 DEF EndedStream, Moving, OutTypes
  <2>4. \A g \in DOMAIN S.streams : S.streams[g].ended => ns[g].ended
    BY <1>3 DEF EndedStream
  <2> QED
    BY <1>1, <1>3, <2>2, <2>3, <2>4 DEF SlackStreams, EndedStream
<1>6. Slack(S, M)
  BY <1>1, <1>5 DEF Slack, SlackBuffers, Moving, OutTypes
<1>7. Moving(M, t, Left(M, t))
  BY <1>6, SlackMoves
<1>8. OnlyMoves(M, R, t)
  BY <1>1 DEF OnlyMoves, Alike, EndsStream, ns
<1>9. Left(R, "none") = Left(M, t)
  BY <1>8 DEF EndsStream, OnlyMoves, Alike, Left, Out!Threads
<1>10. Waits(R, t)
  <2>1. /\ R.streams = ns /\ h \in DOMAIN ns /\ ns[h].ended = TRUE
        /\ ns[h].lost = S.streams[h].lost
    BY <1>3 DEF EndedStream, EndsStream, ns
  <2>2. t = "chain" => R.events # <<>>
    BY DEF EndsStream, Moving
  <2> QED
    BY <1>4, <2>1, <2>2 DEF Waits, EndsStream
<1>11. \A u \in Out!Threads \ {t} : M.thread[u].at = "end" => M.thread[u].hold # h
  BY <1>1 DEF Moving, Waits
<1> QED
  BY <1>7, <1>8, <1>9, <1>10, <1>11, WaitsAgain DEF EndsStream

(* The stages of finalizeNativeStreamTerminal, the last one first.         *)
LEMMA FailedAlike ==
  ASSUME NEW S, NEW t, NEW b, Moving(S, t, Left(S, t))
  PROVE  Moving([S EXCEPT !.failed = b], t, Left([S EXCEPT !.failed = b], t))
<1> DEFINE R == [S EXCEPT !.failed = b]
<1>1. Alike(S, R) /\ R.thread = S.thread
  BY DEF Moving, OutShape, Alike, OutFields
<1> HIDE DEF R
<1>2. Moving(R, t, Left(R, t))
  BY <1>1, AlikeMoves, LeftAlike
<1> QED
  BY <1>2 DEF R

LEMMA AfterUnfinishedIsOut ==
  ASSUME NEW S, NEW t \in Out!Threads, NEW landed, Moving(S, t, Left(S, t))
  PROVE  OutInv(Out!AfterUnfinished(S, t, landed))
BY FailedAlike, CleanupIsOut DEF Out!AfterUnfinished

LEMMA UnfinishedEndedIsOut ==
  ASSUME NEW S, NEW t \in Out!Threads, NEW h, NEW what \in SUBSET (TextRecords \ Finals),
         Moving(S, t, Left(S, t))
  PROVE  OutInv(Out!UnfinishedEnded(S, t, h, what))
<1> DEFINE f == [S EXCEPT !.failed = TRUE, !.failure = what]
           g == [S EXCEPT !.sent = TRUE]
<1>1. Slack(S, f)
  BY DEF Slack, SlackStreams, SlackBuffers, Moving, OutShape, OutTypes, OutFields
<1>2. Slack(S, g)
  BY DEF Slack, SlackStreams, SlackBuffers, Moving, OutShape, OutTypes, OutFields
<1>3. \/ Out!UnfinishedEnded(S, t, h, what) = Out!Cleanup(g, t)
      \/ /\ Out!UnfinishedEnded(S, t, h, what) = Out!SendPlain(f, t, what, "unfinished")
         /\ Out!MaySendPlain(f, what)
      \/ Out!UnfinishedEnded(S, t, h, what) = Out!AfterUnfinished(f, t, f.delivered)
  BY DEF Out!UnfinishedEnded
<1> HIDE DEF f, g
<1>4. Moving(f, t, Left(f, t)) /\ Moving(g, t, Left(g, t))
  BY <1>1, <1>2, SlackMoves
<1>5. Out!MaySendPlain(f, what) => OutInv(Out!SendPlain(f, t, what, "unfinished"))
  <2>1. what \subseteq TextRecords /\ what \cap Finals = {}
    OBVIOUS
  <2> QED
    BY <1>4, <2>1, SendsPlain
<1> QED
  BY <1>3, <1>4, <1>5, CleanupIsOut, AfterUnfinishedIsOut

LEMMA UnfinishedIsOut ==
  ASSUME NEW S, NEW t \in Out!Threads, Moving(S, t, Left(S, t))
  PROVE  OutInv(Out!Unfinished(S, t))
<1> DEFINE h == S.handle
           e == [S EXCEPT !.handle = 0]
           m == [e EXCEPT !.streams[h].ended = TRUE, !.thread[t].stage = "unfinished"]
           R == Out!Wait(m, t, "end", h, S.partial)
<1>1. \/ Out!Unfinished(S, t) = Out!Cleanup(S, t)
      \/ Out!Unfinished(S, t) = Out!UnfinishedEnded(e, t, h, S.partial)
      \/ /\ Out!Unfinished(S, t) = R
         /\ h # 0 /\ ~S.streams[h].ended
  BY DEF Out!Unfinished
<1>2. Slack(S, e)
  BY DEF Slack, SlackStreams, SlackBuffers, Moving, OutShape, OutTypes, OutFields
<1>3. S.partial \in SUBSET (TextRecords \ Finals) /\ h \in 0..Len(S.streams)
  BY DEF Moving, OutTypes
<1>4. ASSUME h # 0, ~S.streams[h].ended PROVE OutInv(R)
  <2>1. /\ OutShape(m)
        /\ m.chat = S.chat /\ m.events = S.events /\ m.handle = 0
        /\ m.buffer = S.buffer /\ m.failure = S.failure
        /\ m.partial = S.partial /\ m.query = S.query /\ m.emitted = S.emitted
        /\ m.channel = S.channel /\ m.attempted = S.attempted
        /\ \A u \in Out!Threads : u # t => m.thread[u] = S.thread[u]
        /\ m.thread[t].stage = "unfinished"
    BY DEF Moving, OutShape, OutFields, ThreadFields
  <2>2. m.streams = [S.streams EXCEPT ![h].ended = TRUE]
    BY DEF Moving, OutShape, OutFields
  <2> HIDE DEF m
  <2>3. WaitsThus(m, R, t, "end", h, S.partial)
    BY <2>1, WaitMoves
  <2> HIDE DEF R, h
  <2>4. EndsStream(S, R, t, h)
    BY <2>1, <2>2, <2>3 DEF EndsStream, WaitsThus, OnlyMoves, Alike
  <2>5. R.thread[t].texts = S.partial /\ R.thread[t].stage = "unfinished"
    BY <2>1, <2>3 DEF WaitsThus
  <2>6. h \in DOMAIN S.streams
    BY <1>3, <1>4 DEF Moving, OutTypes
  <2> QED
    BY <1>3, <1>4, <2>4, <2>5, <2>6, EndsOut
<1> HIDE DEF R, e, h
<1>5. OutInv(Out!UnfinishedEnded(e, t, h, S.partial))
  BY <1>2, <1>3, SlackMoves, UnfinishedEndedIsOut
<1> QED
  BY <1>1, <1>4, <1>5, CleanupIsOut

LEMMA AfterPartialIsOut ==
  ASSUME NEW S, NEW t \in Out!Threads, NEW landed, Moving(S, t, Left(S, t))
  PROVE  OutInv(Out!AfterPartial(S, t, landed))
BY FailedAlike, UnfinishedIsOut DEF Out!AfterPartial

LEMMA PartialFallbackIsOut ==
  ASSUME NEW S, NEW t \in Out!Threads, Moving(S, t, Left(S, t))
  PROVE  OutInv(Out!PartialFallback(S, t))
<1>1. \/ Out!PartialFallback(S, t) = Out!Unfinished(S, t)
      \/ Out!PartialFallback(S, t) = Out!AfterPartial(S, t, S.delivered)
      \/ /\ Out!PartialFallback(S, t) = Out!SendPlain(S, t, S.partial, "partial")
         /\ Out!MaySendPlain(S, S.partial)
  BY DEF Out!PartialFallback
<1>2. S.partial \subseteq TextRecords /\ S.partial \cap Finals = {}
  BY DEF Moving, OutTypes
<1>3. Out!MaySendPlain(S, S.partial) => OutInv(Out!SendPlain(S, t, S.partial, "partial"))
  BY <1>2, SendsPlain
<1> QED
  BY <1>1, <1>3, UnfinishedIsOut, AfterPartialIsOut

LEMMA ProbeIsSlack ==
  ASSUME NEW S, OutShape(S), OutTypes(S)
  PROVE  Slack(S, Out!Probe(S))
BY DEF Out!Probe, Slack, SlackStreams, SlackBuffers, OutShape, OutTypes, OutFields

LEMMA SettleIsOut ==
  ASSUME NEW S, NEW t \in Out!Threads, Moving(S, t, Left(S, t))
  PROVE  OutInv(Out!Settle(S, t))
<1>1. OutInv(Out!Wait(S, t, "settle", S.handle, {}))
  BY SettlesOut
<1>2. Moving(Out!Probe(S), t, Left(Out!Probe(S), t))
  BY ProbeIsSlack, SlackMoves DEF Moving
<1>3. OutInv(Out!PartialFallback(Out!Probe(S), t))
  BY <1>2, PartialFallbackIsOut
<1> QED
  BY <1>1, <1>3 DEF Out!Settle

LEMMA AfterFailureIsOut ==
  ASSUME NEW S, NEW t \in Out!Threads, NEW landed, Moving(S, t, Left(S, t))
  PROVE  OutInv(Out!AfterFailure(S, t, landed))
BY FailedAlike, SettleIsOut DEF Out!AfterFailure

LEMMA FailureFallbackIsOut ==
  ASSUME NEW S, NEW t \in Out!Threads, Moving(S, t, Left(S, t))
  PROVE  OutInv(Out!FailureFallback(S, t))
<1>1. \/ Out!FailureFallback(S, t) = Out!Settle(S, t)
      \/ Out!FailureFallback(S, t) = Out!AfterFailure(S, t, S.delivered)
      \/ /\ Out!FailureFallback(S, t) = Out!SendPlain(S, t, S.failure, "failure")
         /\ Out!MaySendPlain(S, S.failure)
  BY DEF Out!FailureFallback
<1>2. S.failure \subseteq TextRecords
  BY DEF Moving, OutTypes
<1>3. Out!MaySendPlain(S, S.failure) => OutInv(Out!SendPlain(S, t, S.failure, "failure"))
  BY <1>2, SendsPlain
<1> QED
  BY <1>1, <1>3, SettleIsOut, AfterFailureIsOut

LEMMA AfterCoalescedIsOut ==
  ASSUME NEW S, NEW t \in Out!Threads, NEW landed, Moving(S, t, Left(S, t))
  PROVE  OutInv(Out!AfterCoalesced(S, t, landed))
<1> DEFINE R == [S EXCEPT !.armed = FALSE, !.buffer = {}, !.failed = @ \/ ~landed]
<1>1. Slack(S, R)
  BY DEF Slack, SlackStreams, SlackBuffers, Moving, OutShape, OutTypes, OutFields
<1>2. Out!AfterCoalesced(S, t, landed) = Out!FailureFallback(R, t)
  BY DEF Out!AfterCoalesced
<1> HIDE DEF R
<1> QED
  BY <1>1, <1>2, SlackMoves, FailureFallbackIsOut

LEMMA FinalizeIsOut ==
  ASSUME NEW S, NEW t \in Out!Threads, Moving(S, t, Left(S, t))
  PROVE  OutInv(Out!Finalize(S, t))
<1>1. \/ Out!Finalize(S, t) = Out!FailureFallback(S, t)
      \/ Out!Finalize(S, t) = Out!AfterCoalesced(S, t, S.delivered)
      \/ /\ Out!Finalize(S, t) = Out!SendPlain(S, t, S.buffer, "coalesced")
         /\ Out!MaySendPlain(S, S.buffer)
  BY DEF Out!Finalize
<1>2. S.buffer \subseteq TextRecords
  BY DEF Moving, OutTypes
<1>3. Out!MaySendPlain(S, S.buffer) => OutInv(Out!SendPlain(S, t, S.buffer, "coalesced"))
  BY <1>2, SendsPlain
<1> QED
  BY <1>1, <1>3, FailureFallbackIsOut, AfterCoalescedIsOut

(* The callback: it may be over, or wait for the typing indicator, once    *)
(* its output needs no place any more.                                     *)
LEMMA CallbackOverIsOut ==
  ASSUME NEW S, Moving(S, "chain", Tail(S.events))
  PROVE  OutInv(Out!CallbackOver(S))
<1> DEFINE R == Out!CallbackOver(S)
<1>1. OutShape(S)
  BY DEF Moving
<1>2. Pops(S, R)
  BY <1>1 DEF Pops, Out!CallbackOver, Out!Rest, Out!Resting, OutShape, OutFields,
             ThreadFields, Out!Threads
<1> QED
  BY <1>2, Popped

LEMMA InterimIsOut ==
  ASSUME NEW S, Moving(S, "chain", Tail(S.events))
  PROVE  OutInv(Out!Interim(S))
<1> DEFINE R == Out!Interim(S)
<1>1. "chain" \in Out!Threads /\ OutShape(S)
  BY DEF Out!Threads, Moving
<1>2. WaitsThus(S, R, "chain", "interim", 0, {})
  BY <1>1, WaitMoves DEF Out!Interim
<1> HIDE DEF R
<1>3. OnlyMoves(S, R, "chain") /\ R.thread["chain"].at = "interim" /\ R.thread["chain"].texts = {}
  BY <1>2 DEF WaitsThus
<1>4. Left(R, "none") = Tail(S.events)
  BY <1>3 DEF OnlyMoves, Alike, Left
<1>5. Waits(R, "chain")
  BY <1>3 DEF Waits, OnlyMoves, Alike, Moving
<1>6. OutInv(R)
  BY <1>1, <1>3, <1>4, <1>5, WaitsAgain
<1> QED
  BY <1>6 DEF R

LEMMA FinalOutIsOut ==
  ASSUME NEW S, Moving(S, "chain", Tail(S.events))
  PROVE  OutInv(Out!FinalOut(S))
<1> DEFINE R == [S EXCEPT !.progressive = 0, !.partial = {}, !.sent = TRUE]
<1>1. Slack(S, R) /\ R.events = S.events
  BY DEF Slack, SlackStreams, SlackBuffers, Moving, OutShape, OutTypes, OutFields
<1>2. Out!FinalOut(S) = Out!Interim(R)
  BY DEF Out!FinalOut
<1> HIDE DEF R
<1> QED
  BY <1>1, <1>2, SlackMovesOn, InterimIsOut

LEMMA HeadText ==
  ASSUME NEW es \in Seq(OutputRecords), es # <<>>
  PROVE  /\ Out!TextOf(Head(es)) \in TextRecords
         /\ Head(es) \in OutputRecords
         /\ Out!TextOf(Head(es)) \in Finals <=> Head(es).kind = "final"
         /\ Out!TextOf(Head(es)) \in Finals => DueAt(es, 1, Out!TextOf(Head(es)))
         /\ 1 \in DOMAIN es
<1>1. Head(es) \in OutputRecords /\ Head(es) = es[1] /\ 1 \in DOMAIN es
  BY TailFacts
<1> QED
  BY <1>1 DEF Out!TextOf, TextRecords, OutputRecords, Finals, DueAt

(* The output in hand, if it is a final, has no place but the queue.       *)
LEMMA InHandOnly ==
  ASSUME NEW S, Moving(S, "chain", S.events), NEW x \in {Out!TextOf(Head(S.events))} \cap Finals
  PROVE  /\ ~InChat(S, x) /\ ~Due(Tail(S.events), x) /\ ~Buffered(S, x) /\ Old(S, x)
         /\ \A u \in Out!Threads \ {"chain"} : ~Sending(S, u, x)
<1>1. S.events \in Seq(OutputRecords) /\ S.events # <<>>
  BY DEF Moving, OutTypes
<1>2. DueAt(S.events, 1, x) /\ Due(S.events, x)
  BY <1>1, HeadText DEF Due
<1>3. OnePlace(S, S.events, Out!Threads \ {"chain"}, x)
  BY DEF Moving
<1>4. ~Due(Tail(S.events), x)
  BY <1>1, <1>2, <1>3, DueLess DEF OnePlace
<1> QED
  BY <1>2, <1>3, <1>4 DEF OnePlace

LEMMA HoldsOne ==
  ASSUME NEW S, NEW R, Moving(S, "chain", S.events),
         Holds(S, R, {Out!TextOf(Head(S.events))})
  PROVE  Moving(R, "chain", Tail(R.events))
<1> DEFINE what == {Out!TextOf(Head(S.events))}
           es == Tail(S.events)
<1>1. S.events \in Seq(OutputRecords) /\ S.events # <<>>
  BY DEF Moving, OutTypes
<1>2. what \subseteq TextRecords
  BY <1>1, HeadText
<1>3. Moving(S, "chain", es)
  BY LessMoving
<1>4. OutShape(R)
  BY DEF Holds, Moving, OutShape
<1> HIDE DEF what
<1>5. Holds(S, R, what)
  BY DEF what
<1>6. OutTypes(R)
  <2>1. R.buffer \subseteq TextRecords /\ R.failure \subseteq TextRecords
    BY <1>2, <1>5 DEF Holds, Moving, OutTypes
  <2>2. R.partial \subseteq TextRecords \ Finals
    BY <1>5 DEF Holds, Moving, OutTypes
  <2>3. R.handle \in 0..Len(R.streams)
    BY <1>5 DEF Holds, Moving, OutTypes
  <2> QED
    BY <1>5, <2>1, <2>2, <2>3 DEF Holds, Moving, OutTypes
<1>7. \A u \in Out!Threads \ {"chain"} : Waits(R, u)
  BY <1>5 DEF Holds, Moving, Waits, TheOutput
<1>8. ASSUME NEW x \in Finals PROVE OnePlace(R, es, Out!Threads \ {"chain"}, x)
  <2>1. OnePlace(S, es, Out!Threads \ {"chain"}, x)
    BY <1>3 DEF Moving
  <2>2. /\ InChat(R, x) <=> InChat(S, x)
        /\ Old(R, x) <=> Old(S, x)
        /\ R.chat = S.chat /\ R.attempted = S.attempted
    BY <1>5 DEF Holds, InChat, Old
  <2>3. \A u \in Out!Threads \ {"chain"} : Sending(R, u, x) <=> Sending(S, u, x)
    BY <1>5 DEF Holds, Sending
  <2>4. CASE x \in what
    <3>1. /\ ~InChat(S, x) /\ ~Due(es, x) /\ Old(S, x)
          /\ \A u \in Out!Threads \ {"chain"} : ~Sending(S, u, x)
      BY <2>4, InHandOnly DEF what
    <3> QED
      BY <2>1, <2>2, <2>3, <3>1 DEF OnePlace
  <2>5. CASE x \notin what
    <3>1. Buffered(R, x) => Buffered(S, x)
      BY <1>5, <2>5 DEF Holds, Buffered
    <3> QED
      BY <2>1, <2>2, <2>3, <3>1 DEF OnePlace
  <2> QED
    BY <2>4, <2>5
<1>9. R.events = S.events
  BY <1>5 DEF Holds
<1> QED
  BY <1>1, <1>4, <1>6, <1>7, <1>8, <1>9 DEF Moving

LEMMA PlacesOne ==
  ASSUME NEW S, NEW R, NEW t, NEW es, NEW what, NEW k,
         Moving(S, t, es), Places(S, R, what, k),
         \A x \in what \cap Finals :
           /\ ~InChat(S, x) /\ ~Due(es, x) /\ (Buffered(S, x) => S.attempted) /\ Old(S, x)
           /\ \A u \in Out!Threads \ {t} : ~Sending(S, u, x)
  PROVE  Moving(R, t, es)
<1>1. OutShape(R) /\ OutTypes(R)
  BY DEF Places, Moving, OutShape, OutTypes
<1>2. \A u \in Out!Threads \ {t} : Waits(R, u)
  BY DEF Places, Moving, Waits, TheOutput
<1>3. ASSUME NEW x \in Finals PROVE OnePlace(R, es, Out!Threads \ {t}, x)
  <2>1. OnePlace(S, es, Out!Threads \ {t}, x)
    BY DEF Moving
  <2>2. /\ Buffered(R, x) <=> Buffered(S, x)
        /\ Old(R, x) <=> Old(S, x)
        /\ R.attempted = S.attempted
    BY DEF Places, Buffered, Old
  <2>3. \A u \in Out!Threads \ {t} : Sending(R, u, x) <=> Sending(S, u, x)
    BY DEF Places, Sending
  <2>4. CASE x \in what
    <3>1. \A b \in DOMAIN R.chat : x \in R.chat[b] => b = k
      BY <2>4 DEF Places, InChat
    <3>2. \A b, c \in DOMAIN R.chat : x \in R.chat[b] /\ x \in R.chat[c] => b = c
      BY <3>1
    <3>3. /\ ~Due(es, x) /\ (Buffered(S, x) => S.attempted) /\ Old(S, x)
          /\ \A u \in Out!Threads \ {t} : ~Sending(S, u, x)
      BY <2>4
    <3> QED
      BY <2>1, <2>2, <2>3, <3>2, <3>3 DEF OnePlace
  <2>5. CASE x \notin what
    <3>1. \A b \in DOMAIN R.chat : x \in R.chat[b] => b \in DOMAIN S.chat /\ x \in S.chat[b]
      BY <2>5 DEF Places
    <3>2. InChat(R, x) => InChat(S, x)
      BY <3>1 DEF InChat
    <3> QED
      BY <2>1, <2>2, <2>3, <3>1, <3>2 DEF OnePlace
  <2> QED
    BY <2>4, <2>5
<1> QED
  BY <1>1, <1>2, <1>3 DEF Places, Moving

LEMMA PlacesOutput ==
  ASSUME NEW S, NEW R, NEW k, Moving(S, "chain", S.events),
         Places(S, R, {Out!TextOf(Head(S.events))}, k)
  PROVE  Moving(R, "chain", Tail(R.events))
<1>1. Moving(S, "chain", Tail(S.events))
  BY LessMoving
<1>2. R.events = S.events
  BY DEF Places
<1> QED
  BY <1>1, <1>2, InHandOnly, PlacesOne

LEMMA FinalHeldIsOut ==
  ASSUME NEW S, NEW R, Moving(S, "chain", S.events),
         Holds(S, R, {Out!TextOf(Head(S.events))})
  PROVE  OutInv(Out!Interim(R))
BY HoldsOne, InterimIsOut

LEMMA FinalLostIsOut ==
  ASSUME NEW S, NEW h, NEW bubble, Moving(S, "chain", S.events), S.streams[h].lost
  PROVE  OutInv(Out!FinalEnded(S, h, {Out!TextOf(Head(S.events))}, bubble))
<1> DEFINE what == {Out!TextOf(Head(S.events))}
           e == [S EXCEPT !.handle = 0, !.last = bubble]
           R == Out!FinalFailed([e EXCEPT !.progressive = 0], what)
<1>1. Out!FinalEnded(S, h, what, bubble) = Out!Interim(R)
  BY DEF Out!FinalEnded
<1>2. Holds(S, R, what)
  BY DEF Holds, Out!FinalFailed, Moving, OutShape, OutFields
<1> HIDE DEF R
<1> QED
  BY <1>1, <1>2, FinalHeldIsOut

LEMMA FinalLandedIsOut ==
  ASSUME NEW S, NEW h, NEW what, NEW bubble, Moving(S, "chain", Tail(S.events)),
         ~S.streams[h].lost
  PROVE  OutInv(Out!FinalEnded(S, h, what, bubble))
<1> DEFINE e == [S EXCEPT !.handle = 0, !.last = bubble]
<1>1. Out!FinalEnded(S, h, what, bubble) = Out!FinalOut(e)
  BY DEF Out!FinalEnded
<1>2. Slack(S, e) /\ e.events = S.events
  BY DEF Slack, SlackStreams, SlackBuffers, Moving, OutShape, OutTypes, OutFields
<1> HIDE DEF e
<1> QED
  BY <1>1, <1>2, SlackMovesOn, FinalOutIsOut

(* A field of stream h changes: its frames, its death, its loss.           *)
LEMMA OneStream ==
  ASSUME NEW st \in Seq(StreamRecords), NEW h \in DOMAIN st, NEW r \in StreamRecords
  PROVE  /\ [st EXCEPT ![h] = r] \in Seq(StreamRecords)
         /\ Len([st EXCEPT ![h] = r]) = Len(st)
         /\ DOMAIN [st EXCEPT ![h] = r] = DOMAIN st
         /\ [st EXCEPT ![h] = r][h] = r
         /\ \A g \in DOMAIN st : g # h => [st EXCEPT ![h] = r][g] = st[g]
<1>1. st \in [1..Len(st) -> StreamRecords] /\ Len(st) \in Nat
  OBVIOUS
<1>2. [st EXCEPT ![h] = r] \in [1..Len(st) -> StreamRecords]
  BY <1>1
<1> QED
  BY <1>1, <1>2

LEMMA ChunkIsSlack ==
  ASSUME NEW S, OutShape(S), OutTypes(S), S.handle # 0
  PROVE  Slack(S, Out!Chunk(S))
<1> DEFINE R == Out!Chunk(S)
           h == S.handle
           b == S.streams[h].draining \/ ~(S.streams[h].dead \/ S.streams[h].ended)
           r == [S.streams[h] EXCEPT !.draining = b]
           ns == [S.streams EXCEPT ![h] = r]
<1>1. h \in DOMAIN S.streams
  BY DEF OutTypes
<1>2. S.streams[h] \in StreamRecords
  BY <1>1 DEF OutTypes
<1>3. b \in BOOLEAN
  OBVIOUS
<1> HIDE DEF b
<1>4. r \in StreamRecords /\ r.lost = S.streams[h].lost /\ r.ended = S.streams[h].ended
  BY <1>2, <1>3 DEF StreamRecords
<1>5. /\ OutFields \subseteq DOMAIN R
      /\ R.chat = S.chat /\ R.events = S.events /\ R.thread = S.thread
      /\ R.query = S.query /\ R.emitted = S.emitted /\ R.channel = S.channel
      /\ R.buffer = S.buffer /\ R.failure = S.failure /\ R.partial = S.partial
      /\ R.attempted = S.attempted /\ R.handle = S.handle
  BY DEF Out!Chunk, OutShape, OutFields
<1>6. R.streams = ns
  BY <1>1 DEF Out!Chunk, OutShape, OutFields, b
<1> HIDE DEF r
<1>7. /\ ns \in Seq(StreamRecords) /\ Len(ns) = Len(S.streams) /\ DOMAIN ns = DOMAIN S.streams
      /\ ns[h] = r /\ \A g \in DOMAIN S.streams : g # h => ns[g] = S.streams[g]
  BY <1>1, <1>4, OneStream DEF OutTypes
<1> HIDE DEF R, ns, h
<1>8. \A g \in DOMAIN S.streams : ns[g].lost = S.streams[g].lost /\ ns[g].ended = S.streams[g].ended
  BY <1>4, <1>7
<1>9. S.handle \in 0..Len(R.streams)
  BY <1>6, <1>7 DEF OutTypes
<1>10. SlackStreams(S, R)
  BY <1>5, <1>6, <1>7, <1>8, <1>9 DEF SlackStreams, OutTypes
<1>11. Slack(S, R)
  BY <1>5, <1>10 DEF Slack, SlackBuffers, OutTypes
<1> QED
  BY <1>11 DEF R

(* The chain waits with the output in hand.                                *)
LEMMA InHandWaits ==
  ASSUME NEW S, NEW where \in {"typing", "send", "edit", "open"}, NEW held,
         Moving(S, "chain", S.events)
  PROVE  OutInv(Out!Wait(S, "chain", where, held, {Out!TextOf(Head(S.events))}))
<1> DEFINE what == {Out!TextOf(Head(S.events))}
           R == Out!Wait(S, "chain", where, held, what)
<1>1. "chain" \in Out!Threads /\ OutShape(S)
  BY DEF Out!Threads, Moving
<1>2. what \subseteq TextRecords
  BY HeadText DEF Moving, OutTypes
<1>3. WaitsThus(S, R, "chain", where, held, what)
  BY <1>1, WaitMoves
<1> HIDE DEF R
<1>4. /\ OnlyMoves(S, R, "chain") /\ R.thread["chain"].at = where
      /\ R.thread["chain"].texts = what
  BY <1>3 DEF WaitsThus
<1>5. Left(R, "none") = S.events
  BY <1>4 DEF OnlyMoves, Alike, Left
<1>6. TheOutput(R, "chain")
  BY <1>4 DEF TheOutput, OnlyMoves, Alike, Moving
<1>7. Waits(R, "chain")
  BY <1>2, <1>4, <1>6 DEF Waits, OnlyMoves, Alike, Moving
<1>8. OutInv(R)
  BY <1>1, <1>4, <1>5, <1>7, WaitsAgain
<1> QED
  BY <1>8 DEF R

LEMMA MovesOn ==
  ASSUME NEW S, NEW R, NEW t \in Out!Threads, NEW es, Moving(S, t, es), OnlyMoves(S, R, t)
  PROVE  Moving(R, t, es)
<1>1. OutShape(R) /\ OutTypes(R)
  BY DEF OnlyMoves, Alike, Moving, OutShape, OutTypes
<1>2. \A u \in Out!Threads \ {t} : Waits(R, u)
  BY DEF OnlyMoves, Alike, Moving, Waits, TheOutput
<1>3. ASSUME NEW x \in Finals PROVE OnePlace(R, es, Out!Threads \ {t}, x)
  <2>1. OnePlace(S, es, Out!Threads \ {t}, x)
    BY DEF Moving
  <2>2. \A u \in Out!Threads \ {t} : Sending(R, u, x) <=> Sending(S, u, x)
    BY DEF OnlyMoves, Sending
  <2> QED
    BY <2>1, <2>2 DEF OnlyMoves, Alike, OnePlace, InChat, Buffered, Old
<1> QED
  BY <1>1, <1>2, <1>3 DEF Moving, OnlyMoves, Alike

LEMMA StageMoves ==
  ASSUME NEW S, NEW es, NEW st, Moving(S, "chain", es)
  PROVE  /\ Moving([S EXCEPT !.thread["chain"].stage = st], "chain", es)
         /\ [S EXCEPT !.thread["chain"].stage = st].events = S.events
<1> DEFINE R == [S EXCEPT !.thread["chain"].stage = st]
<1>1. OnlyMoves(S, R, "chain")
  BY DEF OnlyMoves, Alike, Moving, OutShape, OutFields, ThreadFields, Out!Threads
<1> HIDE DEF R
<1>2. "chain" \in Out!Threads
  BY DEF Out!Threads
<1>3. Moving(R, "chain", es) /\ R.events = S.events
  BY <1>1, <1>2, MovesOn DEF OnlyMoves, Alike
<1> QED
  BY <1>3 DEF R

LEMMA OutputIsOut ==
  ASSUME NEW S, Moving(S, "chain", S.events), Head(S.events).kind \in {"partial", "final"}
  PROVE  OutInv(Out!Output(S))
<1> DEFINE o == Head(S.events)
           what == {Out!TextOf(o)}
           p == [S EXCEPT !.partial = what]
           pc == [p EXCEPT !.thread["chain"].stage = "callback"]
<1>0. o \in OutputRecords /\ what \subseteq TextRecords
  BY HeadText DEF Moving, OutTypes
<1>1. CASE o.kind = "final"
  <2>1. Out!Output(S) = Out!Wait(S, "chain", "typing", 0, what)
    BY <1>1 DEF Out!Output
  <2> QED
    BY <2>1, InHandWaits
<1>2. CASE o.kind # "final"
  <2>1. what \subseteq TextRecords \ Finals
    BY <1>2, HeadText DEF Moving, OutTypes
  <2>2. Slack(S, p) /\ p.events = S.events /\ p.handle = S.handle
    BY <2>1 DEF Slack, SlackStreams, SlackBuffers, Moving, OutShape, OutTypes, OutFields
  <2>3. \/ Out!Output(S) = Out!Wait(p, "chain", "open", 0, what)
        \/ Out!Output(S) = Out!CallbackOver(Out!Probe(Out!Chunk(p))) /\ S.handle # 0
        \/ Out!Output(S) = Out!Wait(pc, "chain", IF S.progressive = 0 THEN "send" ELSE "edit",
                                    S.progressive, what)
    BY <1>2 DEF Out!Output, Moving, OutTypes
  <2> HIDE DEF p
  <2>4. Moving(p, "chain", S.events)
    BY <2>2, SlackMovesOn
  <2>5. OutInv(Out!Wait(p, "chain", "open", 0, what))
    BY <2>2, <2>4, InHandWaits
  <2>6. S.handle # 0 => OutInv(Out!CallbackOver(Out!Probe(Out!Chunk(p))))
    <3>1. SUFFICES ASSUME S.handle # 0
                   PROVE  OutInv(Out!CallbackOver(Out!Probe(Out!Chunk(p))))
      OBVIOUS
    <3>2. Moving(p, "chain", Tail(S.events))
      BY <2>2, <2>4, LessMoving
    <3>3. Slack(p, Out!Chunk(p))
      BY <2>2, <2>4, <3>1, ChunkIsSlack DEF Moving
    <3>4. Moving(Out!Chunk(p), "chain", Tail(S.events)) /\ Out!Chunk(p).events = S.events
      BY <2>2, <3>2, <3>3, SlackMovesOn DEF Slack
    <3>5. Slack(Out!Chunk(p), Out!Probe(Out!Chunk(p)))
      BY <3>4, ProbeIsSlack DEF Moving
    <3>6. /\ Moving(Out!Probe(Out!Chunk(p)), "chain", Tail(S.events))
          /\ Out!Probe(Out!Chunk(p)).events = S.events
      BY <3>4, <3>5, SlackMovesOn DEF Slack
    <3> QED
      BY <3>6, CallbackOverIsOut
  <2>7. Moving(pc, "chain", S.events) /\ pc.events = S.events
    BY <2>2, <2>4, StageMoves
  <2> HIDE DEF pc
  <2>8. ASSUME NEW where \in {"send", "edit"}
        PROVE  OutInv(Out!Wait(pc, "chain", where, S.progressive, what))
    BY <2>7, InHandWaits
  <2> QED
    BY <2>3, <2>5, <2>6, <2>8
<1> QED
  BY <1>1, <1>2

LEMMA ResetIsSlack ==
  ASSUME NEW S, OutShape(S), OutTypes(S)
  PROVE  Slack(S, Out!ResetDeliveryState(S))
<1> DEFINE R == [S EXCEPT !.stateSeq = S.seq, !.hadError = FALSE, !.sent = FALSE,
                 !.delivered = FALSE, !.attempted = FALSE, !.handled = FALSE,
                 !.failed = FALSE, !.failure = {}, !.progressive = 0,
                 !.partial = {}, !.last = 0, !.armed = FALSE, !.buffer = {}]
<1>1. /\ OutFields \subseteq DOMAIN R
      /\ R.chat = S.chat /\ R.events = S.events /\ R.thread = S.thread
      /\ R.query = S.query /\ R.emitted = S.emitted /\ R.channel = S.channel
      /\ R.streams = S.streams /\ R.handle = S.handle
      /\ R.buffer = {} /\ R.failure = {} /\ R.partial = {}
  BY DEF OutShape, OutFields
<1>2. Out!ResetDeliveryState(S) \in {S, R}
  BY DEF Out!ResetDeliveryState
<1> HIDE DEF R
<1>3. Slack(S, R)
  BY <1>1 DEF Slack, SlackStreams, SlackBuffers, OutTypes
<1>4. Slack(S, S)
  BY DEF Slack, SlackStreams, SlackBuffers, OutShape, OutTypes
<1> QED
  BY <1>2, <1>3, <1>4

LEMMA BoundaryWaits ==
  ASSUME NEW S, NEW held, Moving(S, "chain", S.events),
         Head(S.events).kind \in {"partial", "final"}
  PROVE  OutInv(Out!Wait(S, "chain", "boundary", held, {}))
<1> DEFINE R == Out!Wait(S, "chain", "boundary", held, {})
<1>1. "chain" \in Out!Threads /\ OutShape(S)
  BY DEF Out!Threads, Moving
<1>2. WaitsThus(S, R, "chain", "boundary", held, {})
  BY <1>1, WaitMoves
<1> HIDE DEF R
<1>3. /\ OnlyMoves(S, R, "chain") /\ R.thread["chain"].at = "boundary"
      /\ R.thread["chain"].texts = {}
  BY <1>2 DEF WaitsThus
<1>4. Left(R, "none") = S.events
  BY <1>3 DEF OnlyMoves, Alike, Left
<1>5. Waits(R, "chain")
  BY <1>3 DEF Waits, OnlyMoves, Alike, Moving
<1>6. OutInv(R)
  BY <1>1, <1>3, <1>4, <1>5, WaitsAgain
<1> QED
  BY <1>6 DEF R

LEMMA ResultIsOut ==
  ASSUME NEW S, Moving(S, "chain", S.events), Head(S.events).kind \in {"partial", "final"}
  PROVE  OutInv(Out!Result(S))
<1> DEFINE r == Out!ResetDeliveryState(S)
           m == [r EXCEPT !.seen = r.seq, !.boundary = TRUE]
           n == IF r.seq = r.seen THEN r ELSE m
           b == [n EXCEPT !.boundary = FALSE, !.progressive = 0, !.partial = {},
                          !.last = 0, !.sent = FALSE]
           c == Out!Cancelled(b, b.handle)
<1>1. Slack(S, r)
  BY ResetIsSlack DEF Moving
<1>2. \/ Out!Result(S) = Out!Output(n)
      \/ Out!Result(S) = Out!Output(b)
      \/ Out!Result(S) = Out!Output(c)
      \/ Out!Result(S) = Out!Wait(b, "chain", "boundary", b.handle, {})
  BY DEF Out!Result
<1> HIDE DEF r
<1>3. Moving(r, "chain", S.events) /\ r.events = S.events
  BY <1>1, SlackMovesOn DEF Slack
<1>4. Slack(r, m) /\ m.events = S.events
  BY <1>3 DEF Slack, SlackStreams, SlackBuffers, Moving, OutShape, OutTypes, OutFields
<1> HIDE DEF m
<1>5. Moving(m, "chain", S.events)
  BY <1>3, <1>4, SlackMovesOn
<1>6. Moving(n, "chain", S.events) /\ n.events = S.events
  BY <1>3, <1>4, <1>5
<1> HIDE DEF n
<1>7. Slack(n, b) /\ b.events = S.events
  BY <1>6 DEF Slack, SlackStreams, SlackBuffers, Moving, OutShape, OutTypes, OutFields
<1> HIDE DEF b
<1>8. Moving(b, "chain", S.events)
  BY <1>6, <1>7, SlackMovesOn
<1>9. Slack(b, c)
  BY <1>8, CancelIsSlack DEF Moving
<1> HIDE DEF c
<1>10. Moving(c, "chain", S.events) /\ c.events = S.events
  BY <1>7, <1>8, <1>9, SlackMovesOn DEF Slack
<1> QED
  BY <1>2, <1>6, <1>7, <1>8, <1>10, OutputIsOut, BoundaryWaits

LEMMA FinalIsOut ==
  ASSUME NEW S, Moving(S, "chain", S.events), TheOutput(S, "chain")
  PROVE  OutInv(Out!Final(S))
<1> DEFINE what == S.thread["chain"].texts
           h == S.handle
           c == [S EXCEPT !.thread["chain"].stage = "callback"]
           k == [S EXCEPT !.buffer = @ \cup what, !.progressive = 0, !.partial = {}]
           m == [c EXCEPT !.streams[h].ended = TRUE]
           E == Out!Wait(m, "chain", "end", h, what)
<1>1. what = {Out!TextOf(Head(S.events))}
  BY DEF TheOutput
<1>2. \/ Out!Final(S) = Out!Interim(k)
      \/ Out!Final(S) = Out!FinalEnded(S, h, what, 0)
      \/ Out!Final(S) = E /\ h # 0 /\ ~S.streams[h].ended
      \/ Out!Final(S) = Out!Wait(c, "chain", "edit", S.progressive, what)
      \/ Out!Final(S) = Out!Wait(c, "chain", "edit", S.last, what)
      \/ Out!Final(S) = Out!Wait(c, "chain", "send", 0, what)
  <2>1. CASE S.armed
    BY <2>1 DEF Out!Final
  <2>2. CASE ~S.armed /\ h # 0
    BY <2>2 DEF Out!Final
  <2>3. CASE ~S.armed /\ h = 0 /\ S.progressive # 0
    BY <2>3 DEF Out!Final
  <2>4. CASE ~S.armed /\ h = 0 /\ S.progressive = 0
    BY <2>4 DEF Out!Final
  <2> QED
    BY <2>1, <2>2, <2>3, <2>4
<1>3. OutInv(Out!Interim(k))
  <2>1. Holds(S, k, {Out!TextOf(Head(S.events))})
    BY <1>1 DEF Holds, Moving, OutShape, OutFields
  <2> HIDE DEF k
  <2> QED
    BY <2>1, FinalHeldIsOut
<1>4. OutInv(Out!FinalEnded(S, h, what, 0))
  <2>1. CASE S.streams[h].lost
    BY <1>1, <2>1, FinalLostIsOut
  <2>2. CASE ~S.streams[h].lost
    BY <2>2, LessMoving, FinalLandedIsOut
  <2> QED
    BY <2>1, <2>2
<1>5. Moving(c, "chain", S.events) /\ c.events = S.events
  BY StageMoves
<1>6. ASSUME h # 0, ~S.streams[h].ended PROVE OutInv(E)
  <2>1. /\ OutShape(m)
        /\ m.chat = S.chat /\ m.events = S.events /\ m.handle = S.handle
        /\ m.buffer = S.buffer /\ m.failure = S.failure
        /\ m.partial = S.partial /\ m.query = S.query /\ m.emitted = S.emitted
        /\ m.channel = S.channel /\ m.attempted = S.attempted
        /\ \A u \in Out!Threads : u # "chain" => m.thread[u] = S.thread[u]
        /\ m.thread["chain"].stage = "callback"
    BY DEF Moving, OutShape, OutFields, ThreadFields, Out!Threads
  <2>2. m.streams = [S.streams EXCEPT ![h].ended = TRUE]
    BY DEF Moving, OutShape, OutFields
  <2>3. h \in DOMAIN S.streams
    BY <1>6 DEF Moving, OutTypes
  <2>4. Left(S, "chain") = S.events
    BY DEF Left
  <2>5. "chain" \in Out!Threads
    BY DEF Out!Threads
  <2> HIDE DEF m
  <2>6. WaitsThus(m, E, "chain", "end", h, what)
    BY <2>1, <2>5, WaitMoves
  <2> HIDE DEF E, h
  <2>7. EndsStream(S, E, "chain", h)
    BY <2>1, <2>2, <2>6 DEF EndsStream, WaitsThus, OnlyMoves, Alike, h
  <2>8. E.thread["chain"].texts = what /\ E.thread["chain"].stage = "callback"
    BY <2>1, <2>6 DEF WaitsThus
  <2>9. TheOutput(E, "chain") /\ what \subseteq TextRecords
    <3>1. what \subseteq TextRecords
      BY <1>1, HeadText DEF Moving, OutTypes
    <3> QED
      BY <1>1, <2>7, <2>8, <3>1 DEF TheOutput, EndsStream, Moving
  <2> QED
    BY <1>6, <2>3, <2>4, <2>5, <2>7, <2>8, <2>9, EndsOut
<1> HIDE DEF E, c
<1>7. ASSUME NEW where \in {"send", "edit"}, NEW held
      PROVE  OutInv(Out!Wait(c, "chain", where, held, what))
  BY <1>1, <1>5, InHandWaits
<1> QED
  BY <1>2, <1>3, <1>4, <1>6, <1>7

(* The steps.  The thread that steps is let go of first.                   *)
LEMMA LetGo ==
  ASSUME NEW S, NEW t \in Out!Threads, OutInv(S), t = "chain" => S.events # <<>>
  PROVE  Moving(S, t, Left(S, "none"))
<1>1. ASSUME NEW x \in Finals PROVE OnePlace(S, Left(S, "none"), Out!Threads \ {t}, x)
  <2>1. OnePlace(S, Left(S, "none"), Out!Threads, x)
    BY DEF OutInv
  <2> QED
    BY <2>1 DEF OnePlace
<1> QED
  BY <1>1 DEF OutInv, Moving

LEMMA ChainGo ==
  ASSUME NEW S, OutInv(S), S.events # <<>>, S.thread["chain"].at # "interim"
  PROVE  Moving(S, "chain", S.events)
<1>1. Left(S, "none") = S.events
  BY DEF Left
<1> QED
  BY <1>1, LetGo DEF Out!Threads

LEMMA ThreadGo ==
  ASSUME NEW S, NEW t \in Out!Threads, OutInv(S),
         S.thread[t].at \notin {"none", "interim"} \/ t = "tail"
  PROVE  Moving(S, t, Left(S, t)) /\ Left(S, t) = Left(S, "none")
<1>1. Left(S, t) = Left(S, "none")
  BY DEF Left, Out!Threads
<1>2. t = "chain" => S.events # <<>>
  BY DEF OutInv, Waits
<1> QED
  BY <1>1, <1>2, LetGo

LEMMA BeginIsOut ==
  ASSUME NEW S, OutInv(S), S.events # <<>>, S.thread["chain"].at = "none"
  PROVE  OutInv(IF Head(S.events).kind \in {"complete", "error"}
                THEN Out!Finalize(S, "chain") ELSE Out!Result(S))
<1>1. Moving(S, "chain", S.events) /\ Left(S, "chain") = S.events
  BY ChainGo DEF Left
<1>2. Head(S.events) \in OutputRecords
  BY HeadText DEF OutInv, OutTypes
<1>3. Head(S.events).kind \notin {"complete", "error"} =>
        Head(S.events).kind \in {"partial", "final"}
  BY <1>2 DEF OutputRecords
<1>4. "chain" \in Out!Threads
  BY DEF Out!Threads
<1> QED
  BY <1>1, <1>3, <1>4, FinalizeIsOut, ResultIsOut

LEMMA OpensIsSlack ==
  ASSUME NEW S, OutInv(S), NEW R,
         R = [S EXCEPT
            !.streams = Append(@, [draining |-> TRUE, dead |-> FALSE,
                                   ended |-> FALSE, lost |-> FALSE]),
            !.handle = Len(S.streams) + 1]
  PROVE  Slack(S, R)
<1> DEFINE r == [draining |-> TRUE, dead |-> FALSE, ended |-> FALSE, lost |-> FALSE]
           ns == Append(S.streams, r)
<1>1. /\ OutFields \subseteq DOMAIN R
      /\ R.chat = S.chat /\ R.events = S.events /\ R.thread = S.thread
      /\ R.query = S.query /\ R.emitted = S.emitted /\ R.channel = S.channel
      /\ R.buffer = S.buffer /\ R.failure = S.failure /\ R.partial = S.partial
      /\ R.attempted = S.attempted /\ R.handle = Len(S.streams) + 1
      /\ R.streams = ns
  BY DEF OutInv, OutShape, OutFields
<1>2. r \in StreamRecords /\ r.lost = FALSE
  BY DEF StreamRecords
<1>3. S.streams \in Seq(StreamRecords)
  BY DEF OutInv, OutTypes
<1> HIDE DEF r
<1>4. /\ ns \in Seq(StreamRecords) /\ Len(ns) = Len(S.streams) + 1
      /\ \A g \in DOMAIN S.streams : g \in DOMAIN ns /\ ns[g] = S.streams[g]
      /\ \A g \in DOMAIN ns : g \in DOMAIN S.streams \/ ns[g] = r
      /\ Len(S.streams) \in Nat
  BY <1>2, <1>3
<1> HIDE DEF ns
<1>5. SlackStreams(S, R)
  BY <1>1, <1>2, <1>4 DEF SlackStreams, OutInv, OutTypes
<1> QED
  BY <1>1, <1>5 DEF Slack, SlackBuffers, OutInv, OutTypes

LEMMA OpenIsOut ==
  ASSUME NEW S, OutInv(S), NEW R, Slack(S, R), S.thread["chain"].at = "open"
  PROVE  OutInv(Out!CallbackOver(R))
<1>1. Moving(S, "chain", S.events)
  BY ChainGo DEF OutInv, Waits, Out!Threads
<1>2. Moving(R, "chain", Tail(R.events))
  BY <1>1, LessMoving, SlackMovesOn DEF Slack
<1> QED
  BY <1>2, CallbackOverIsOut

LEMMA InterimEnds ==
  ASSUME NEW S, OutInv(S), S.thread["chain"].at = "interim"
  PROVE  OutInv(Out!CallbackOver(S))
<1>1. S.events # <<>>
  BY DEF OutInv, Waits, Out!Threads
<1>2. Moving(S, "chain", Tail(S.events))
  BY <1>1, LetGo DEF Left, Out!Threads
<1> QED
  BY <1>2, CallbackOverIsOut

(* The chain waits for its output to be sent or edited.                    *)
LEMMA HandGo ==
  ASSUME NEW S, OutInv(S), S.thread["chain"].at \in {"typing", "send", "edit"}
  PROVE  /\ Moving(S, "chain", S.events)
         /\ TheOutput(S, "chain")
         /\ S.thread["chain"].texts = {Out!TextOf(Head(S.events))}
         /\ S.thread["chain"].texts \subseteq TextRecords
<1>1. Waits(S, "chain") /\ S.thread["chain"].at # "none"
  BY DEF OutInv, Out!Threads
<1>2. TheOutput(S, "chain") /\ S.events # <<>> /\ S.thread["chain"].texts \subseteq TextRecords
  BY <1>1 DEF Waits
<1>3. Moving(S, "chain", S.events)
  BY <1>2, ChainGo
<1> QED
  BY <1>2, <1>3 DEF TheOutput

LEMMA ChatGrows ==
  ASSUME NEW ch \in Seq(SUBSET TextRecords), NEW what \in SUBSET TextRecords
  PROVE  /\ Append(ch, what) \in Seq(SUBSET TextRecords)
         /\ Len(Append(ch, what)) = Len(ch) + 1
         /\ \A b \in DOMAIN ch : b \in DOMAIN Append(ch, what) /\ Append(ch, what)[b] = ch[b]
         /\ \A b \in DOMAIN Append(ch, what) :
              \/ b \in DOMAIN ch
              \/ b = Len(ch) + 1 /\ Append(ch, what)[b] = what
         /\ Len(ch) + 1 \notin DOMAIN ch
OBVIOUS

LEMMA ChatChanges ==
  ASSUME NEW ch \in Seq(SUBSET TextRecords), NEW what \in SUBSET TextRecords, NEW k
  PROVE  /\ [ch EXCEPT ![k] = what] \in Seq(SUBSET TextRecords)
         /\ DOMAIN [ch EXCEPT ![k] = what] = DOMAIN ch
         /\ \A b \in DOMAIN ch : [ch EXCEPT ![k] = what][b] = IF b = k THEN what ELSE ch[b]
<1>1. ch \in [1..Len(ch) -> SUBSET TextRecords] /\ Len(ch) \in Nat
  OBVIOUS
<1>2. [ch EXCEPT ![k] = what] \in [1..Len(ch) -> SUBSET TextRecords]
  BY <1>1
<1> QED
  BY <1>1, <1>2

LEMMA AppendPlaces ==
  ASSUME NEW S, NEW R, NEW what \in SUBSET TextRecords, OutTypes(S),
         SameButChat(S, R), R.chat = Append(S.chat, what)
  PROVE  Places(S, R, what, Len(S.chat) + 1)
<1>1. S.chat \in Seq(SUBSET TextRecords)
  BY DEF OutTypes
<1> DEFINE n == Append(S.chat, what)
<1>2. /\ n \in Seq(SUBSET TextRecords)
      /\ \A b \in DOMAIN S.chat : n[b] = S.chat[b]
      /\ \A b \in DOMAIN n : b \in DOMAIN S.chat \/ (b = Len(S.chat) + 1 /\ n[b] = what)
  BY <1>1, ChatGrows
<1> HIDE DEF n
<1>3. R.chat = n
  BY DEF n
<1> QED
  BY <1>2, <1>3 DEF Places, SameButChat

LEMMA ReplacePlaces ==
  ASSUME NEW S, NEW R, NEW what \in SUBSET TextRecords, NEW k, OutTypes(S),
         SameButChat(S, R), R.chat = [S.chat EXCEPT ![k] = what]
  PROVE  Places(S, R, what, k)
<1>1. S.chat \in Seq(SUBSET TextRecords)
  BY DEF OutTypes
<1> DEFINE n == [S.chat EXCEPT ![k] = what]
<1>2. /\ n \in Seq(SUBSET TextRecords) /\ DOMAIN n = DOMAIN S.chat
      /\ \A b \in DOMAIN S.chat : n[b] = IF b = k THEN what ELSE S.chat[b]
  BY <1>1, ChatChanges
<1> HIDE DEF n
<1>3. R.chat = n
  BY DEF n
<1> QED
  BY <1>2, <1>3 DEF Places, SameButChat

(* The output of the callback is in bubble k.                              *)
LEMMA HandShown ==
  ASSUME NEW S, NEW R, NEW k, OutInv(S), S.thread["chain"].at \in {"typing", "send", "edit"},
         Places(S, R, S.thread["chain"].texts, k)
  PROVE  OutInv(Out!FinalOut(R)) /\ OutInv(Out!CallbackOver(R))
<1>1. /\ Moving(S, "chain", S.events)
      /\ S.thread["chain"].texts = {Out!TextOf(Head(S.events))}
  BY HandGo
<1>2. Moving(R, "chain", Tail(R.events))
  BY <1>1, PlacesOutput
<1> QED
  BY <1>2, FinalOutIsOut, CallbackOverIsOut

LEMMA HandHeld ==
  ASSUME NEW S, NEW R, OutInv(S), S.thread["chain"].at \in {"typing", "send", "edit"},
         Holds(S, R, S.thread["chain"].texts)
  PROVE  OutInv(Out!CallbackOver(R))
<1>1. /\ Moving(S, "chain", S.events)
      /\ S.thread["chain"].texts = {Out!TextOf(Head(S.events))}
  BY HandGo
<1> QED
  BY <1>1, HoldsOne, CallbackOverIsOut

LEMMA SentIsOut ==
  ASSUME OutInv(output), Out!Sent
  PROVE  OutInv(output')
<1> DEFINE S == output
           what == S.thread["chain"].texts
           bubble == Len(S.chat) + 1
           isFinal == \E x \in what : x.final
           A == [Out!Show(S, what) EXCEPT !.last = bubble]
           B == [Out!Show(S, what) EXCEPT !.progressive = bubble]
           F == IF isFinal /\ S.channel = "native" THEN Out!FinalFailed(S, what) ELSE S
           C == Out!Fault(F)
<1>1. /\ S.thread["chain"].at = "send"
      /\ \/ output' = Out!FinalOut(A)
         \/ output' = Out!CallbackOver(B)
         \/ output' = Out!CallbackOver(C)
  BY DEF Out!Sent
<1>2. /\ OutShape(S) /\ OutTypes(S)
      /\ what \in SUBSET TextRecords
  BY <1>1, HandGo DEF OutInv
<1>3. SameButChat(S, A) /\ A.chat = Append(S.chat, what)
  BY <1>2 DEF SameButChat, Out!Show, OutShape, OutFields
<1>4. SameButChat(S, B) /\ B.chat = Append(S.chat, what)
  BY <1>2 DEF SameButChat, Out!Show, OutShape, OutFields
<1>5. Holds(S, C, what)
  <2>1. CASE F = Out!FinalFailed(S, what)
    BY <1>2, <2>1 DEF Holds, Out!Fault, Out!FinalFailed, OutShape, OutFields
  <2>2. CASE F = S
    BY <1>2, <2>2 DEF Holds, Out!Fault, OutShape, OutFields
  <2> QED
    BY <2>1, <2>2
<1> HIDE DEF A, B, C
<1>6. Places(S, A, what, bubble) /\ Places(S, B, what, bubble)
  BY <1>2, <1>3, <1>4, AppendPlaces
<1>7. OutInv(Out!FinalOut(A)) /\ OutInv(Out!CallbackOver(B))
  BY <1>1, <1>6, HandShown
<1>8. OutInv(Out!CallbackOver(C))
  BY <1>1, <1>5, HandHeld
<1> QED
  BY <1>1, <1>7, <1>8

LEMMA EditedIsOut ==
  ASSUME OutInv(output), Out!Edited
  PROVE  OutInv(output')
<1> DEFINE S == output
           c == S.thread["chain"]
           k == Len(S.chat) + 1
           what == c.texts
           e == [S EXCEPT !.chat[c.hold] = what]
           n == Out!Fault(Out!Show(S, what))
           A1 == [e EXCEPT !.last = c.hold]
           B1 == [e EXCEPT !.progressive = c.hold]
           A2 == [n EXCEPT !.last = k]
           B2 == [n EXCEPT !.progressive = k]
           C == Out!Fault(S)
<1>1. /\ c.at = "edit"
      /\ \/ output' = Out!FinalOut(A1)
         \/ output' = Out!CallbackOver(B1)
         \/ output' = Out!FinalOut(A2)
         \/ output' = Out!CallbackOver(B2)
         \/ output' = Out!CallbackOver(C)
  BY DEF Out!Edited
<1>2. /\ OutShape(S) /\ OutTypes(S)
      /\ what \in SUBSET TextRecords
  BY <1>1, HandGo DEF OutInv
<1>3. /\ SameButChat(S, A1) /\ A1.chat = [S.chat EXCEPT ![c.hold] = what]
      /\ SameButChat(S, B1) /\ B1.chat = [S.chat EXCEPT ![c.hold] = what]
  BY <1>2 DEF SameButChat, OutShape, OutFields
<1>4. /\ SameButChat(S, A2) /\ A2.chat = Append(S.chat, what)
      /\ SameButChat(S, B2) /\ B2.chat = Append(S.chat, what)
  BY <1>2 DEF SameButChat, Out!Show, Out!Fault, OutShape, OutFields
<1>5. Holds(S, C, what)
  BY <1>2 DEF Holds, Out!Fault, OutShape, OutFields
<1> HIDE DEF A1, B1, A2, B2, C
<1>6. Places(S, A1, what, c.hold) /\ Places(S, B1, what, c.hold)
  BY <1>2, <1>3, ReplacePlaces
<1>7. Places(S, A2, what, k) /\ Places(S, B2, what, k)
  BY <1>2, <1>4, AppendPlaces
<1>8. OutInv(Out!FinalOut(A1)) /\ OutInv(Out!CallbackOver(B1))
  BY <1>1, <1>6, HandShown
<1>9. OutInv(Out!FinalOut(A2)) /\ OutInv(Out!CallbackOver(B2))
  BY <1>1, <1>7, HandShown
<1>10. OutInv(Out!CallbackOver(C))
  BY <1>1, <1>5, HandHeld
<1> QED
  BY <1>1, <1>8, <1>9, <1>10

(* The stream a thread ends is lost: nobody else waits for its end.        *)
LEMMA LosesMoves ==
  ASSUME NEW S, NEW R, NEW t \in Out!Threads, OutInv(S), S.thread[t].at = "end",
         R = Out!Fault([S EXCEPT !.streams[S.thread[t].hold].lost = TRUE])
  PROVE  /\ Moving(R, t, Left(S, t)) /\ Left(R, t) = Left(S, t)
         /\ R.events = S.events /\ R.streams[S.thread[t].hold].lost
<1> DEFINE h == S.thread[t].hold
           r == [S.streams[h] EXCEPT !.lost = TRUE]
           ns == [S.streams EXCEPT ![h] = r]
<1>1. Moving(S, t, Left(S, t))
  BY ThreadGo
<1>2. h \in DOMAIN S.streams /\ S.streams[h].ended
  BY DEF OutInv, Waits
<1>3. S.streams \in Seq(StreamRecords) /\ S.handle \in 0..Len(S.streams)
  BY DEF OutInv, OutTypes
<1>4. S.streams[h] \in StreamRecords
  BY <1>2, <1>3
<1>5. r \in StreamRecords /\ r.lost = TRUE /\ r.ended = S.streams[h].ended
  BY <1>4 DEF StreamRecords
<1>6. /\ OutFields \subseteq DOMAIN R
      /\ R.chat = S.chat /\ R.events = S.events /\ R.thread = S.thread
      /\ R.query = S.query /\ R.emitted = S.emitted /\ R.channel = S.channel
      /\ R.buffer = S.buffer /\ R.failure = S.failure /\ R.partial = S.partial
      /\ R.attempted = S.attempted /\ R.handle = S.handle
  BY DEF OutInv, OutShape, OutFields, Out!Fault
<1>7. R.streams = ns
  BY <1>2 DEF OutInv, OutShape, OutFields, Out!Fault
<1> HIDE DEF r
<1>8. /\ ns \in Seq(StreamRecords) /\ Len(ns) = Len(S.streams) /\ DOMAIN ns = DOMAIN S.streams
      /\ ns[h] = r /\ \A g \in DOMAIN S.streams : g # h => ns[g] = S.streams[g]
  BY <1>2, <1>3, <1>5, OneStream
<1> HIDE DEF ns
<1>9. \A g \in DOMAIN ns : ns[g].lost => ns[g].ended
  BY <1>2, <1>5, <1>8 DEF OutInv, OutTypes
<1>10. OutShape(R) /\ OutTypes(R)
  BY <1>3, <1>6, <1>7, <1>8, <1>9 DEF OutInv, OutShape, OutTypes
<1>11. ASSUME NEW u \in Out!Threads \ {t} PROVE Waits(R, u)
  <2>1. Waits(S, u)
    BY DEF OutInv
  <2>2. S.thread[u].at = "end" => S.thread[u].hold # h
    BY DEF OutInv, ApartAt
  <2>3. S.thread[u].at = "end" =>
          /\ S.thread[u].hold \in DOMAIN R.streams
          /\ R.streams[S.thread[u].hold] = S.streams[S.thread[u].hold]
    BY <1>7, <1>8, <2>1, <2>2 DEF Waits
  <2>4. R.thread[u] = S.thread[u] /\ R.events = S.events
    BY <1>6
  <2>5. TheOutput(R, u) <=> TheOutput(S, u)
    BY <2>4 DEF TheOutput
  <2> QED
    BY <2>1, <2>3, <2>4, <2>5 DEF Waits
<1>12. ASSUME NEW x \in Finals PROVE OnePlace(R, Left(S, t), Out!Threads \ {t}, x)
  <2>1. OnePlace(S, Left(S, t), Out!Threads \ {t}, x)
    BY <1>1 DEF Moving
  <2>2. /\ InChat(R, x) <=> InChat(S, x)
        /\ Buffered(R, x) <=> Buffered(S, x)
        /\ Old(R, x) <=> Old(S, x)
        /\ R.chat = S.chat /\ R.attempted = S.attempted
    BY <1>6 DEF InChat, Buffered, Old
  <2>3. \A u \in Out!Threads : Sending(R, u, x) <=> Sending(S, u, x)
    BY <1>6 DEF Sending
  <2> QED
    BY <2>1, <2>2, <2>3 DEF OnePlace
<1>13. Moving(R, t, Left(S, t))
  BY <1>1, <1>6, <1>10, <1>11, <1>12 DEF Moving
<1>14. R.streams[h].lost
  BY <1>5, <1>7, <1>8
<1> QED
  BY <1>6, <1>13, <1>14 DEF Left

LEMMA EndedIsOut ==
  ASSUME NEW t \in Out!Threads, OutInv(output), Out!Ended(t)
  PROVE  OutInv(output')
<1> DEFINE S == output
           c == S.thread[t]
           what == c.texts
           k == Len(S.chat) + 1
           A == Out!Show(S, what)
           B == Out!Fault([S EXCEPT !.streams[c.hold].lost = TRUE])
<1>1. /\ c.at = "end"
      /\ \/ output' = IF c.stage = "callback" THEN Out!FinalEnded(A, c.hold, what, k)
                      ELSE Out!UnfinishedEnded(A, t, c.hold, what)
         \/ output' = IF c.stage = "callback" THEN Out!FinalEnded(B, c.hold, what, 0)
                      ELSE Out!UnfinishedEnded(B, t, c.hold, what)
  BY DEF Out!Ended
<1>2. Waits(S, t) /\ OutShape(S) /\ OutTypes(S)
  BY DEF OutInv
<1>3. /\ \/ c.stage = "callback" /\ TheOutput(S, t)
         \/ c.stage = "unfinished" /\ what \cap Finals = {}
      /\ c.hold \in DOMAIN S.streams
      /\ ~S.streams[c.hold].lost
      /\ what \in SUBSET TextRecords
  BY <1>1, <1>2 DEF Waits
<1>4. Moving(S, t, Left(S, t)) /\ Left(S, t) = Left(S, "none")
  BY <1>1, ThreadGo
<1>5. SameButChat(S, A) /\ A.chat = Append(S.chat, what)
  BY <1>2 DEF SameButChat, Out!Show, OutShape, OutFields
<1> HIDE DEF A
<1>6. Places(S, A, what, k)
  BY <1>2, <1>3, <1>5, AppendPlaces
<1>7. /\ Moving(B, t, Left(S, t)) /\ Left(B, t) = Left(S, t)
      /\ B.events = S.events /\ B.streams[c.hold].lost
  BY <1>1, LosesMoves
<1> HIDE DEF B
<1>8. CASE c.stage = "callback"
  <2>1. t = "chain" /\ what = {Out!TextOf(Head(S.events))} /\ Left(S, t) = S.events
    BY <1>3, <1>8 DEF TheOutput, Left
  <2>2. Moving(A, "chain", Tail(A.events))
    BY <1>4, <1>6, <2>1, PlacesOutput
  <2>3. ~A.streams[c.hold].lost
    BY <1>3, <1>5 DEF SameButChat
  <2>4. OutInv(Out!FinalEnded(A, c.hold, what, k))
    BY <2>2, <2>3, FinalLandedIsOut
  <2>5. OutInv(Out!FinalEnded(B, c.hold, what, 0))
    <3>1. Moving(B, "chain", B.events) /\ what = {Out!TextOf(Head(B.events))}
      BY <1>7, <2>1
    <3> QED
      BY <1>7, <3>1, FinalLostIsOut
  <2> QED
    BY <1>1, <1>8, <2>4, <2>5
<1>9. CASE c.stage # "callback"
  <2>1. what \in SUBSET (TextRecords \ Finals) /\ what \cap Finals = {}
    BY <1>3, <1>9
  <2>2. Moving(A, t, Left(S, t))
    BY <1>4, <1>6, <2>1, PlacesOne
  <2>3. Left(A, t) = Left(S, t)
    BY <1>5 DEF SameButChat, Left
  <2>4. OutInv(Out!UnfinishedEnded(A, t, c.hold, what))
    BY <2>1, <2>2, <2>3, UnfinishedEndedIsOut
  <2>5. OutInv(Out!UnfinishedEnded(B, t, c.hold, what))
    BY <1>7, <2>1, UnfinishedEndedIsOut
  <2> QED
    BY <1>1, <1>9, <2>4, <2>5
<1> QED
  BY <1>8, <1>9

(* A plain send is over.                                                   *)
LEMMA AfterPlain ==
  ASSUME NEW S, NEW t \in Out!Threads, NEW landed, Moving(S, t, Left(S, t))
  PROVE  /\ OutInv(Out!AfterCoalesced(S, t, landed))
         /\ OutInv(Out!AfterFailure(S, t, landed))
         /\ OutInv(Out!AfterPartial(S, t, landed))
         /\ OutInv(Out!AfterUnfinished(S, t, landed))
BY AfterCoalescedIsOut, AfterFailureIsOut, AfterPartialIsOut, AfterUnfinishedIsOut

LEMMA PlainSentIsOut ==
  ASSUME NEW t \in Out!Threads, OutInv(output), Out!PlainSent(t)
  PROVE  OutInv(output')
<1> DEFINE S == output
           c == S.thread[t]
           what == c.texts
           A == [Out!Show(S, what) EXCEPT !.last = Len(S.chat) + 1,
                   !.delivered = TRUE, !.sent = TRUE]
           B == Out!Fault(S)
           After(R, landed) ==
             CASE c.stage = "coalesced"  -> Out!AfterCoalesced(R, t, landed)
               [] c.stage = "failure"    -> Out!AfterFailure(R, t, landed)
               [] c.stage = "partial"    -> Out!AfterPartial(R, t, landed)
               [] c.stage = "unfinished" -> Out!AfterUnfinished(R, t, landed)
<1>1. /\ c.at = "plain"
      /\ output' = After(A, TRUE) \/ output' = After(B, FALSE)
  BY DEF Out!PlainSent
<1>2. Waits(S, t) /\ OutShape(S) /\ OutTypes(S)
  BY DEF OutInv
<1>3. /\ c.stage \in {"coalesced", "failure", "partial", "unfinished"}
      /\ what \in SUBSET TextRecords
  BY <1>1, <1>2 DEF Waits
<1>4. Moving(S, t, Left(S, t)) /\ Left(S, t) = Left(S, "none")
  BY <1>1, ThreadGo
<1>5. SameButChat(S, A) /\ A.chat = Append(S.chat, what)
  BY <1>2 DEF SameButChat, Out!Show, OutShape, OutFields
<1>6. Slack(S, B)
  BY <1>2 DEF Slack, SlackStreams, SlackBuffers, Out!Fault, OutShape, OutTypes, OutFields
<1> HIDE DEF A, B
<1>7. Places(S, A, what, Len(S.chat) + 1)
  BY <1>2, <1>3, <1>5, AppendPlaces
<1>8. ASSUME NEW x \in what \cap Finals
      PROVE  /\ ~InChat(S, x) /\ ~Due(Left(S, t), x)
             /\ (Buffered(S, x) => S.attempted) /\ Old(S, x)
             /\ \A u \in Out!Threads \ {t} : ~Sending(S, u, x)
  <2>1. OnePlace(S, Left(S, t), Out!Threads, x)
    BY <1>4 DEF OutInv
  <2>2. Sending(S, t, x)
    BY <1>1 DEF Sending
  <2> QED
    BY <2>1, <2>2 DEF OnePlace
<1>9. Moving(A, t, Left(S, t))
  BY <1>4, <1>7, <1>8, PlacesOne
<1>10. Left(A, t) = Left(S, t)
  BY <1>5 DEF SameButChat, Left
<1>11. Moving(B, t, Left(B, t))
  BY <1>4, <1>6, SlackMoves
<1>12. ASSUME NEW R, NEW landed, Moving(R, t, Left(R, t)) PROVE OutInv(After(R, landed))
  <2>1. CASE c.stage = "coalesced"
    BY <1>12, <2>1, AfterPlain
  <2>2. CASE c.stage = "failure"
    BY <1>12, <2>2, AfterPlain
  <2>3. CASE c.stage = "partial"
    BY <1>12, <2>3, AfterPlain
  <2>4. CASE c.stage = "unfinished"
    BY <1>12, <2>4, AfterPlain
  <2> QED
    BY <1>3, <2>1, <2>2, <2>3, <2>4
<1> HIDE DEF After
<1> QED
  BY <1>1, <1>9, <1>10, <1>11, <1>12

LEMMA DrainedIsOut ==
  ASSUME NEW t \in Out!Threads, OutInv(output), Out!Drained(t)
  PROVE  OutInv(output')
<1> DEFINE S == output
           h == S.thread[t].hold
           P == IF S.handle = h THEN Out!Probe(S) ELSE S
           C == Out!Cancelled(S, h)
<1>1. /\ S.thread[t].at \in {"settle", "cancel", "boundary"}
      /\ S.thread[t].at = "settle" => output' = Out!PartialFallback(P, t)
      /\ S.thread[t].at = "cancel" => output' = Out!Verdict(C, t)
      /\ S.thread[t].at = "boundary" => output' = Out!Output(C)
  BY DEF Out!Drained, Out!MayResume
<1>2. Waits(S, t) /\ OutShape(S) /\ OutTypes(S)
  BY DEF OutInv
<1>3. Moving(S, t, Left(S, t))
  BY <1>1, ThreadGo
<1>4. Slack(S, P)
  <2>1. Slack(S, S)
    BY <1>2 DEF Slack, SlackStreams, SlackBuffers, OutShape, OutTypes
  <2>2. Slack(S, Out!Probe(S))
    BY <1>2, ProbeIsSlack
  <2> QED
    BY <2>1, <2>2
<1>5. Slack(S, C)
  BY <1>2, CancelIsSlack
<1> HIDE DEF P, C
<1>6. Moving(P, t, Left(P, t)) /\ Moving(C, t, Left(C, t))
  BY <1>3, <1>4, <1>5, SlackMoves
<1>7. CASE S.thread[t].at = "boundary"
  <2>1. t = "chain" /\ Head(S.events).kind \in {"partial", "final"}
    BY <1>2, <1>7 DEF Waits
  <2>2. Moving(C, "chain", C.events) /\ C.events = S.events
    BY <1>5, <1>6, <2>1 DEF Left, Slack
  <2> QED
    BY <1>1, <1>7, <2>1, <2>2, OutputIsOut
<1> QED
  BY <1>1, <1>6, <1>7, PartialFallbackIsOut, VerdictIsOut

LEMMA TailGo ==
  ASSUME NEW S, NEW R, OutInv(S), OnlyMoves(S, R, "tail")
  PROVE  OutInv(Out!Finalize(R, "tail"))
<1>1. "tail" \in Out!Threads
  BY DEF Out!Threads
<1>2. Moving(S, "tail", Left(S, "tail"))
  BY <1>1, ThreadGo
<1>3. Moving(R, "tail", Left(S, "tail"))
  BY <1>1, <1>2, MovesOn
<1>4. Left(R, "tail") = Left(S, "tail")
  BY DEF OnlyMoves, Alike, Left, Out!Threads
<1> QED
  BY <1>1, <1>3, <1>4, FinalizeIsOut

LEMMA TailIsOut ==
  ASSUME OutInv(output), Out!RunReturns \/ Out!Decide
  PROVE  OutInv(output')
<1>1. OutShape(output)
  BY DEF OutInv
<1>2. CASE Out!RunReturns
  <2>1. OnlyMoves(output, output, "tail")
    BY <1>1 DEF OnlyMoves, Alike, OutShape, Out!Threads
  <2> QED
    BY <1>2, <2>1, TailGo DEF Out!RunReturns
<1>3. CASE Out!Decide
  <2> DEFINE retry == (output.resolved = "error" \/ output.hadError) /\ ~output.sent
             d == [output EXCEPT !.verdict = IF retry THEN "retry" ELSE "success",
                     !.cursor = IF retry THEN 0 ELSE @,
                     !.thread["tail"].final = TRUE]
  <2>1. output' = Out!Finalize(d, "tail")
    BY <1>3 DEF Out!Decide
  <2>2. OnlyMoves(output, d, "tail")
    BY <1>1 DEF OnlyMoves, Alike, OutShape, OutFields, ThreadFields, Out!Threads
  <2> HIDE DEF d
  <2> QED
    BY <2>1, <2>2, TailGo
<1> QED
  BY <1>2, <1>3

(* The agent gives an output.                                              *)
LEMMA AppendFacts ==
  ASSUME NEW T, NEW es \in Seq(T), NEW o \in T
  PROVE  /\ Append(es, o) \in Seq(T) /\ Append(es, o) # <<>>
         /\ DOMAIN Append(es, o) = DOMAIN es \cup {Len(es) + 1}
         /\ Len(es) + 1 \notin DOMAIN es
         /\ \A i \in DOMAIN es : Append(es, o)[i] = es[i]
         /\ Append(es, o)[Len(es) + 1] = o
         /\ es # <<>> => /\ Head(Append(es, o)) = Head(es)
                         /\ Tail(Append(es, o)) = Append(Tail(es), o)
         /\ es = <<>> => Head(Append(es, o)) = o /\ Tail(Append(es, o)) = <<>>
OBVIOUS

LEMMA DueMore ==
  ASSUME NEW es \in Seq(OutputRecords), NEW o \in OutputRecords, NEW x,
         o.kind = "final" => Out!TextOf(o) # x
  PROVE  /\ Due(Append(es, o), x) <=> Due(es, x)
         /\ (\A i, j \in DOMAIN es : DueAt(es, i, x) /\ DueAt(es, j, x) => i = j) =>
              \A i, j \in DOMAIN Append(es, o) :
                DueAt(Append(es, o), i, x) /\ DueAt(Append(es, o), j, x) => i = j
<1> DEFINE ns == Append(es, o)
<1>1. /\ DOMAIN ns = DOMAIN es \cup {Len(es) + 1}
      /\ \A i \in DOMAIN es : ns[i] = es[i]
      /\ ns[Len(es) + 1] = o
  BY AppendFacts
<1> HIDE DEF ns
<1>2. ~DueAt(ns, Len(es) + 1, x)
  BY <1>1 DEF DueAt
<1>3. \A i \in DOMAIN es : DueAt(ns, i, x) <=> DueAt(es, i, x)
  BY <1>1 DEF DueAt
<1>4. Due(ns, x) <=> Due(es, x)
  BY <1>1, <1>2, <1>3 DEF Due
<1>5. (\A i, j \in DOMAIN es : DueAt(es, i, x) /\ DueAt(es, j, x) => i = j) =>
        \A i, j \in DOMAIN ns : DueAt(ns, i, x) /\ DueAt(ns, j, x) => i = j
  BY <1>1, <1>2, <1>3
<1> QED
  BY <1>4, <1>5 DEF ns

LEMMA DueNow ==
  ASSUME NEW es \in Seq(OutputRecords), NEW o \in OutputRecords, NEW x, ~Due(es, x)
  PROVE  \A i, j \in DOMAIN Append(es, o) :
           DueAt(Append(es, o), i, x) /\ DueAt(Append(es, o), j, x) => i = j
<1> DEFINE ns == Append(es, o)
<1>1. /\ DOMAIN ns = DOMAIN es \cup {Len(es) + 1}
      /\ \A i \in DOMAIN es : ns[i] = es[i]
  BY AppendFacts
<1> HIDE DEF ns
<1>2. \A i \in DOMAIN es : ~DueAt(ns, i, x)
  BY <1>1 DEF Due, DueAt
<1>3. \A i, j \in DOMAIN ns : DueAt(ns, i, x) /\ DueAt(ns, j, x) => i = j
  BY <1>1, <1>2
<1> QED
  BY <1>3 DEF ns

LEMMA EmitsOut ==
  ASSUME NEW S, NEW R, NEW o, OutInv(S), Emits(S, R, o)
  PROVE  OutInv(R)
<1> DEFINE es == Left(S, "none")
           ns == Append(es, o)
<1>1. S.events \in Seq(OutputRecords) /\ S.query \in Nat /\ S.emitted \in Nat
  BY DEF OutInv, OutTypes
<1>2. o \in OutputRecords /\ R.events = Append(S.events, o)
  BY DEF Emits
<1>3. /\ R.events \in Seq(OutputRecords) /\ R.events # <<>>
      /\ S.events # <<>> => /\ Head(R.events) = Head(S.events)
                            /\ Tail(R.events) = Append(Tail(S.events), o)
  BY <1>1, <1>2, AppendFacts
<1>4. S.thread["chain"].at # "none" => S.events # <<>>
  BY DEF OutInv, Waits, Out!Threads
<1>5. es \in Seq(OutputRecords)
  <2>1. S.thread["chain"].at = "interim" => Tail(S.events) \in Seq(OutputRecords)
    BY <1>1, <1>4, TailFacts
  <2> QED
    BY <1>1, <2>1 DEF Left
<1>6. Left(R, "none") = ns
  BY <1>2, <1>3, <1>4 DEF Left, Emits
<1>7. R.emitted \in Nat
  BY <1>1 DEF Emits
<1>8. OutShape(R) /\ OutTypes(R)
  BY <1>3, <1>7 DEF Emits, OutInv, OutShape, OutTypes
<1>9. ASSUME NEW u \in Out!Threads PROVE Waits(R, u)
  <2>1. Waits(S, u) /\ R.thread = S.thread /\ R.streams = S.streams
    BY DEF OutInv, Emits
  <2>2. TheOutput(S, u) => TheOutput(R, u)
    BY <1>3, <2>1 DEF TheOutput
  <2> QED
    BY <1>3, <1>4, <2>1, <2>2 DEF Waits
<1>10. ApartAt(R)
  BY DEF OutInv, Emits, ApartAt
<1>11. ASSUME NEW x \in Finals PROVE OnePlace(R, ns, Out!Threads, x)
  <2>1. OnePlace(S, es, Out!Threads, x)
    BY DEF OutInv
  <2>2. /\ InChat(R, x) <=> InChat(S, x)
        /\ Buffered(R, x) <=> Buffered(S, x)
        /\ R.chat = S.chat /\ R.attempted = S.attempted
    BY DEF Emits, InChat, Buffered
  <2>3. \A u \in Out!Threads : Sending(R, u, x) <=> Sending(S, u, x)
    BY DEF Emits, Sending
  <2>4. x.query \in Nat /\ x.nth \in Nat
    BY DEF Finals, TextRecords
  <2>5. Old(S, x) => Old(R, x)
    BY <1>1, <2>4 DEF Old, Emits
  <2>6. CASE o.kind = "final" => Out!TextOf(o) # x
    <3>1. /\ Due(ns, x) <=> Due(es, x)
          /\ (\A i, j \in DOMAIN es : DueAt(es, i, x) /\ DueAt(es, j, x) => i = j) =>
               \A i, j \in DOMAIN ns : DueAt(ns, i, x) /\ DueAt(ns, j, x) => i = j
      BY <1>2, <1>5, <2>6, DueMore
    <3> HIDE DEF ns, es
    <3> QED
      BY <2>1, <2>2, <2>3, <2>5, <3>1 DEF OnePlace
  <2>7. CASE o.kind = "final" /\ Out!TextOf(o) = x
    <3>1. x.query = S.query /\ x.nth = S.emitted + 1 /\ R.query = S.query
          /\ R.emitted = S.emitted + 1
      BY <2>7 DEF Out!TextOf, Emits
    <3>2. ~Old(S, x) /\ Old(R, x)
      BY <1>1, <3>1 DEF Old
    <3>3. /\ ~Due(es, x) /\ ~InChat(S, x) /\ ~Buffered(S, x)
          /\ \A u \in Out!Threads : ~Sending(S, u, x)
      BY <2>1, <3>2 DEF OnePlace
    <3>4. \A i, j \in DOMAIN ns : DueAt(ns, i, x) /\ DueAt(ns, j, x) => i = j
      BY <1>2, <1>5, <3>3, DueNow
    <3> HIDE DEF ns, es
    <3> QED
      BY <2>1, <2>2, <2>3, <3>2, <3>3, <3>4 DEF OnePlace
  <2> QED
    BY <2>6, <2>7
<1> QED
  BY <1>6, <1>8, <1>9, <1>10, <1>11 DEF OutInv

LEMMA AgentIsOut ==
  ASSUME OutInv(output), Out!Emit \/ Out!Complete
  PROVE  OutInv(output')
<1>1. /\ OutShape(output)
      /\ output.query \in Nat /\ output.emitted \in Nat
  BY DEF OutInv, OutTypes
<1>2. CASE Out!Emit
  <2>1. PICK k \in {"partial", "final"} :
          output' = [output EXCEPT !.emitted = @ + 1,
               !.answer[output.query] = IF k = "final" THEN output.emitted + 1 ELSE @,
               !.events = Append(@, [query |-> output.query, nth |-> output.emitted + 1,
                                     kind |-> k])]
    BY <1>2 DEF Out!Emit
  <2> DEFINE o == [query |-> output.query, nth |-> output.emitted + 1, kind |-> k]
  <2>2. /\ OutFields \subseteq DOMAIN output'
        /\ output'.chat = output.chat /\ output'.events = Append(output.events, o)
        /\ output'.thread = output.thread /\ output'.query = output.query
        /\ output'.emitted = output.emitted + 1 /\ output'.channel = output.channel
        /\ output'.attempted = output.attempted /\ output'.streams = output.streams
        /\ output'.handle = output.handle /\ output'.buffer = output.buffer
        /\ output'.failure = output.failure /\ output'.partial = output.partial
    BY <1>1, <2>1 DEF OutShape, OutFields
  <2>3. /\ o \in OutputRecords
        /\ o.query = output.query /\ o.nth = output.emitted + 1
    BY <1>1 DEF OutputRecords
  <2> HIDE DEF o
  <2>4. Emits(output, output', o)
    BY <2>2, <2>3 DEF Emits
  <2> QED
    BY <2>4, EmitsOut
<1>3. CASE Out!Complete
  <2>1. PICK k \in {"complete", "error"} :
          output' = Out!Resolve([output EXCEPT !.working = FALSE, !.alive = k = "complete",
                       !.events = Append(@, [query |-> output.query, nth |-> 0, kind |-> k])],
                    IF k = "complete" THEN "success" ELSE "error")
    BY <1>3 DEF Out!Complete
  <2> DEFINE o == [query |-> output.query, nth |-> 0, kind |-> k]
             R == [output EXCEPT !.working = FALSE, !.alive = k = "complete",
                                 !.events = Append(@, o)]
             how == IF k = "complete" THEN "success" ELSE "error"
  <2>2. output' = R \/ output' = [R EXCEPT !.resolved = how]
    BY <2>1 DEF Out!Resolve
  <2>3. Emits(output, R, o)
    <3>1. /\ OutFields \subseteq DOMAIN R
          /\ R.chat = output.chat /\ R.events = Append(output.events, o)
          /\ R.thread = output.thread /\ R.query = output.query
          /\ R.emitted = output.emitted /\ R.channel = output.channel
          /\ R.attempted = output.attempted /\ R.streams = output.streams
          /\ R.handle = output.handle /\ R.buffer = output.buffer
          /\ R.failure = output.failure /\ R.partial = output.partial
      BY <1>1 DEF OutShape, OutFields
    <3>2. o \in OutputRecords /\ o.kind # "final"
      BY <1>1 DEF OutputRecords
    <3> HIDE DEF R, o
    <3> QED
      BY <3>1, <3>2 DEF Emits
  <2>4. Emits(output, [R EXCEPT !.resolved = how], o)
    <3> HIDE DEF R, o
    <3> QED
      BY <2>3 DEF Emits, OutFields
  <2> HIDE DEF R, o, how
  <2> QED
    BY <2>2, <2>3, <2>4, EmitsOut
<1> QED
  BY <1>2, <1>3

LEMMA DieIsOut ==
  ASSUME OutInv(output), Out!Die \/ Out!Pipe
  PROVE  OutInv(output')
<1>1. OutShape(output) /\ OutTypes(output)
  BY DEF OutInv
<1>2. Alike(output, output') /\ output'.thread = output.thread
  <2>1. CASE Out!Die
    BY <1>1, <2>1 DEF Out!Die, Out!Resolve, Alike, OutShape, OutFields
  <2>2. CASE Out!Pipe
    <3>1. PICK m \in Out!Messages :
            output' = [Out!Write(output, (output.cursor + 1)..m, Out!Unhandled(output)) EXCEPT
                        !.turnCursor = IF @ = Out!Null THEN output.cursor ELSE @, !.cursor = m]
      BY <2>2 DEF Out!Pipe
    <3> DEFINE W == Out!Write(output, (output.cursor + 1)..m, Out!Unhandled(output))
    <3>2. Alike(output, W) /\ W.thread = output.thread
      BY <1>1 DEF Out!Write, Alike, OutShape, OutFields
    <3> HIDE DEF W
    <3> QED
      BY <3>1, <3>2 DEF Alike, OutFields, W
  <2> QED
    BY <2>1, <2>2
<1> QED
  BY <1>1, <1>2, AlikeSlack, SlackOut

LEMMA NextQueryIsOut ==
  ASSUME OutInv(output), Out!NextQuery
  PROVE  OutInv(output')
<1> DEFINE S == output
           R == output'
<1>1. /\ OutShape(S) /\ OutTypes(S) /\ S.query \in Nat
  BY DEF OutInv, OutTypes
<1>2. /\ OutFields \subseteq DOMAIN R
      /\ R.chat = S.chat /\ R.events = S.events /\ R.thread = S.thread
      /\ R.query = S.query + 1 /\ R.emitted = 0 /\ R.channel = S.channel
      /\ R.attempted = S.attempted /\ R.streams = S.streams /\ R.handle = S.handle
      /\ R.buffer = S.buffer /\ R.failure = S.failure /\ R.partial = S.partial
  BY <1>1 DEF Out!NextQuery, OutShape, OutFields
<1>3. OutShape(R) /\ OutTypes(R) /\ ApartAt(R)
  BY <1>1, <1>2 DEF OutInv, OutShape, OutTypes, ApartAt
<1>4. \A u \in Out!Threads : Waits(R, u)
  BY <1>2 DEF OutInv, Waits, TheOutput
<1>5. Left(R, "none") = Left(S, "none")
  BY <1>2 DEF Left
<1>6. ASSUME NEW x \in Finals PROVE OnePlace(R, Left(S, "none"), Out!Threads, x)
  <2>1. OnePlace(S, Left(S, "none"), Out!Threads, x)
    BY DEF OutInv
  <2>2. /\ InChat(R, x) <=> InChat(S, x)
        /\ Buffered(R, x) <=> Buffered(S, x)
        /\ R.chat = S.chat /\ R.attempted = S.attempted
    BY <1>2 DEF InChat, Buffered
  <2>3. \A u \in Out!Threads : Sending(R, u, x) <=> Sending(S, u, x)
    BY <1>2 DEF Sending
  <2>4. x.query \in Nat /\ x.nth \in Nat
    BY DEF Finals, TextRecords
  <2>5. Old(S, x) => Old(R, x)
    BY <1>1, <1>2, <2>4 DEF Old
  <2> QED
    BY <2>1, <2>2, <2>3, <2>5 DEF OnePlace
<1> QED
  BY <1>3, <1>4, <1>5, <1>6 DEF OutInv

LEMMA StreamOut ==
  ASSUME NEW S, NEW R, NEW h \in DOMAIN S.streams, NEW r, OutInv(S), StreamChanges(S, R, h, r)
  PROVE  OutInv(R)
<1> DEFINE ns == [S.streams EXCEPT ![h] = r]
<1>1. /\ OutShape(S) /\ OutTypes(S)
      /\ S.streams \in Seq(StreamRecords)
  BY DEF OutInv, OutTypes
<1>2. /\ ns \in Seq(StreamRecords) /\ Len(ns) = Len(S.streams) /\ DOMAIN ns = DOMAIN S.streams
      /\ ns[h] = r /\ \A g \in DOMAIN S.streams : g # h => ns[g] = S.streams[g]
  BY <1>1, OneStream DEF StreamChanges
<1>3. R.streams = ns
  BY DEF StreamChanges
<1> HIDE DEF ns
<1>4. \A g \in DOMAIN S.streams : ns[g].lost = S.streams[g].lost /\ ns[g].ended = S.streams[g].ended
  BY <1>2 DEF StreamChanges
<1>5. SlackStreams(S, R)
  BY <1>1, <1>2, <1>3, <1>4 DEF SlackStreams, OutTypes, StreamChanges
<1>6. Slack(S, R)
  BY <1>1, <1>5 DEF Slack, SlackBuffers, OutTypes, StreamChanges
<1> QED
  BY <1>6, SlackOut

LEMMA DrainsIsOut ==
  ASSUME OutInv(output), Out!Drains
  PROVE  OutInv(output')
<1> DEFINE S == output
<1>1. PICK h \in DOMAIN S.streams :
        LET d == [S EXCEPT !.streams[h].draining = FALSE] IN
        output' = d \/ output' = Out!Fault([d EXCEPT !.streams[h].dead = TRUE])
  BY DEF Out!Drains
<1> DEFINE d == [S EXCEPT !.streams[h].draining = FALSE]
           e == Out!Fault([d EXCEPT !.streams[h].dead = TRUE])
           r == [S.streams[h] EXCEPT !.draining = FALSE]
           q == [d.streams[h] EXCEPT !.dead = TRUE]
<1>2. S.streams[h] \in StreamRecords /\ OutFields \subseteq DOMAIN S
  BY DEF OutInv, OutTypes, OutShape
<1>3. r \in StreamRecords /\ r.lost = S.streams[h].lost /\ r.ended = S.streams[h].ended
  BY <1>2 DEF StreamRecords
<1>4. StreamChanges(S, d, h, r)
  BY <1>2, <1>3 DEF StreamChanges, OutFields
<1> HIDE DEF d
<1>5. OutInv(d)
  BY <1>4, StreamOut
<1>6. h \in DOMAIN d.streams
  BY <1>4 DEF StreamChanges
<1>7. d.streams[h] \in StreamRecords /\ OutFields \subseteq DOMAIN d
  BY <1>5, <1>6 DEF OutInv, OutTypes, OutShape
<1>8. q \in StreamRecords /\ q.lost = d.streams[h].lost /\ q.ended = d.streams[h].ended
  BY <1>7 DEF StreamRecords
<1>9. StreamChanges(d, e, h, q)
  BY <1>6, <1>7, <1>8 DEF StreamChanges, OutFields, Out!Fault
<1> HIDE DEF e
<1>10. OutInv(e)
  BY <1>5, <1>6, <1>9, StreamOut
<1> QED
  BY <1>1, <1>5, <1>10 DEF d, e

LEMMA OutStarts ==
  ASSUME Out!Init
  PROVE  OutInv(output)
<1>1. /\ OutFields \subseteq DOMAIN output
      /\ output.chat = <<>> /\ output.events = <<>> /\ output.streams = <<>>
      /\ output.handle = 0 /\ output.buffer = {} /\ output.failure = {}
      /\ output.partial = {} /\ output.query = 1 /\ output.emitted = 0
      /\ output.thread = [t \in Out!Threads |-> Out!Resting]
  BY DEF Out!Init, OutFields
<1>2. /\ Out!Resting.at = "none" /\ Out!Resting.texts = {}
      /\ ThreadFields \subseteq DOMAIN Out!Resting
  BY DEF Out!Resting, ThreadFields
<1> HIDE DEF Out!Resting
<1>3. OutShape(output) /\ OutTypes(output) /\ ApartAt(output)
  BY <1>1, <1>2 DEF OutShape, OutTypes, ApartAt
<1>4. \A u \in Out!Threads : Waits(output, u)
  BY <1>1, <1>2 DEF Waits
<1>5. Left(output, "none") = <<>>
  BY <1>1, <1>2 DEF Left, Out!Threads
<1>6. ASSUME NEW x \in Finals PROVE OnePlace(output, <<>>, Out!Threads, x)
  <2>1. ~Due(<<>>, x) /\ ~InChat(output, x) /\ ~Buffered(output, x)
    BY <1>1 DEF Due, InChat, Buffered
  <2>2. \A u \in Out!Threads : ~Sending(output, u, x)
    BY <1>1, <1>2 DEF Sending
  <2> QED
    BY <1>1, <2>1, <2>2 DEF OnePlace
<1> QED
  BY <1>3, <1>4, <1>5, <1>6 DEF OutInv

LEMMA OutSteps ==
  ASSUME OutInv(output), [Out!Next]_output
  PROVE  OutInv(output')
<1>1. CASE Out!Begin
  BY <1>1, BeginIsOut DEF Out!Begin, Out!MayBegin
<1>2. CASE Out!TypingOff
  BY <1>2, HandGo, FinalIsOut DEF Out!TypingOff
<1>3. CASE Out!TypingOn
  BY <1>3, InterimEnds DEF Out!TypingOn
<1>4. CASE Out!StreamOpens
  BY <1>4, OpensIsSlack, OpenIsOut DEF Out!StreamOpens
<1>5. ASSUME NEW t \in Out!Threads, Out!Ended(t) \/ Out!PlainSent(t) \/ Out!Drained(t)
      PROVE  OutInv(output')
  BY <1>5, EndedIsOut, PlainSentIsOut, DrainedIsOut
<1>6. CASE UNCHANGED output
  BY <1>6
<1> QED
  BY <1>1, <1>2, <1>3, <1>4, <1>5, <1>6, SentIsOut, EditedIsOut, TailIsOut, AgentIsOut,
     DieIsOut, NextQueryIsOut, DrainsIsOut DEF Out!Next

LEMMA OutTells ==
  ASSUME OutInv(output)
  PROVE  FinalOnce
<1> SUFFICES ASSUME NEW b \in DOMAIN output.chat, NEW c \in DOMAIN output.chat, b # c,
                    NEW x \in output.chat[b] \cap output.chat[c], x.final
             PROVE  FALSE
  BY DEF FinalOnce, Out!FinalOnce
<1>1. x \in Finals
  BY DEF OutInv, OutTypes, Finals
<1> QED
  BY <1>1 DEF OutInv, OnePlace

(* A final stands in the chat once, in any behaviour of TurnOutput, for    *)
(* every number of queries, outputs, messages and faults: the callback,    *)
(* the query-complete and the tail share the one plain attempt of a turn   *)
(* (src/index.ts:403-412), and a buffer or a failed stream gives a text up *)
(* when it is sent.                                                        *)
THEOREM OutputOnce == Out!Spec => []FinalOnce
<1>1. Out!Init => OutInv(output)
  BY OutStarts
<1>2. OutInv(output) /\ [Out!Next]_output => OutInv(output)'
  BY OutSteps
<1>3. OutInv(output) => FinalOnce
  BY OutTells
<1> QED
  BY <1>1, <1>2, <1>3, PTL DEF Out!Spec

(* The same beside the messages of ChatTurns.                              *)
THEOREM TurnsOnce == TurnsSpec => []FinalOnce
<1>1. TurnsInit => OutInv(output)
  BY OutStarts DEF TurnsInit
<1>2. OutInv(output) /\ [TurnsNext]_allVars => OutInv(output)'
  BY OutSteps DEF TurnsNext, OfMessages, allVars
<1>3. OutInv(output) => FinalOnce
  BY OutTells
<1> QED
  BY <1>1, <1>2, <1>3, PTL DEF TurnsSpec

-----------------------------------------------------------------------------
(* Outputs: whose message an id is.                                        *)
LEMMA LongerKeeps ==
  ASSUME NEW S, NEW R, OutTypes(S), Longer(S, R)
  PROVE  KeepsFinals(S, R)
<1>1. CASE R.chat = S.chat
  BY <1>1 DEF KeepsFinals
<1>2. ASSUME NEW what, R.chat = Append(S.chat, what)
      PROVE  KeepsFinals(S, R)
  <2>1. \A b \in DOMAIN S.chat : R.chat[b] = S.chat[b]
    BY <1>2 DEF OutTypes
  <2> QED
    BY <2>1 DEF KeepsFinals
<1> QED
  BY <1>1, <1>2 DEF Longer

LEMMA OnwardEnds ==
  ASSUME NEW S, NEW M, NEW R, NEW t, Onward(S, M), Ends(M, R, t),
         t = "tail" => M.thread["chain"] = S.thread["chain"]
  PROVE  Ends(S, R, t)
  BY DEF Onward, Ends

LEMMA WaitEnds ==
  ASSUME NEW S, NEW t \in Out!Threads, NEW where \in {"cancel", "settle", "end", "plain"},
         NEW held, NEW what, OutShape(S)
  PROVE  Ends(S, Out!Wait(S, t, where, held, what), t)
  BY DEF Out!Wait, Ends, OutShape, OutFields, ThreadFields, Out!Threads

LEMMA ReturnEnds ==
  ASSUME NEW S, NEW t \in Out!Threads, OutShape(S)
  PROVE  Ends(S, Out!Return(S, t), t)
<1>1. CASE t = "tail"
  BY <1>1 DEF Out!Wait, Out!Return, Ends, OutShape, OutFields, ThreadFields, Out!Threads
<1>2. CASE t = "chain"
  BY <1>2 DEF Out!Rest, Out!Resting, Out!Return, Ends, OutShape, OutFields, ThreadFields,
              Out!Threads
<1> QED
  BY <1>1, <1>2 DEF Out!Threads

LEMMA RetryOnward ==
  ASSUME NEW S, NEW un, OutShape(S)
  PROVE  /\ Onward(S, Out!RetryDelivery(S, un))
         /\ Out!RetryDelivery(S, un).thread = S.thread
<1> DEFINE back == [S EXCEPT !.cursor = S.turnCursor]
<1>1. Onward(S, back) /\ back.thread = S.thread /\ Onward(S, S)
  BY DEF Onward, OutShape, OutFields
<1>2. \/ Out!RetryDelivery(S, un) = S
      \/ Out!RetryDelivery(S, un) = back
      \/ Out!RetryDelivery(S, un) = Out!Write(back, S.turnText, un)
  BY DEF Out!RetryDelivery
<1> HIDE DEF back
<1>3. /\ Onward(S, Out!Write(back, S.turnText, un))
      /\ Out!Write(back, S.turnText, un).thread = S.thread
  BY <1>1 DEF Out!Write, Onward, OutShape, OutFields
<1> QED
  BY <1>1, <1>2, <1>3

LEMMA VerdictEnds ==
  ASSUME NEW S, NEW t \in Out!Threads, OutShape(S)
  PROVE  Ends(S, Out!Verdict(S, t), t)
<1> DEFINE others == Out!Unhandled(S) \
                       (IF t = "chain" THEN {Head(S.events).query} ELSE {})
           Handled == [S EXCEPT !.handled = TRUE]
           Retried == Out!RetryDelivery(Handled, others)
           Error == [S EXCEPT !.handled = TRUE, !.hadError = TRUE]
           Told == Out!NotifyUserDelivery(S)
<1>1. /\ Onward(S, S)
      /\ Onward(S, Handled) /\ Handled.thread = S.thread
      /\ Onward(S, Error) /\ Error.thread = S.thread
      /\ Onward(S, Told) /\ Told.thread = S.thread
  BY DEF Onward, OutShape, OutFields, Out!NotifyUserDelivery
<1>2. \/ Out!Verdict(S, t) = Out!Return(Retried, t)
      \/ Out!Verdict(S, t) = Out!Return(Error, t)
      \/ Out!Verdict(S, t) = Out!Return(Told, t)
      \/ Out!Verdict(S, t) = Out!Return(S, t)
  BY DEF Out!Verdict
<1> HIDE DEF Handled, Error, Told, others
<1>3. Onward(Handled, Retried) /\ Retried.thread = Handled.thread
  BY <1>1, RetryOnward DEF Onward
<1> HIDE DEF Retried
<1>4. Onward(S, Retried) /\ Retried.thread = S.thread
  BY <1>1, <1>3 DEF Onward
<1>5. ASSUME NEW M, Onward(S, M), M.thread = S.thread
      PROVE  Ends(S, Out!Return(M, t), t)
  BY <1>5, ReturnEnds, OnwardEnds DEF Onward
<1> QED
  BY <1>1, <1>2, <1>4, <1>5

(* The stages of finalizeNativeStreamTerminal, last first.                 *)
LEMMA CleanupEnds ==
  ASSUME NEW S, NEW t \in Out!Threads, OutShape(S)
  PROVE  Ends(S, Out!Cleanup(S, t), t)
<1> DEFINE M == Out!Cancelled(S, S.handle)
<1>1. Onward(S, M) /\ M.thread = S.thread
  BY DEF Onward, OutShape, OutFields, Out!Cancelled
<1> HIDE DEF M
<1>2. Ends(S, Out!Verdict(M, t), t)
  BY <1>1, VerdictEnds, OnwardEnds DEF Onward
<1> QED
  BY <1>2, VerdictEnds, WaitEnds DEF Out!Cleanup, M

LEMMA SendPlainEnds ==
  ASSUME NEW S, NEW t \in Out!Threads, NEW what, NEW stage, OutShape(S)
  PROVE  Ends(S, Out!SendPlain(S, t, what, stage), t)
<1> DEFINE M == [S EXCEPT !.attempted = TRUE, !.thread[t].stage = stage]
<1>1. Onward(S, M) /\ (t = "tail" => M.thread["chain"] = S.thread["chain"])
  BY DEF Onward, OutShape, OutFields, ThreadFields, Out!Threads
<1> HIDE DEF M
<1>2. Ends(M, Out!Wait(M, t, "plain", 0, what), t)
  BY <1>1, WaitEnds DEF Onward
<1> QED
  BY <1>1, <1>2, OnwardEnds DEF M, Out!SendPlain

LEMMA FailedOnward ==
  ASSUME NEW S, NEW f, OutShape(S)
  PROVE  Onward(S, [S EXCEPT !.failed = f]) /\ [S EXCEPT !.failed = f].thread = S.thread
  BY DEF Onward, OutShape, OutFields

LEMMA AfterUnfinishedEnds ==
  ASSUME NEW S, NEW t \in Out!Threads, NEW landed, OutShape(S)
  PROVE  Ends(S, Out!AfterUnfinished(S, t, landed), t)
<1> DEFINE M == [S EXCEPT !.failed = S.failed /\ ~landed]
<1>1. Onward(S, M) /\ M.thread = S.thread
  BY FailedOnward
<1> HIDE DEF M
<1>2. Ends(S, Out!Cleanup(M, t), t)
  BY <1>1, CleanupEnds, OnwardEnds DEF Onward
<1> QED
  BY <1>2 DEF Out!AfterUnfinished, M

LEMMA UnfinishedEndedEnds ==
  ASSUME NEW S, NEW t \in Out!Threads, NEW h, NEW what, OutShape(S)
  PROVE  Ends(S, Out!UnfinishedEnded(S, t, h, what), t)
<1> DEFINE M == [S EXCEPT !.sent = TRUE]
           f == [S EXCEPT !.failed = TRUE, !.failure = what]
<1>1. Onward(S, M) /\ M.thread = S.thread /\ Onward(S, f) /\ f.thread = S.thread
  BY DEF Onward, OutShape, OutFields
<1> HIDE DEF M, f
<1>2. Ends(S, Out!Cleanup(M, t), t)
  BY <1>1, CleanupEnds, OnwardEnds DEF Onward
<1>3. Ends(S, Out!SendPlain(f, t, what, "unfinished"), t)
  BY <1>1, SendPlainEnds, OnwardEnds DEF Onward
<1>4. Ends(S, Out!AfterUnfinished(f, t, f.delivered), t)
  BY <1>1, AfterUnfinishedEnds, OnwardEnds DEF Onward
<1> QED
  BY <1>2, <1>3, <1>4 DEF Out!UnfinishedEnded, M, f

LEMMA UnfinishedEnds ==
  ASSUME NEW S, NEW t \in Out!Threads, OutShape(S)
  PROVE  Ends(S, Out!Unfinished(S, t), t)
<1> DEFINE h == S.handle
           e == [S EXCEPT !.handle = 0]
           M == [e EXCEPT !.streams[h].ended = TRUE, !.thread[t].stage = "unfinished"]
<1>1. Onward(S, e) /\ e.thread = S.thread
  BY DEF Onward, OutShape, OutFields
<1>2. Ends(S, Out!UnfinishedEnded(e, t, h, S.partial), t)
  BY <1>1, UnfinishedEndedEnds, OnwardEnds DEF Onward
<1> HIDE DEF e
<1>3. Onward(e, M) /\ (t = "tail" => M.thread["chain"] = e.thread["chain"])
  BY <1>1 DEF Onward, OutShape, OutFields, ThreadFields, Out!Threads
<1> HIDE DEF M
<1>4. Ends(M, Out!Wait(M, t, "end", h, S.partial), t)
  BY <1>3, WaitEnds DEF Onward
<1>5. Ends(S, Out!Wait(M, t, "end", h, S.partial), t)
  BY <1>1, <1>3, <1>4, OnwardEnds
<1> QED
  BY <1>2, <1>5, CleanupEnds DEF Out!Unfinished, M, e

LEMMA AfterPartialEnds ==
  ASSUME NEW S, NEW t \in Out!Threads, NEW landed, OutShape(S)
  PROVE  Ends(S, Out!AfterPartial(S, t, landed), t)
<1> DEFINE M == [S EXCEPT !.failed = S.failed \/ ~landed]
<1>1. Onward(S, M) /\ M.thread = S.thread
  BY FailedOnward
<1> HIDE DEF M
<1>2. Ends(S, Out!Unfinished(M, t), t)
  BY <1>1, UnfinishedEnds, OnwardEnds DEF Onward
<1> QED
  BY <1>2 DEF Out!AfterPartial, M

LEMMA PartialFallbackEnds ==
  ASSUME NEW S, NEW t \in Out!Threads, OutShape(S)
  PROVE  Ends(S, Out!PartialFallback(S, t), t)
  BY SendPlainEnds, AfterPartialEnds, UnfinishedEnds DEF Out!PartialFallback

LEMMA ProbeOnward ==
  ASSUME NEW S, OutShape(S)
  PROVE  Onward(S, Out!Probe(S)) /\ Out!Probe(S).thread = S.thread
  BY DEF Onward, OutShape, OutFields, Out!Probe

LEMMA SettleEnds ==
  ASSUME NEW S, NEW t \in Out!Threads, OutShape(S)
  PROVE  Ends(S, Out!Settle(S, t), t)
<1>1. Ends(S, Out!PartialFallback(Out!Probe(S), t), t)
  BY ProbeOnward, PartialFallbackEnds, OnwardEnds DEF Onward
<1> QED
  BY <1>1, WaitEnds DEF Out!Settle

LEMMA AfterFailureEnds ==
  ASSUME NEW S, NEW t \in Out!Threads, NEW landed, OutShape(S)
  PROVE  Ends(S, Out!AfterFailure(S, t, landed), t)
<1> DEFINE M == [S EXCEPT !.failed = S.failed /\ ~landed]
<1>1. Onward(S, M) /\ M.thread = S.thread
  BY FailedOnward
<1> HIDE DEF M
<1>2. Ends(S, Out!Settle(M, t), t)
  BY <1>1, SettleEnds, OnwardEnds DEF Onward
<1> QED
  BY <1>2 DEF Out!AfterFailure, M

LEMMA FailureFallbackEnds ==
  ASSUME NEW S, NEW t \in Out!Threads, OutShape(S)
  PROVE  Ends(S, Out!FailureFallback(S, t), t)
  BY SendPlainEnds, AfterFailureEnds, SettleEnds DEF Out!FailureFallback

LEMMA AfterCoalescedEnds ==
  ASSUME NEW S, NEW t \in Out!Threads, NEW landed, OutShape(S)
  PROVE  Ends(S, Out!AfterCoalesced(S, t, landed), t)
<1> DEFINE M == [S EXCEPT !.armed = FALSE, !.buffer = {}, !.failed = S.failed \/ ~landed]
<1>1. Onward(S, M) /\ M.thread = S.thread
  BY DEF Onward, OutShape, OutFields
<1> HIDE DEF M
<1>2. Ends(S, Out!FailureFallback(M, t), t)
  BY <1>1, FailureFallbackEnds, OnwardEnds DEF Onward
<1> QED
  BY <1>2 DEF Out!AfterCoalesced, M

LEMMA FinalizeEnds ==
  ASSUME NEW S, NEW t \in Out!Threads, OutShape(S)
  PROVE  Ends(S, Out!Finalize(S, t), t)
  BY SendPlainEnds, AfterCoalescedEnds, FailureFallbackEnds DEF Out!Finalize

LEMMA EndsUnedited ==
  ASSUME NEW S, NEW M, NEW R, NEW t \in Out!Threads, NoEdits(S), Longer(S, M),
         M.channel = S.channel, M.progressive = S.progressive, M.events = S.events,
         t = "tail" => M.thread["chain"] = S.thread["chain"],
         Ends(M, R, t)
  PROVE  Unedited(S, R)
<1>1. R.channel = S.channel /\ Longer(S, R)
  BY DEF Ends, Longer
<1>2. NoEdits(R)
  <2>1. CASE t = "tail"
    BY <2>1 DEF Ends, NoEdits
  <2>2. CASE t = "chain"
    BY <2>2 DEF Ends, NoEdits
  <2> QED
    BY <2>1, <2>2 DEF Out!Threads
<1> QED
  BY <1>1, <1>2 DEF Unedited

LEMMA WaitUnedited ==
  ASSUME NEW S, NEW M, NEW where, NEW held, NEW what, Onward(S, M), S.progressive = 0,
         where # "edit", where \in {"typing", "send"} => Head(S.events).kind = "final"
  PROVE  /\ Unedited(S, Out!Wait(M, "chain", where, held, what))
         /\ Out!Wait(M, "chain", where, held, what).chat = M.chat
  BY DEF Onward, OutShape, OutFields, ThreadFields, Out!Threads, Out!Wait, NoEdits, Unedited,
         Longer

LEMMA OverUnedited ==
  ASSUME NEW S, NEW M, Onward(S, M), S.progressive = 0
  PROVE  Unedited(S, Out!CallbackOver(M))
  BY DEF Onward, OutShape, OutFields, ThreadFields, Out!Threads, Out!CallbackOver, Out!Rest,
         Out!Resting, NoEdits, Unedited, Longer

LEMMA OutputUnedited ==
  ASSUME NEW S, OutShape(S), S.channel # "edits", S.progressive = 0
  PROVE  Unedited(S, Out!Output(S))
<1> DEFINE what == {Out!TextOf(Head(S.events))}
           p == [S EXCEPT !.partial = what]
           c == Out!Chunk(p)
<1>1. Onward(S, S) /\ Onward(S, p)
  BY DEF Onward, OutShape, OutFields
<1> HIDE DEF p
<1>2. Onward(S, c)
  BY <1>1 DEF Onward, OutShape, OutFields, Out!Chunk
<1> HIDE DEF c
<1>3. Onward(S, Out!Probe(c))
  BY <1>2, ProbeOnward DEF Onward
<1>4. Head(S.events).kind = "final" => Unedited(S, Out!Wait(S, "chain", "typing", 0, what))
  BY <1>1, WaitUnedited
<1>5. Unedited(S, Out!Wait(p, "chain", "open", 0, what))
  BY <1>1, WaitUnedited
<1>6. Unedited(S, Out!CallbackOver(Out!Probe(c)))
  BY <1>3, OverUnedited
<1>7. \/ Head(S.events).kind = "final" /\ Out!Output(S) = Out!Wait(S, "chain", "typing", 0, what)
      \/ Out!Output(S) = Out!Wait(p, "chain", "open", 0, what)
      \/ Out!Output(S) = Out!CallbackOver(Out!Probe(c))
  BY DEF Out!Output, p, c
<1> QED
  BY <1>4, <1>5, <1>6, <1>7

LEMMA UneditedAfter ==
  ASSUME NEW S, NEW M, NEW R, Onward(S, M), Unedited(M, R)
  PROVE  Unedited(S, R)
  BY DEF Onward, Unedited, Longer

LEMMA OnwardTwice ==
  ASSUME NEW S, NEW M, NEW R, Onward(S, M), Onward(M, R)
  PROVE  Onward(S, R)
  BY DEF Onward

LEMMA ResetOnward ==
  ASSUME NEW S, OutShape(S), S.progressive = 0
  PROVE  Onward(S, Out!ResetDeliveryState(S))
  BY DEF Onward, OutShape, OutFields, Out!ResetDeliveryState

LEMMA ResultUnedited ==
  ASSUME NEW S, OutShape(S), S.channel # "edits", S.progressive = 0
  PROVE  Unedited(S, Out!Result(S))
<1> DEFINE r == Out!ResetDeliveryState(S)
           m == [r EXCEPT !.seen = r.seq, !.boundary = TRUE]
           n == IF r.seq = r.seen THEN r ELSE m
           b == [n EXCEPT !.boundary = FALSE, !.progressive = 0, !.partial = {},
                          !.last = 0, !.sent = FALSE]
           c == Out!Cancelled(b, b.handle)
<1>1. Onward(S, r)
  BY ResetOnward
<1>2. \/ Out!Result(S) = Out!Output(n)
      \/ Out!Result(S) = Out!Output(b)
      \/ Out!Result(S) = Out!Output(c)
      \/ Out!Result(S) = Out!Wait(b, "chain", "boundary", b.handle, {})
  BY DEF Out!Result
<1> HIDE DEF r
<1>3. Onward(S, m)
  BY <1>1 DEF Onward, OutShape, OutFields
<1> HIDE DEF m
<1>4. Onward(S, n)
  BY <1>1, <1>3
<1> HIDE DEF n
<1>5. Onward(S, b)
  BY <1>4 DEF Onward, OutShape, OutFields
<1> HIDE DEF b
<1>6. Onward(S, c)
  BY <1>5 DEF Onward, OutShape, OutFields, Out!Cancelled
<1> HIDE DEF c
<1>7. ASSUME NEW M, Onward(S, M) PROVE Unedited(S, Out!Output(M))
  BY <1>7, OutputUnedited, UneditedAfter DEF Onward
<1>8. Unedited(S, Out!Wait(b, "chain", "boundary", b.handle, {}))
  BY <1>5, WaitUnedited
<1> QED
  BY <1>2, <1>4, <1>5, <1>6, <1>7, <1>8

LEMMA InterimUnedited ==
  ASSUME NEW S, NEW M, OutShape(M), M.channel = S.channel, M.progressive = 0, Longer(S, M)
  PROVE  Unedited(S, Out!Interim(M))
<1>1. Onward(M, M)
  BY DEF Onward
<1>2. /\ Unedited(M, Out!Wait(M, "chain", "interim", 0, {}))
      /\ Out!Wait(M, "chain", "interim", 0, {}).chat = M.chat
  BY <1>1, WaitUnedited
<1> QED
  BY <1>2 DEF Unedited, Longer, Out!Interim

LEMMA FinalOutUnedited ==
  ASSUME NEW S, NEW M, OutShape(M), M.channel = S.channel, Longer(S, M)
  PROVE  Unedited(S, Out!FinalOut(M))
<1> DEFINE N == [M EXCEPT !.progressive = 0, !.partial = {}, !.sent = TRUE]
<1>1. OutShape(N) /\ N.channel = S.channel /\ N.progressive = 0 /\ Longer(S, N)
  BY DEF OutShape, OutFields, Longer
<1> HIDE DEF N
<1> QED
  BY <1>1, InterimUnedited DEF N, Out!FinalOut

LEMMA FinalEndedUnedited ==
  ASSUME NEW S, NEW M, NEW h, NEW what, NEW bubble,
         OutShape(M), M.channel = S.channel, Longer(S, M)
  PROVE  Unedited(S, Out!FinalEnded(M, h, what, bubble))
<1> DEFINE e == [M EXCEPT !.handle = 0, !.last = bubble]
           p == [e EXCEPT !.progressive = 0]
           f == Out!FinalFailed(p, what)
<1>1. OutShape(e) /\ e.channel = S.channel /\ Longer(S, e)
  BY DEF OutShape, OutFields, Longer
<1>2. Out!FinalEnded(M, h, what, bubble) \in {Out!Interim(f), Out!FinalOut(e)}
  BY DEF Out!FinalEnded
<1> HIDE DEF e
<1>3. OutShape(f) /\ f.channel = S.channel /\ Longer(S, f) /\ f.progressive = 0
  BY <1>1 DEF OutShape, OutFields, Longer, Out!FinalFailed
<1> HIDE DEF f
<1> QED
  BY <1>1, <1>2, <1>3, InterimUnedited, FinalOutUnedited

LEMMA FinalUnedited ==
  ASSUME NEW S, OutShape(S), S.channel # "edits", S.progressive = 0,
         Head(S.events).kind = "final"
  PROVE  Unedited(S, Out!Final(S))
<1> DEFINE what == S.thread["chain"].texts
           h == S.handle
           c == [S EXCEPT !.thread["chain"].stage = "callback"]
           k == [S EXCEPT !.buffer = @ \cup what, !.progressive = 0, !.partial = {}]
           m == [c EXCEPT !.streams[h].ended = TRUE]
<1>1. \/ Out!Final(S) = Out!Interim(k)
      \/ Out!Final(S) = Out!FinalEnded(S, h, what, 0)
      \/ Out!Final(S) = Out!Wait(m, "chain", "end", h, what)
      \/ Out!Final(S) = Out!Wait(c, "chain", "send", 0, what)
  <2>1. CASE S.armed
    BY <2>1 DEF Out!Final
  <2>2. CASE ~S.armed /\ h # 0
    BY <2>2 DEF Out!Final
  <2>3. CASE ~S.armed /\ h = 0 /\ S.progressive = 0
    BY <2>3 DEF Out!Final
  <2> QED
    BY <2>1, <2>2, <2>3
<1>2. Onward(S, c) /\ Onward(S, k) /\ Onward(S, S)
  BY DEF Onward, OutShape, OutFields, ThreadFields, Out!Threads
<1> HIDE DEF c, k
<1>3. Onward(S, m)
  BY <1>2 DEF Onward, OutShape, OutFields
<1> HIDE DEF m, h, what
<1>4. Unedited(S, Out!Interim(k))
  BY <1>2, InterimUnedited DEF Onward, Longer
<1>5. Unedited(S, Out!FinalEnded(S, h, what, 0))
  BY <1>2, FinalEndedUnedited DEF Onward, Longer
<1>6. /\ Unedited(S, Out!Wait(m, "chain", "end", h, what))
      /\ Unedited(S, Out!Wait(c, "chain", "send", 0, what))
  BY <1>2, <1>3, WaitUnedited
<1> QED
  BY <1>1, <1>4, <1>5, <1>6

LEMMA AgentSteps ==
  ASSUME OutInv(output),
         \/ Out!Emit \/ Out!Complete \/ Out!Die \/ Out!NextQuery \/ Out!Pipe \/ Out!Drains
  PROVE  AgentStep(output, output')
<1> DEFINE S == output
<1>1. OutShape(S) /\ S.query \in Nat /\ S.emitted \in Nat
  BY DEF OutInv, OutTypes
<1>2. CASE Out!Emit
  <2>1. PICK k \in {"partial", "final"} :
          /\ output' = [S EXCEPT !.emitted = @ + 1,
               !.answer[S.query] = IF k = "final" THEN S.emitted + 1 ELSE @,
               !.events = Append(@, [query |-> S.query, nth |-> S.emitted + 1, kind |-> k])]
          /\ S.alive /\ S.working
    BY <1>2 DEF Out!Emit
  <2> DEFINE o == [query |-> S.query, nth |-> S.emitted + 1, kind |-> k]
  <2>2. o \in OutputRecords /\ o.query = S.query
    BY <1>1 DEF OutputRecords
  <2>3. /\ Unheard(S, output') /\ output'.events = Append(S.events, o)
        /\ output'.alive = S.alive /\ output'.working = S.working /\ output'.query = S.query
    BY <1>1, <2>1 DEF Unheard, OutShape, OutFields
  <2> HIDE DEF o
  <2> QED
    BY <2>1, <2>2, <2>3 DEF AgentStep, Queues
<1>3. CASE Out!Complete
  <2>1. PICK k \in {"complete", "error"} :
          /\ output' = Out!Resolve([S EXCEPT !.working = FALSE, !.alive = k = "complete",
                       !.events = Append(@, [query |-> S.query, nth |-> 0, kind |-> k])],
                    IF k = "complete" THEN "success" ELSE "error")
          /\ S.alive /\ S.working
    BY <1>3 DEF Out!Complete
  <2> DEFINE o == [query |-> S.query, nth |-> 0, kind |-> k]
             R == [S EXCEPT !.working = FALSE, !.alive = k = "complete",
                            !.events = Append(@, o)]
             how == IF k = "complete" THEN "success" ELSE "error"
  <2>2. output' = R \/ output' = [R EXCEPT !.resolved = how]
    BY <2>1 DEF Out!Resolve
  <2>3. o \in OutputRecords /\ o.query = S.query /\ ~IsOutput(o)
    BY <1>1 DEF OutputRecords, IsOutput
  <2>4. Unheard(S, R) /\ R.events = Append(S.events, o) /\ R.query = S.query /\ OutShape(R)
    BY <1>1 DEF Unheard, OutShape, OutFields
  <2> HIDE DEF R, o
  <2>5. Unheard(S, output') /\ output'.events = Append(S.events, o) /\ output'.query = S.query
    BY <2>2, <2>4 DEF Unheard, OutShape, OutFields
  <2> QED
    BY <2>1, <2>3, <2>5 DEF AgentStep, Queues
<1>4. CASE Out!Die
  <2> DEFINE R == [S EXCEPT !.alive = FALSE, !.working = FALSE]
  <2>1. output' = R \/ output' = [R EXCEPT !.resolved = "error"]
    BY <1>4 DEF Out!Die, Out!Resolve
  <2>2. Unheard(S, R) /\ R.events = S.events /\ ~R.alive /\ OutShape(R)
    BY <1>1 DEF Unheard, OutShape, OutFields
  <2> HIDE DEF R
  <2>3. Unheard(S, output') /\ output'.events = S.events /\ ~output'.alive
    BY <2>1, <2>2 DEF Unheard, OutShape, OutFields
  <2> QED
    BY <2>3 DEF AgentStep, Idles
<1>5. CASE Out!NextQuery
  BY <1>1, <1>5 DEF Out!NextQuery, AgentStep, Unheard, Idles, OutShape, OutFields
<1>6. CASE Out!Pipe
  <2>1. PICK m : output' = [Out!Write(S, (S.cursor + 1)..m, Out!Unhandled(S)) EXCEPT
                 !.turnCursor = IF @ = Out!Null THEN S.cursor ELSE @, !.cursor = m]
    BY <1>6 DEF Out!Pipe
  <2> DEFINE ms == (S.cursor + 1)..m
             un == Out!Unhandled(S)
             R == Out!Write(S, ms, un)
             c == IF R.turnCursor = Out!Null THEN S.cursor ELSE R.turnCursor
  <2>2. output' = [R EXCEPT !.turnCursor = c, !.cursor = m]
    BY <2>1
  <2> HIDE DEF ms, un, c
  <2>3. /\ Unheard(S, R) /\ R.events = S.events
        /\ R.alive = S.alive /\ R.working = S.working /\ R.query = S.query
        /\ OutShape(R)
    BY <1>1 DEF Unheard, OutShape, OutFields, Out!Write
  <2> HIDE DEF R
  <2> QED
    BY <2>2, <2>3 DEF AgentStep, Unheard, Idles, OutShape, OutFields
<1>7. CASE Out!Drains
  <2>1. PICK h : LET d == [S EXCEPT !.streams[h].draining = FALSE] IN
          output' = d \/ output' = Out!Fault([d EXCEPT !.streams[h].dead = TRUE])
    BY <1>7 DEF Out!Drains
  <2> DEFINE d == [S EXCEPT !.streams[h].draining = FALSE]
  <2>2. /\ Unheard(S, d) /\ d.events = S.events
        /\ d.alive = S.alive /\ d.working = S.working /\ d.query = S.query
        /\ OutShape(d)
    BY <1>1 DEF Unheard, OutShape, OutFields
  <2> HIDE DEF d
  <2>3. output' = d \/ output' = Out!Fault([d EXCEPT !.streams[h].dead = TRUE])
    BY <2>1 DEF d
  <2>4. /\ Unheard(S, output') /\ output'.events = S.events
        /\ output'.alive = S.alive /\ output'.working = S.working /\ output'.query = S.query
    BY <2>2, <2>3 DEF Unheard, OutShape, OutFields, Out!Fault
  <2> QED
    BY <2>4 DEF AgentStep, Idles
<1> QED
  BY <1>2, <1>3, <1>4, <1>5, <1>6, <1>7

LEMMA AgentUnedited ==
  ASSUME NEW S, NEW R, OutInv(S), NoEdits(S), AgentStep(S, R)
  PROVE  Unedited(S, R)
<1>1. /\ R.channel = S.channel /\ R.progressive = S.progressive /\ R.chat = S.chat
      /\ R.thread = S.thread
  BY DEF AgentStep, Unheard
<1>2. S.thread["chain"].at # "none" => S.events # <<>> /\ S.events \in Seq(OutputRecords)
  BY DEF OutInv, OutTypes, Waits, Out!Threads
<1>3. S.thread["chain"].at # "none" => Head(R.events) = Head(S.events)
  BY <1>2, AppendFacts DEF AgentStep, Idles, Queues
<1> QED
  BY <1>1, <1>3 DEF NoEdits, Unedited, Longer

LEMMA BeginUnedited ==
  ASSUME Native(output), Out!Begin
  PROVE  Unedited(output, output')
<1>1. OutShape(output) /\ output.progressive = 0 /\ NoEdits(output)
  BY DEF Native, OutInv, NoEdits
<1>2. Unedited(output, Out!Result(output))
  BY <1>1, ResultUnedited DEF Native
<1>3. Ends(output, Out!Finalize(output, "chain"), "chain")
  BY <1>1, FinalizeEnds DEF Out!Threads
<1>4. Unedited(output, Out!Finalize(output, "chain"))
  BY <1>1, <1>3, EndsUnedited DEF Longer, Out!Threads
<1> QED
  BY <1>2, <1>4 DEF Out!Begin

LEMMA SentUnedited ==
  ASSUME Native(output), Out!Sent
  PROVE  Unedited(output, output')
<1> DEFINE S == output
           c == S.thread["chain"]
           A == [Out!Show(S, c.texts) EXCEPT !.last = Len(S.chat) + 1]
           B == Out!Fault(IF S.channel = "native" THEN Out!FinalFailed(S, c.texts) ELSE S)
<1>1. OutShape(S) /\ S.progressive = 0 /\ NoEdits(S) /\ Waits(S, "chain")
  BY DEF Native, OutInv, NoEdits, Out!Threads
<1>2. c.at = "send"
  BY DEF Out!Sent
<1>3. Head(S.events).kind = "final" /\ c.texts = {Out!TextOf(Head(S.events))}
  BY <1>1, <1>2 DEF NoEdits, Waits, TheOutput
<1>4. \E x \in c.texts : x.final
  <2>1. Out!TextOf(Head(S.events)).final
    BY <1>3 DEF Out!TextOf
  <2> QED
    BY <1>3, <2>1
<1>5. output' = Out!FinalOut(A) \/ output' = Out!CallbackOver(B)
  BY <1>4 DEF Out!Sent
<1>6. OutShape(A) /\ A.channel = S.channel /\ Longer(S, A)
  BY <1>1 DEF OutShape, OutFields, Out!Show, Longer
<1>7. Onward(S, B)
  BY <1>1 DEF Onward, OutShape, OutFields, Out!Fault, Out!FinalFailed
<1> HIDE DEF A, B
<1> QED
  BY <1>1, <1>5, <1>6, <1>7, FinalOutUnedited, OverUnedited

LEMMA EndedUnedited ==
  ASSUME NEW t \in Out!Threads, Native(output), Out!Ended(t)
  PROVE  Unedited(output, output')
<1> DEFINE S == output
           c == S.thread[t]
           A == Out!Show(S, c.texts)
           L == [S EXCEPT !.streams[c.hold].lost = TRUE]
           B == Out!Fault(L)
<1>1. OutShape(S) /\ S.progressive = 0 /\ NoEdits(S)
  BY DEF Native, OutInv, NoEdits
<1>2. Onshow(S, A)
  BY <1>1 DEF Onshow, Longer, Out!Show, OutShape, OutFields
<1>3. Onshow(S, L)
  BY <1>1 DEF Onshow, Longer, OutShape, OutFields
<1>4. PICK M, bubble : /\ M = A \/ M = B
                       /\ output' = IF c.stage = "callback"
                                    THEN Out!FinalEnded(M, c.hold, c.texts, bubble)
                                    ELSE Out!UnfinishedEnded(M, t, c.hold, c.texts)
  BY DEF Out!Ended
<1> HIDE DEF A, L
<1>5. Onshow(S, B)
  BY <1>3 DEF Onshow, Longer, OutShape, OutFields, Out!Fault
<1> HIDE DEF B
<1>6. Onshow(S, M)
  BY <1>2, <1>4, <1>5
<1>7. Unedited(S, Out!FinalEnded(M, c.hold, c.texts, bubble))
  BY <1>6, FinalEndedUnedited DEF Onshow
<1>8. Ends(M, Out!UnfinishedEnded(M, t, c.hold, c.texts), t)
  BY <1>6, UnfinishedEndedEnds DEF Onshow
<1>9. Unedited(S, Out!UnfinishedEnded(M, t, c.hold, c.texts))
  BY <1>1, <1>6, <1>8, EndsUnedited DEF Onshow
<1> QED
  BY <1>4, <1>7, <1>9

LEMMA PlainSentUnedited ==
  ASSUME NEW t \in Out!Threads, Native(output), Out!PlainSent(t)
  PROVE  Unedited(output, output')
<1> DEFINE S == output
           c == S.thread[t]
           A == [Out!Show(S, c.texts) EXCEPT !.last = Len(S.chat) + 1,
                   !.delivered = TRUE, !.sent = TRUE]
           B == Out!Fault(S)
           After(R, landed) ==
             CASE c.stage = "coalesced"  -> Out!AfterCoalesced(R, t, landed)
               [] c.stage = "failure"    -> Out!AfterFailure(R, t, landed)
               [] c.stage = "partial"    -> Out!AfterPartial(R, t, landed)
               [] c.stage = "unfinished" -> Out!AfterUnfinished(R, t, landed)
<1>1. OutShape(S) /\ S.progressive = 0 /\ NoEdits(S) /\ Waits(S, t)
  BY DEF Native, OutInv, NoEdits
<1>2. /\ c.at = "plain"
      /\ output' = After(A, TRUE) \/ output' = After(B, FALSE)
  BY DEF Out!PlainSent
<1>3. c.stage \in {"coalesced", "failure", "partial", "unfinished"}
  BY <1>1, <1>2 DEF Waits
<1>4. Onshow(S, A) /\ Onshow(S, B)
  BY <1>1 DEF Onshow, Longer, Out!Show, Out!Fault, OutShape, OutFields
<1> HIDE DEF A, B
<1>5. ASSUME NEW M, NEW landed, Onshow(S, M) PROVE Unedited(S, After(M, landed))
  <2>1. OutShape(M)
    BY <1>5 DEF Onshow
  <2>2. Ends(M, After(M, landed), t)
    <3>1. CASE c.stage = "coalesced"
      BY <2>1, <3>1, AfterCoalescedEnds
    <3>2. CASE c.stage = "failure"
      BY <2>1, <3>2, AfterFailureEnds
    <3>3. CASE c.stage = "partial"
      BY <2>1, <3>3, AfterPartialEnds
    <3>4. CASE c.stage = "unfinished"
      BY <2>1, <3>4, AfterUnfinishedEnds
    <3> QED
      BY <1>3, <3>1, <3>2, <3>3, <3>4
  <2> HIDE DEF After
  <2> QED
    BY <1>1, <1>5, <2>2, EndsUnedited DEF Onshow
<1> HIDE DEF After
<1> QED
  BY <1>2, <1>4, <1>5

LEMMA DrainedUnedited ==
  ASSUME NEW t \in Out!Threads, Native(output), Out!Drained(t)
  PROVE  Unedited(output, output')
<1> DEFINE S == output
           h == S.thread[t].hold
           P == IF S.handle = h THEN Out!Probe(S) ELSE S
           C == Out!Cancelled(S, h)
<1>1. OutShape(S) /\ S.progressive = 0 /\ NoEdits(S)
  BY DEF Native, OutInv, NoEdits
<1>2. \/ output' = Out!PartialFallback(P, t)
      \/ output' = Out!Verdict(C, t)
      \/ output' = Out!Output(C)
  BY DEF Out!Drained, Out!MayResume
<1>3. Onward(S, S) /\ Onward(S, C) /\ C.thread = S.thread
  BY <1>1 DEF Onward, OutShape, OutFields, Out!Cancelled
<1>4. Onward(S, P) /\ P.thread = S.thread
  BY <1>1, <1>3, ProbeOnward
<1> HIDE DEF P, C
<1>5. /\ Ends(S, Out!PartialFallback(P, t), t)
      /\ Ends(S, Out!Verdict(C, t), t)
  BY <1>3, <1>4, PartialFallbackEnds, VerdictEnds, OnwardEnds DEF Onward
<1>6. /\ Unedited(S, Out!PartialFallback(P, t))
      /\ Unedited(S, Out!Verdict(C, t))
  BY <1>1, <1>5, EndsUnedited DEF Longer
<1>7. Unedited(S, Out!Output(C))
  <2>1. OutShape(C) /\ C.channel # "edits" /\ C.progressive = 0
    BY <1>1, <1>3 DEF Onward, Native
  <2> QED
    BY <1>3, <2>1, OutputUnedited, UneditedAfter
<1> QED
  BY <1>2, <1>6, <1>7

LEMMA TailUnedited ==
  ASSUME Native(output), Out!RunReturns \/ Out!Decide
  PROVE  Unedited(output, output')
<1> DEFINE S == output
           retry == (S.resolved = "error" \/ S.hadError) /\ ~S.sent
           d == [S EXCEPT !.verdict = IF retry THEN "retry" ELSE "success",
                          !.cursor = IF retry THEN 0 ELSE @,
                          !.thread["tail"].final = TRUE]
<1>1. OutShape(S) /\ NoEdits(S) /\ "tail" \in Out!Threads
  BY DEF Native, OutInv, Out!Threads
<1>2. output' = Out!Finalize(S, "tail") \/ output' = Out!Finalize(d, "tail")
  BY DEF Out!RunReturns, Out!Decide
<1>3. Onward(S, d) /\ d.thread["chain"] = S.thread["chain"]
  BY <1>1 DEF Onward, OutShape, OutFields, ThreadFields, Out!Threads
<1> HIDE DEF d
<1>4. Ends(S, Out!Finalize(S, "tail"), "tail") /\ Ends(S, Out!Finalize(d, "tail"), "tail")
  BY <1>1, <1>3, FinalizeEnds, OnwardEnds DEF Onward
<1> QED
  BY <1>1, <1>2, <1>4, EndsUnedited DEF Longer

LEMMA NativeSteps ==
  ASSUME Native(output), Out!Next
  PROVE  Unedited(output, output')
<1>1. OutInv(output) /\ OutShape(output) /\ output.progressive = 0 /\ NoEdits(output)
      /\ output.channel # "edits"
  BY DEF Native, OutInv, NoEdits
<1>2. CASE Out!TypingOff
  BY <1>1, <1>2, FinalUnedited DEF Out!TypingOff, NoEdits
<1>3. CASE Out!TypingOn
  <2>1. Onward(output, output)
    BY <1>1 DEF Onward
  <2> QED
    BY <1>1, <1>3, <2>1, OverUnedited DEF Out!TypingOn
<1>4. CASE Out!StreamOpens
  <2> DEFINE M == [output EXCEPT
            !.streams = Append(@, [draining |-> TRUE, dead |-> FALSE,
                                   ended |-> FALSE, lost |-> FALSE]),
            !.handle = Len(output.streams) + 1]
  <2>1. Onward(output, M)
    BY <1>1 DEF Onward, OutShape, OutFields
  <2>2. output' = Out!CallbackOver(M)
    BY <1>4 DEF Out!StreamOpens
  <2> HIDE DEF M
  <2> QED
    BY <1>1, <2>1, <2>2, OverUnedited
<1>5. ~Out!Edited
  BY <1>1 DEF NoEdits, Out!Edited
<1>6. CASE Out!Emit \/ Out!Complete \/ Out!Die \/ Out!NextQuery \/ Out!Pipe \/ Out!Drains
  BY <1>1, <1>6, AgentSteps, AgentUnedited
<1> QED
  BY <1>2, <1>3, <1>4, <1>5, <1>6, BeginUnedited, SentUnedited, EndedUnedited,
     PlainSentUnedited, DrainedUnedited, TailUnedited DEF Out!Next

(* The channel that edits has nothing to finalize but the verdict.         *)
LEMMA NothingOpen ==
  ASSUME NEW S, NEW t, S.handle = 0, S.armed = FALSE, S.failed = FALSE
  PROVE  Out!Finalize(S, t) = Out!Verdict(S, t)
<1>1. Out!Probe(S) = S
  BY DEF Out!Probe
<1>2. Out!Cleanup(S, t) = Out!Verdict(S, t)
  BY DEF Out!Cleanup
<1>3. Out!Unfinished(S, t) = Out!Verdict(S, t)
  BY <1>2 DEF Out!Unfinished
<1>4. Out!PartialFallback(S, t) = Out!Verdict(S, t)
  BY <1>3 DEF Out!PartialFallback
<1>5. Out!Settle(S, t) = Out!Verdict(S, t)
  BY <1>1, <1>4 DEF Out!Settle
<1>6. Out!FailureFallback(S, t) = Out!Verdict(S, t)
  BY <1>5 DEF Out!FailureFallback
<1> QED
  BY <1>6 DEF Out!Finalize

LEMMA RetryQuiet ==
  ASSUME NEW S, NEW un, OutShape(S)
  PROVE  Quiet(S, Out!RetryDelivery(S, un))
<1> DEFINE back == [S EXCEPT !.cursor = S.turnCursor]
<1>1. Quiet(S, back) /\ Quiet(S, S)
  BY DEF Quiet, SameIds, OutShape, OutFields
<1>2. \/ Out!RetryDelivery(S, un) = S
      \/ Out!RetryDelivery(S, un) = back
      \/ Out!RetryDelivery(S, un) = Out!Write(back, S.turnText, un)
  BY DEF Out!RetryDelivery
<1> HIDE DEF back
<1>3. Quiet(S, Out!Write(back, S.turnText, un))
  BY <1>1 DEF Out!Write, Quiet, SameIds, OutShape, OutFields
<1> QED
  BY <1>1, <1>2, <1>3

LEMMA QuietTwice ==
  ASSUME NEW S, NEW M, NEW R, Quiet(S, M), Quiet(M, R)
  PROVE  Quiet(S, R)
  BY DEF Quiet, SameIds

LEMMA VerdictQuiet ==
  ASSUME NEW S, NEW t \in Out!Threads, OutShape(S)
  PROVE  \E M : Quiet(S, M) /\ Out!Verdict(S, t) = Out!Return(M, t)
<1> DEFINE others == Out!Unhandled(S) \
                       (IF t = "chain" THEN {Head(S.events).query} ELSE {})
           Handled == [S EXCEPT !.handled = TRUE]
           Retried == Out!RetryDelivery(Handled, others)
           Error == [S EXCEPT !.handled = TRUE, !.hadError = TRUE]
           Told == Out!NotifyUserDelivery(S)
<1>1. Quiet(S, S) /\ Quiet(S, Handled) /\ Quiet(S, Error) /\ Quiet(S, Told)
  BY DEF Quiet, SameIds, OutShape, OutFields, Out!NotifyUserDelivery
<1>2. \/ Out!Verdict(S, t) = Out!Return(Retried, t)
      \/ Out!Verdict(S, t) = Out!Return(Error, t)
      \/ Out!Verdict(S, t) = Out!Return(Told, t)
      \/ Out!Verdict(S, t) = Out!Return(S, t)
  BY DEF Out!Verdict
<1> HIDE DEF Handled, Error, Told, others
<1>3. Quiet(Handled, Retried)
  BY <1>1, RetryQuiet DEF Quiet, SameIds
<1> HIDE DEF Retried
<1>4. Quiet(S, Retried)
  BY <1>1, <1>3, QuietTwice
<1> QED
  BY <1>1, <1>2, <1>4

LEMMA QueuedHead ==
  ASSUME NEW S, Queued(S)
  PROVE  Head(S.events) = S.events[1] /\ 1 \in DOMAIN S.events
  BY DEF Queued

LEMMA PoppingRuns ==
  ASSUME NEW S, NEW R, Queued(S), InRuns(S), Popping(S, R)
  PROVE  /\ InRuns(R)
         /\ \A q : IsOutput(S.events[1]) /\ Current(S, q) => Current(R, q)
<1> DEFINE es == S.events
           ts == Tail(es)
<1>1. /\ es \in Seq(OutputRecords) /\ es # <<>>
      /\ R.events = ts /\ R.alive = S.alive /\ R.working = S.working /\ R.query = S.query
  BY DEF Queued, Popping, SameIds
<1>2. /\ ts \in Seq(OutputRecords) /\ Len(ts) = Len(es) - 1 /\ Len(es) \in Nat
      /\ DOMAIN ts = 1..Len(ts) /\ DOMAIN es = 1..Len(es)
      /\ \A i \in DOMAIN ts : ts[i] = es[i + 1]
  BY <1>1, TailFacts
<1>3. ts # <<>> => Len(ts) > 0
  BY <1>2
<1> HIDE DEF es, ts
<1>4. ts = <<>> => Len(es) = 1
  <2>1. ts = <<>> => Len(ts) = 0
    OBVIOUS
  <2> QED
    BY <1>2, <2>1
<1>5. /\ \A i \in DOMAIN es : i + 1 \in DOMAIN es /\ IsOutput(es[i]) =>
           es[i + 1].query = es[i].query
      /\ es # <<>> /\ S.alive /\ IsOutput(es[Len(es)]) =>
           S.working /\ S.query = es[Len(es)].query
  BY DEF InRuns, es
<1>6. ASSUME NEW i \in DOMAIN ts, i + 1 \in DOMAIN ts, IsOutput(ts[i])
      PROVE  ts[i + 1].query = ts[i].query
  <2>1. /\ i + 1 \in DOMAIN es /\ i + 1 + 1 \in DOMAIN es
        /\ ts[i] = es[i + 1] /\ ts[i + 1] = es[i + 1 + 1]
    BY <1>2, <1>6
  <2> QED
    BY <1>5, <1>6, <2>1
<1>7. ts # <<>> => ts[Len(ts)] = es[Len(es)]
  BY <1>2, <1>3
<1>8. InRuns(R)
  BY <1>1, <1>5, <1>6, <1>7 DEF InRuns
<1>9. ASSUME NEW q, IsOutput(es[1]), Current(S, q) PROVE Current(R, q)
  <2>1. es[1].query = q
    BY <1>1, <1>9 DEF Current, es
  <2>2. CASE ts # <<>>
    <3>1. 1 \in DOMAIN es /\ 1 + 1 \in DOMAIN es /\ ts[1] = es[1 + 1]
      BY <1>2, <1>3, <2>2
    <3>2. ts[1].query = q
      BY <1>5, <1>9, <2>1, <3>1
    <3> QED
      BY <1>1, <2>2, <3>2 DEF Current
  <2>3. CASE ts = <<>>
    <3>1. S.alive => S.working /\ S.query = q
      BY <1>1, <1>4, <1>5, <1>9, <2>1, <2>3
    <3> QED
      BY <1>1, <2>3, <3>1 DEF Current
  <2> QED
    BY <2>2, <2>3
<1> QED
  BY <1>8, <1>9 DEF es

LEMMA PoppingEdits ==
  ASSUME NEW S, NEW R, Queued(S), NoStreams(S), InRuns(S), Ids(S), Popping(S, R),
         R.boundary \/ (~S.boundary /\ IsOutput(S.events[1]))
  PROVE  EditsInv(R)
<1>1. InRuns(R)
  BY PoppingRuns
<1>2. NoStreams(R)
  BY DEF NoStreams, Popping, SameIds
<1>3. InHand(R)
  BY DEF InHand, InCallback, Popping
<1>4. \A b : FinalsIn(R, b) = FinalsIn(S, b)
  BY DEF FinalsIn, Popping, SameIds
<1>5. Ids(R)
  BY <1>4, PoppingRuns DEF Ids, Popping, SameIds
<1> QED
  BY <1>1, <1>2, <1>3, <1>5 DEF EditsInv

LEMMA OverPops ==
  ASSUME NEW S, OutShape(S)
  PROVE  Popping(S, Out!CallbackOver(S)) /\ Out!CallbackOver(S).boundary = S.boundary
  BY DEF Popping, SameIds, Out!CallbackOver, Out!Rest, Out!Resting, OutShape, OutFields,
         ThreadFields, Out!Threads

LEMMA ReturnPops ==
  ASSUME NEW S, OutShape(S)
  PROVE  Popping(S, Out!Return(S, "chain")) /\ Out!Return(S, "chain").boundary = TRUE
  BY DEF Popping, SameIds, Out!Return, Out!Rest, Out!Resting, OutShape, OutFields,
         ThreadFields, Out!Threads

LEMMA SameIdsKeep ==
  ASSUME NEW S, NEW R, SameIds(S, R), R.events = S.events, R.boundary = S.boundary,
         InRuns(S), Ids(S)
  PROVE  InRuns(R) /\ Ids(R)
<1>1. InRuns(R)
  BY DEF InRuns, SameIds
<1>2. \A b : FinalsIn(R, b) = FinalsIn(S, b)
  BY DEF FinalsIn, SameIds
<1>3. \A q : Current(S, q) => Current(R, q)
  BY DEF Current, SameIds
<1> QED
  BY <1>1, <1>2, <1>3 DEF Ids, SameIds

LEMMA WaitEdits ==
  ASSUME NEW S, NEW where \in InCallback, NEW held, NEW what, Handling(S),
         where = "typing" => S.events[1].kind = "final",
         where = "edit" => /\ held \in DOMAIN S.chat
                           /\ \A x \in FinalsIn(S, held) : x.query = S.events[1].query
  PROVE  Edits(S, Out!Wait(S, "chain", where, held, what))
<1> DEFINE R == Out!Wait(S, "chain", where, held, what)
<1>1. /\ SameIds(S, R) /\ R.events = S.events /\ R.boundary = S.boundary
      /\ R.thread["tail"] = S.thread["tail"]
      /\ R.thread["chain"].at = where /\ R.thread["chain"].hold = held
  BY DEF Handling, SameIds, Out!Wait, OutShape, OutFields, ThreadFields, Out!Threads
<1> HIDE DEF R
<1>2. InRuns(R) /\ Ids(R)
  BY <1>1, SameIdsKeep DEF Handling
<1>3. NoStreams(R)
  BY <1>1 DEF Handling, NoStreams, SameIds
<1>4. FinalsIn(R, held) = FinalsIn(S, held)
  BY <1>1 DEF FinalsIn, SameIds
<1>5. InHand(R)
  BY <1>1, <1>4 DEF Handling, Queued, InHand, InCallback, SameIds
<1> QED
  BY <1>1, <1>2, <1>3, <1>5 DEF Edits, EditsInv, SameIds, R

LEMMA OverEdits ==
  ASSUME NEW S, Handling(S)
  PROVE  Edits(S, Out!CallbackOver(S))
<1>1. Popping(S, Out!CallbackOver(S)) /\ Out!CallbackOver(S).boundary = S.boundary
  BY OverPops DEF Handling
<1> HIDE DEF Out!CallbackOver
<1> QED
  BY <1>1, PoppingEdits DEF Handling, Edits, Popping, SameIds

(* Partial texts and stages do not matter.                                 *)
LEMMA QuietHand ==
  ASSUME NEW S, NEW R, Handling(S), SameIds(S, R), R.events = S.events, R.boundary = S.boundary,
         R.thread["tail"].at = S.thread["tail"].at, R.thread["chain"].at = S.thread["chain"].at
  PROVE  Handling(R)
<1>1. InRuns(R) /\ Ids(R)
  BY SameIdsKeep DEF Handling
<1>2. NoStreams(R)
  BY DEF Handling, NoStreams, SameIds
<1> QED
  BY <1>1, <1>2 DEF Handling, Queued, SameIds

LEMMA OutputEdits ==
  ASSUME NEW S, Handling(S)
  PROVE  Edits(S, Out!Output(S))
<1> DEFINE what == {Out!TextOf(Head(S.events))}
           M == [[S EXCEPT !.partial = what] EXCEPT !.thread["chain"].stage = "callback"]
           where == IF S.progressive = 0 THEN "send" ELSE "edit"
<1>1. Head(S.events) = S.events[1]
  BY QueuedHead DEF Handling
<1>2. CASE Head(S.events).kind = "final"
  <2>1. Out!Output(S) = Out!Wait(S, "chain", "typing", 0, what)
    BY <1>2 DEF Out!Output
  <2> QED
    BY <1>1, <1>2, <2>1, WaitEdits DEF InCallback
<1>3. CASE Head(S.events).kind # "final"
  <2>1. Out!Output(S) = Out!Wait(M, "chain", where, S.progressive, what)
    BY <1>3 DEF Out!Output, Handling
  <2>2. /\ SameIds(S, M) /\ M.events = S.events /\ M.boundary = S.boundary
        /\ M.thread["tail"] = S.thread["tail"] /\ M.thread["chain"].at = S.thread["chain"].at
    BY DEF Handling, SameIds, OutShape, OutFields, ThreadFields, Out!Threads
  <2> HIDE DEF M
  <2>3. Handling(M)
    BY <2>2, QuietHand
  <2>4. S.progressive # 0 => /\ S.progressive \in DOMAIN M.chat
                             /\ FinalsIn(M, S.progressive) = {}
    BY <2>2 DEF Handling, Queued, Ids, SameIds, FinalsIn
  <2>5. Edits(M, Out!Wait(M, "chain", where, S.progressive, what))
    BY <2>3, <2>4, WaitEdits DEF InCallback
  <2> QED
    BY <2>1, <2>2, <2>5 DEF Edits, SameIds
<1> QED
  BY <1>2, <1>3

LEMMA ReboundKeeps ==
  ASSUME NEW S, NEW R, Bound(S), Rebound(S, R),
         R.progressive = S.progressive \/ R.progressive = 0,
         R.last = S.last \/ R.last = 0,
         R.boundary = S.boundary \/ R.boundary \/ R.last = 0
  PROVE  Bound(R)
<1>1. InRuns(R)
  BY DEF Bound, InRuns, Rebound
<1>2. \A b : FinalsIn(R, b) = FinalsIn(S, b)
  BY DEF FinalsIn, Rebound
<1>3. \A q : Current(S, q) => Current(R, q)
  BY DEF Current, Rebound
<1>4. Ids(R)
  BY <1>2, <1>3 DEF Bound, Queued, Ids, Rebound
<1>5. NoStreams(R)
  BY DEF Bound, NoStreams, Rebound
<1> QED
  BY <1>1, <1>4, <1>5 DEF Bound, Queued, Rebound

LEMMA ResultEdits ==
  ASSUME NEW S, Bound(S)
  PROVE  Edits(S, Out!Result(S))
<1> DEFINE r == Out!ResetDeliveryState(S)
           m == [r EXCEPT !.seen = r.seq, !.boundary = TRUE]
           n == IF r.seq = r.seen THEN r ELSE m
           b == [n EXCEPT !.boundary = FALSE, !.progressive = 0, !.partial = {},
                          !.last = 0, !.sent = FALSE]
<1>1. Bound(r) /\ Rebound(S, r)
  <2>1. /\ Rebound(S, r)
        /\ r.progressive = S.progressive \/ r.progressive = 0
        /\ r.last = S.last \/ r.last = 0
        /\ r.boundary = S.boundary
    BY DEF Bound, Rebound, OutShape, OutFields, Out!ResetDeliveryState
  <2> HIDE DEF r
  <2> QED
    BY <2>1, ReboundKeeps
<1> HIDE DEF r
<1>2. Bound(m) /\ Rebound(S, m)
  <2>1. /\ Rebound(r, m) /\ m.progressive = r.progressive /\ m.last = r.last /\ m.boundary
    BY <1>1 DEF Bound, Rebound, OutShape, OutFields
  <2> HIDE DEF m
  <2> QED
    BY <1>1, <2>1, ReboundKeeps DEF Rebound
<1>3. Bound(n) /\ Rebound(S, n)
  BY <1>1, <1>2
<1>4. /\ ~n.boundary => Out!Result(S) = Out!Output(n)
      /\ n.boundary /\ b.handle = 0 => Out!Result(S) = Out!Output(b)
  BY DEF Out!Result, n, m, b, r
<1> HIDE DEF n
<1>5. Handling(b) /\ Rebound(S, b)
  <2>1. /\ Rebound(n, b) /\ b.progressive = 0 /\ b.last = 0 /\ b.boundary = FALSE
    BY <1>3 DEF Bound, Rebound, OutShape, OutFields
  <2> HIDE DEF b
  <2>2. Bound(b)
    BY <1>3, <2>1, ReboundKeeps
  <2> QED
    BY <1>3, <2>1, <2>2 DEF Rebound, Bound, Handling
<1> HIDE DEF b
<1>6. b.handle = 0
  BY <1>5 DEF Handling, NoStreams
<1>7. ~n.boundary => Handling(n)
  BY <1>3 DEF Handling, Bound
<1>8. ASSUME NEW M, Handling(M), Rebound(S, M) PROVE Edits(S, Out!Output(M))
  BY <1>8, OutputEdits DEF Edits, Rebound
<1> QED
  BY <1>3, <1>4, <1>5, <1>6, <1>7, <1>8

LEMMA BeginEdits ==
  ASSUME OutInv(output), output.channel = "edits", EditsInv(output), Out!Begin
  PROVE  Edits(output, output')
<1> DEFINE S == output
<1>1. OutShape(S) /\ S.events # <<>> /\ Queued(S)
  BY DEF OutInv, OutTypes, Queued, Out!Begin, Out!MayBegin
<1>2. S.events[1] \in OutputRecords /\ Head(S.events) = S.events[1]
  BY <1>1, QueuedHead DEF Queued
<1>3. CASE Head(S.events).kind \in {"complete", "error"}
  <2>1. S.handle = 0 /\ S.armed = FALSE /\ S.failed = FALSE /\ "chain" \in Out!Threads
    BY DEF EditsInv, NoStreams, Out!Threads
  <2>2. output' = Out!Finalize(S, "chain")
    BY <1>3 DEF Out!Begin
  <2>3. output' = Out!Verdict(S, "chain")
    BY <2>1, <2>2, NothingOpen
  <2>4. PICK M : Quiet(S, M) /\ output' = Out!Return(M, "chain")
    BY <1>1, <2>1, <2>3, VerdictQuiet
  <2>5. Popping(M, Out!Return(M, "chain")) /\ Out!Return(M, "chain").boundary = TRUE
    BY <2>4, ReturnPops DEF Quiet, SameIds
  <2> HIDE DEF Out!Return
  <2>6. Popping(S, output') /\ output'.boundary = TRUE
    BY <2>4, <2>5 DEF Popping, Quiet, SameIds
  <2> QED
    BY <1>1, <2>6, PoppingEdits DEF EditsInv, Edits, Popping, SameIds
<1>4. CASE Head(S.events).kind \notin {"complete", "error"}
  <2>1. output' = Out!Result(S)
    BY <1>4 DEF Out!Begin
  <2>2. IsOutput(S.events[1])
    BY <1>2, <1>4 DEF IsOutput, OutputRecords
  <2>3. Bound(S)
    BY <1>1, <2>2 DEF Bound, EditsInv
  <2> QED
    BY <2>1, <2>3, ResultEdits
<1> QED
  BY <1>3, <1>4

LEMMA HandIn ==
  ASSUME NEW S, OutInv(S), S.channel = "edits", EditsInv(S),
         S.thread["chain"].at \in InCallback
  PROVE  Handling(S) /\ Head(S.events) = S.events[1]
<1>1. Handling(S)
  BY DEF Handling, OutInv, OutTypes, Queued, EditsInv, InHand
<1> QED
  BY <1>1, QueuedHead DEF Handling

LEMMA FinalEdits ==
  ASSUME NEW S, Handling(S), S.events[1].kind = "final"
  PROVE  Edits(S, Out!Final(S))
<1> DEFINE what == S.thread["chain"].texts
           c == [S EXCEPT !.thread["chain"].stage = "callback"]
<1>1. ~S.armed /\ S.handle = 0
  BY DEF Handling, NoStreams
<1>2. \/ S.progressive # 0 /\ Out!Final(S) = Out!Wait(c, "chain", "edit", S.progressive, what)
      \/ S.last # 0 /\ Out!Final(S) = Out!Wait(c, "chain", "edit", S.last, what)
      \/ Out!Final(S) = Out!Wait(c, "chain", "send", 0, what)
  <2>1. CASE S.progressive # 0
    BY <1>1, <2>1 DEF Out!Final
  <2>2. CASE S.progressive = 0
    BY <1>1, <2>2 DEF Out!Final
  <2> QED
    BY <2>1, <2>2
<1>3. /\ SameIds(S, c) /\ c.events = S.events /\ c.boundary = S.boundary
      /\ c.thread["tail"] = S.thread["tail"] /\ c.thread["chain"].at = S.thread["chain"].at
  BY DEF Handling, SameIds, OutShape, OutFields, ThreadFields, Out!Threads
<1> HIDE DEF c, what
<1>4. Handling(c)
  BY <1>3, QuietHand
<1>5. S.progressive # 0 => /\ S.progressive \in DOMAIN c.chat
                           /\ FinalsIn(c, S.progressive) = {}
  BY <1>3 DEF Handling, Queued, Ids, SameIds, FinalsIn
<1>6. S.last # 0 => /\ S.last \in DOMAIN c.chat
                    /\ \A x \in FinalsIn(c, S.last) : x.query = c.events[1].query
  BY <1>3 DEF Handling, Queued, Ids, SameIds, FinalsIn, Current
<1>7. /\ S.progressive # 0 =>
           Edits(c, Out!Wait(c, "chain", "edit", S.progressive, what))
      /\ S.last # 0 => Edits(c, Out!Wait(c, "chain", "edit", S.last, what))
      /\ Edits(c, Out!Wait(c, "chain", "send", 0, what))
  BY <1>4, <1>5, <1>6, WaitEdits DEF InCallback
<1> QED
  BY <1>2, <1>3, <1>7 DEF Edits, SameIds

LEMMA LandsRuns ==
  ASSUME NEW S, NEW M, NEW bubble, NEW what, Handling(S), Lands(S, M, bubble, what)
  PROVE  NoStreams(M) /\ InRuns(M) /\ Queued(M)
  BY DEF Handling, Lands, NoStreams, InRuns, Queued

LEMMA LandsFinal ==
  ASSUME NEW S, NEW M, NEW bubble, Handling(S), S.events[1].kind = "final",
         Lands(S, M, bubble, {Out!TextOf(S.events[1])})
  PROVE  /\ EditsInv(Out!FinalOut([M EXCEPT !.last = bubble]))
         /\ Out!FinalOut([M EXCEPT !.last = bubble]).chat = M.chat
         /\ Out!FinalOut([M EXCEPT !.last = bubble]).channel = M.channel
<1> DEFINE A == [M EXCEPT !.last = bubble]
           N == [A EXCEPT !.progressive = 0, !.partial = {}, !.sent = TRUE]
<1>1. /\ OutShape(N) /\ N.chat = M.chat /\ N.channel = M.channel /\ N.events = M.events
      /\ N.thread = M.thread /\ N.handle = M.handle /\ N.armed = M.armed
      /\ N.failed = M.failed /\ N.boundary = M.boundary /\ N.alive = M.alive
      /\ N.working = M.working /\ N.query = M.query
      /\ N.progressive = 0 /\ N.last = bubble
  BY DEF Lands, OutShape, OutFields
<1>2. Out!FinalOut(A) = Out!Wait(N, "chain", "interim", 0, {})
  BY DEF Out!FinalOut, Out!Interim
<1> HIDE DEF N, A
<1>3. NoStreams(N) /\ InRuns(N) /\ Queued(N)
  <2>1. NoStreams(M) /\ InRuns(M) /\ Queued(M)
    BY LandsRuns
  <2> QED
    BY <1>1, <2>1 DEF NoStreams, InRuns, Queued
<1>4. Ids(N)
  <2>1. \A x \in FinalsIn(N, N.last) : x.query = S.events[1].query
    BY <1>1 DEF FinalsIn, Lands, Out!TextOf
  <2>2. \A x \in FinalsIn(N, N.last) : Current(N, x.query)
    BY <1>1, <2>1 DEF Current, Handling, Queued, Lands
  <2>3. Len(N.chat) \in Nat
    BY <1>3 DEF Queued
  <2> QED
    BY <1>1, <2>2, <2>3 DEF Ids, Lands
<1>5. Handling(N)
  BY <1>1, <1>3, <1>4 DEF Handling, Lands
<1>6. Edits(N, Out!Wait(N, "chain", "interim", 0, {}))
  BY <1>5, WaitEdits DEF InCallback
<1> QED
  BY <1>1, <1>2, <1>6 DEF A, Edits

LEMMA LandsPartial ==
  ASSUME NEW S, NEW M, NEW bubble, Handling(S), S.events[1].kind # "final",
         Lands(S, M, bubble, {Out!TextOf(S.events[1])})
  PROVE  /\ EditsInv(Out!CallbackOver([M EXCEPT !.progressive = bubble]))
         /\ Out!CallbackOver([M EXCEPT !.progressive = bubble]).chat = M.chat
         /\ Out!CallbackOver([M EXCEPT !.progressive = bubble]).channel = M.channel
<1> DEFINE N == [M EXCEPT !.progressive = bubble]
<1>1. /\ OutShape(N) /\ N.chat = M.chat /\ N.channel = M.channel /\ N.events = M.events
      /\ N.thread = M.thread /\ N.handle = M.handle /\ N.armed = M.armed
      /\ N.failed = M.failed /\ N.boundary = M.boundary /\ N.alive = M.alive
      /\ N.working = M.working /\ N.query = M.query
      /\ N.progressive = bubble /\ N.last = M.last
  BY DEF Lands, OutShape, OutFields
<1> HIDE DEF N
<1>2. NoStreams(N) /\ InRuns(N) /\ Queued(N)
  <2>1. NoStreams(M) /\ InRuns(M) /\ Queued(M)
    BY LandsRuns
  <2> QED
    BY <1>1, <2>1 DEF NoStreams, InRuns, Queued
<1>3. FinalsIn(N, bubble) = {}
  <2>1. ~Out!TextOf(S.events[1]).final
    BY DEF Out!TextOf
  <2> QED
    BY <1>1, <2>1 DEF FinalsIn, Lands
<1>4. Len(N.chat) \in Nat /\ Len(S.chat) \in Nat
  BY <1>2 DEF Queued, Handling
<1>5. ASSUME S.last # 0, NEW x \in FinalsIn(N, S.last) PROVE Current(N, x.query)
  <2>1. S.last # bubble
    BY <1>3, <1>5
  <2>2. S.last \in 1..Len(S.chat)
    BY <1>4, <1>5 DEF Handling, Ids
  <2>3. x \in FinalsIn(S, S.last)
    BY <1>1, <1>5, <2>1, <2>2 DEF FinalsIn, Lands
  <2>4. Current(S, x.query)
    BY <1>5, <2>3 DEF Handling, Ids
  <2> QED
    BY <1>1, <2>4 DEF Current, Lands
<1>6. Ids(N)
  BY <1>1, <1>3, <1>4, <1>5 DEF Handling, Ids, Lands
<1>7. Handling(N)
  BY <1>1, <1>2, <1>6 DEF Handling, Lands
<1>8. Edits(N, Out!CallbackOver(N))
  BY <1>7, OverEdits
<1> QED
  BY <1>1, <1>8 DEF N, Edits

(* A final in the bubble it lands in is of the same query.                 *)
LEMMA LandsKeeps ==
  ASSUME NEW S, NEW M, NEW bubble, NEW R, Handling(S),
         Lands(S, M, bubble, {Out!TextOf(S.events[1])}), R.chat = M.chat,
         bubble \in 1..Len(S.chat) =>
           \A x \in FinalsIn(S, bubble) : x.query = S.events[1].query
  PROVE  KeepsFinals(S, R)
<1> SUFFICES ASSUME NEW b \in DOMAIN S.chat, NEW x \in S.chat[b] \ R.chat[b], x.final,
                    NEW y \in R.chat[b]
             PROVE  y.query = x.query
  BY DEF KeepsFinals
<1>1. b \in 1..Len(S.chat)
  BY DEF Handling, Queued
<1>2. b = bubble
  BY <1>1 DEF Lands
<1>3. y.query = S.events[1].query
  BY <1>2 DEF Lands, Out!TextOf
<1>4. x \in FinalsIn(S, bubble)
  BY <1>2 DEF FinalsIn
<1> QED
  BY <1>1, <1>2, <1>3, <1>4

LEMMA SentEdits ==
  ASSUME OutInv(output), output.channel = "edits", EditsInv(output), Out!Sent
  PROVE  output'.channel = "edits" /\ EditsInv(output') /\ KeepsFinals(output, output')
<1> DEFINE S == output
           c == S.thread["chain"]
           what == {Out!TextOf(S.events[1])}
           A == Out!Show(S, what)
           bubble == Len(S.chat) + 1
           B == Out!Fault(S)
<1>1. c.at = "send" /\ Waits(S, "chain") /\ OutShape(S)
  BY DEF Out!Sent, OutInv, Out!Threads
<1>2. Handling(S) /\ Head(S.events) = S.events[1]
  BY <1>1, HandIn DEF InCallback
<1>3. c.texts = what
  BY <1>1, <1>2 DEF Waits, TheOutput
<1>4. (\E x \in what : x.final) <=> S.events[1].kind = "final"
  <2>1. Out!TextOf(S.events[1]).final = (S.events[1].kind = "final")
    BY DEF Out!TextOf
  <2> QED
    BY <2>1
<1>5. \/ S.events[1].kind = "final" /\ output' = Out!FinalOut([A EXCEPT !.last = bubble])
      \/ S.events[1].kind # "final" /\ output' = Out!CallbackOver([A EXCEPT !.progressive = bubble])
      \/ output' = Out!CallbackOver(B)
  BY <1>2, <1>3, <1>4 DEF Out!Sent, Handling
<1>6. Lands(S, A, bubble, what)
  <2>1. what \in SUBSET TextRecords
    <3>1. S.events[1] \in OutputRecords
      BY <1>2 DEF Handling, Queued
    <3> QED
      BY <3>1 DEF Out!TextOf, OutputRecords, TextRecords
  <2>2. /\ OutShape(A) /\ A.chat = Append(S.chat, what)
        /\ A.channel = S.channel /\ A.events = S.events /\ A.thread = S.thread
        /\ A.handle = S.handle /\ A.armed = S.armed /\ A.failed = S.failed
        /\ A.boundary = S.boundary /\ A.progressive = S.progressive /\ A.last = S.last
        /\ A.alive = S.alive /\ A.working = S.working /\ A.query = S.query
    BY <1>1 DEF Out!Show, OutShape, OutFields
  <2>3. S.chat \in Seq(SUBSET TextRecords)
    BY <1>2 DEF Handling, Queued
  <2> HIDE DEF A, what
  <2>4. /\ A.chat \in Seq(SUBSET TextRecords) /\ Len(A.chat) = bubble
        /\ bubble \in 1..Len(A.chat) /\ Len(A.chat) >= Len(S.chat) /\ A.chat[bubble] = what
        /\ \A b \in 1..Len(S.chat) : A.chat[b] = S.chat[b]
    BY <2>1, <2>2, <2>3
  <2> QED
    BY <2>2, <2>4 DEF Lands
<1>7. bubble \notin 1..Len(S.chat)
  BY <1>2 DEF Handling, Queued
<1>8. SameIds(S, B) /\ B.events = S.events /\ B.boundary = S.boundary /\ B.thread = S.thread
  BY <1>1 DEF SameIds, Out!Fault, OutShape, OutFields
<1> HIDE DEF A, B, bubble
<1>9. Handling(B)
  BY <1>2, <1>8, QuietHand
<1>10. CASE output' = Out!CallbackOver(B)
  <2>1. Edits(B, output')
    BY <1>9, <1>10, OverEdits
  <2> QED
    BY <1>8, <2>1 DEF Edits, SameIds, KeepsFinals
<1>11. CASE S.events[1].kind = "final" /\ output' = Out!FinalOut([A EXCEPT !.last = bubble])
  <2>1. EditsInv(output') /\ output'.chat = A.chat /\ output'.channel = A.channel
    BY <1>2, <1>6, <1>11, LandsFinal
  <2> QED
    BY <1>2, <1>6, <1>7, <2>1, LandsKeeps DEF Lands
<1>12. CASE /\ S.events[1].kind # "final"
            /\ output' = Out!CallbackOver([A EXCEPT !.progressive = bubble])
  <2>1. EditsInv(output') /\ output'.chat = A.chat /\ output'.channel = A.channel
    BY <1>2, <1>6, <1>12, LandsPartial
  <2> QED
    BY <1>2, <1>6, <1>7, <2>1, LandsKeeps DEF Lands
<1> QED
  BY <1>5, <1>10, <1>11, <1>12

LEMMA EditedEdits ==
  ASSUME OutInv(output), output.channel = "edits", EditsInv(output), Out!Edited
  PROVE  output'.channel = "edits" /\ EditsInv(output') /\ KeepsFinals(output, output')
<1> DEFINE S == output
           c == S.thread["chain"]
           what == {Out!TextOf(S.events[1])}
           A == [S EXCEPT !.chat[c.hold] = what]
           B == Out!Fault(S)
           H == Out!Show(S, what)
           D == Out!Fault(H)
           new == Len(S.chat) + 1
           As(M, bubble) == IF S.events[1].kind = "final"
                            THEN Out!FinalOut([M EXCEPT !.last = bubble])
                            ELSE Out!CallbackOver([M EXCEPT !.progressive = bubble])
<1>1. c.at = "edit" /\ Waits(S, "chain") /\ OutShape(S)
  BY DEF Out!Edited, OutInv, Out!Threads
<1>2. Handling(S) /\ Head(S.events) = S.events[1]
  BY <1>1, HandIn DEF InCallback
<1>3. c.texts = what
  BY <1>1, <1>2 DEF Waits, TheOutput
<1>4. (\E x \in what : x.final) <=> S.events[1].kind = "final"
  <2>1. Out!TextOf(S.events[1]).final = (S.events[1].kind = "final")
    BY DEF Out!TextOf
  <2> QED
    BY <2>1
<1>5. \/ output' = As(A, c.hold)
      \/ output' = As(D, new)
      \/ output' = Out!CallbackOver(B)
  BY <1>3, <1>4 DEF Out!Edited
<1>6. what \in SUBSET TextRecords
  <2>1. S.events[1] \in OutputRecords
    BY <1>2 DEF Handling, Queued
  <2> QED
    BY <2>1 DEF Out!TextOf, OutputRecords, TextRecords
<1>7. c.hold \in DOMAIN S.chat /\ \A x \in FinalsIn(S, c.hold) : x.query = S.events[1].query
  BY <1>1 DEF EditsInv, InHand
<1>8. S.chat \in Seq(SUBSET TextRecords)
  BY <1>2 DEF Handling, Queued
<1>9. Lands(S, A, c.hold, what)
  <2>1. /\ OutShape(A) /\ A.chat = [S.chat EXCEPT ![c.hold] = what]
        /\ A.channel = S.channel /\ A.events = S.events /\ A.thread = S.thread
        /\ A.handle = S.handle /\ A.armed = S.armed /\ A.failed = S.failed
        /\ A.boundary = S.boundary /\ A.progressive = S.progressive /\ A.last = S.last
        /\ A.alive = S.alive /\ A.working = S.working /\ A.query = S.query
    BY <1>1 DEF OutShape, OutFields
  <2> HIDE DEF A, what, c
  <2>2. /\ A.chat \in Seq(SUBSET TextRecords) /\ Len(A.chat) = Len(S.chat)
        /\ c.hold \in 1..Len(A.chat) /\ Len(A.chat) >= Len(S.chat) /\ A.chat[c.hold] = what
        /\ \A b \in 1..Len(S.chat) : b # c.hold => A.chat[b] = S.chat[b]
    BY <1>6, <1>7, <1>8, <2>1
  <2> QED
    BY <2>1, <2>2 DEF Lands
<1>10. Lands(S, D, new, what)
  <2>1. /\ OutShape(H) /\ H.chat = Append(S.chat, what)
        /\ H.channel = S.channel /\ H.events = S.events /\ H.thread = S.thread
        /\ H.handle = S.handle /\ H.armed = S.armed /\ H.failed = S.failed
        /\ H.boundary = S.boundary /\ H.progressive = S.progressive /\ H.last = S.last
        /\ H.alive = S.alive /\ H.working = S.working /\ H.query = S.query
    BY <1>1 DEF Out!Show, OutShape, OutFields
  <2> HIDE DEF H
  <2>2. /\ OutShape(D) /\ D.chat = Append(S.chat, what)
        /\ D.channel = S.channel /\ D.events = S.events /\ D.thread = S.thread
        /\ D.handle = S.handle /\ D.armed = S.armed /\ D.failed = S.failed
        /\ D.boundary = S.boundary /\ D.progressive = S.progressive /\ D.last = S.last
        /\ D.alive = S.alive /\ D.working = S.working /\ D.query = S.query
    BY <2>1 DEF Out!Fault, OutShape, OutFields
  <2> HIDE DEF D, what
  <2>3. /\ D.chat \in Seq(SUBSET TextRecords) /\ Len(D.chat) = new
        /\ new \in 1..Len(D.chat) /\ Len(D.chat) >= Len(S.chat) /\ D.chat[new] = what
        /\ \A b \in 1..Len(S.chat) : D.chat[b] = S.chat[b]
    BY <1>6, <1>8, <2>2
  <2> QED
    BY <2>2, <2>3 DEF Lands
<1>11. new \notin 1..Len(S.chat)
  BY <1>8
<1>12. SameIds(S, B) /\ B.events = S.events /\ B.boundary = S.boundary /\ B.thread = S.thread
  BY <1>1 DEF SameIds, Out!Fault, OutShape, OutFields
<1> HIDE DEF A, B, D, H, new
<1>13. Handling(B)
  BY <1>2, <1>12, QuietHand
<1>14. CASE output' = Out!CallbackOver(B)
  <2>1. Edits(B, output')
    BY <1>13, <1>14, OverEdits
  <2> QED
    BY <1>12, <2>1 DEF Edits, SameIds, KeepsFinals
<1>15. ASSUME NEW M, NEW bubble, Lands(S, M, bubble, what), output' = As(M, bubble),
              bubble \in 1..Len(S.chat) =>
                \A x \in FinalsIn(S, bubble) : x.query = S.events[1].query
       PROVE  output'.channel = "edits" /\ EditsInv(output') /\ KeepsFinals(S, output')
  <2>1. EditsInv(output') /\ output'.chat = M.chat /\ output'.channel = M.channel
    <3>1. CASE S.events[1].kind = "final"
      <4>1. output' = Out!FinalOut([M EXCEPT !.last = bubble])
        BY <1>15, <3>1
      <4> QED
        BY <1>2, <1>15, <3>1, <4>1, LandsFinal
    <3>2. CASE S.events[1].kind # "final"
      <4>1. output' = Out!CallbackOver([M EXCEPT !.progressive = bubble])
        BY <1>15, <3>2
      <4> QED
        BY <1>2, <1>15, <3>2, <4>1, LandsPartial
    <3> QED
      BY <3>1, <3>2
  <2> HIDE DEF As
  <2> QED
    BY <1>2, <1>15, <2>1, LandsKeeps DEF Lands
<1> HIDE DEF As
<1> QED
  BY <1>5, <1>7, <1>9, <1>10, <1>11, <1>14, <1>15

LEMMA AgentEdits ==
  ASSUME NEW S, NEW R, OutInv(S), EditsInv(S), AgentStep(S, R)
  PROVE  EditsInv(R)
<1> DEFINE es == S.events
<1>1. es \in Seq(OutputRecords) /\ Unheard(S, R)
  BY DEF OutInv, OutTypes, AgentStep
<1>2. NoStreams(R)
  BY <1>1 DEF EditsInv, NoStreams, Unheard
<1>3. \A b : FinalsIn(R, b) = FinalsIn(S, b)
  BY <1>1 DEF FinalsIn, Unheard
<1>4. CASE Idles(S, R)
  <2>1. InRuns(R)
    BY <1>4 DEF EditsInv, InRuns, Idles
  <2>2. \A q : Current(S, q) => Current(R, q)
    BY <1>4 DEF Current, Idles
  <2>3. Ids(R)
    BY <1>1, <1>3, <2>2 DEF EditsInv, Ids, Unheard
  <2>4. InHand(R)
    BY <1>1, <1>3, <1>4 DEF EditsInv, InHand, Idles, Unheard
  <2> QED
    BY <1>2, <2>1, <2>3, <2>4 DEF EditsInv
<1>5. ASSUME NEW o, Queues(S, R, o) PROVE EditsInv(R)
  <2> DEFINE ns == Append(es, o)
  <2>1. /\ R.events = ns /\ o \in OutputRecords /\ o.query = S.query
        /\ R.query = S.query /\ S.alive /\ S.working
        /\ IsOutput(o) => R.alive = S.alive /\ R.working = S.working
    BY <1>5 DEF Queues
  <2>2. /\ DOMAIN ns = 1..Len(es) + 1 /\ DOMAIN es = 1..Len(es) /\ Len(es) \in Nat
        /\ Len(ns) = Len(es) + 1 /\ ns # <<>>
        /\ \A i \in DOMAIN es : ns[i] = es[i]
        /\ ns[Len(es) + 1] = o
        /\ es # <<>> <=> Len(es) > 0
    BY <1>1, <2>1
  <2> HIDE DEF es, ns
  <2>3. /\ \A i \in DOMAIN es : i + 1 \in DOMAIN es /\ IsOutput(es[i]) =>
             es[i + 1].query = es[i].query
        /\ es # <<>> /\ IsOutput(es[Len(es)]) => S.query = es[Len(es)].query
    BY <2>1 DEF EditsInv, InRuns, es
  <2>4. ASSUME NEW i \in DOMAIN ns, i + 1 \in DOMAIN ns, IsOutput(ns[i])
        PROVE  ns[i + 1].query = ns[i].query
    <3>1. CASE i + 1 \in DOMAIN es
      BY <2>2, <2>3, <2>4, <3>1
    <3>2. CASE i + 1 \notin DOMAIN es
      <4>1. i = Len(es) /\ i \in DOMAIN es /\ es # <<>>
        BY <2>2, <2>4, <3>2
      <4> QED
        BY <2>1, <2>2, <2>3, <2>4, <4>1
    <3> QED
      BY <3>1, <3>2
  <2>5. InRuns(R)
    BY <2>1, <2>2, <2>4 DEF InRuns
  <2>6. es # <<>> => ns[1] = es[1]
    BY <2>2
  <2>7. ASSUME NEW q, Current(S, q) PROVE Current(R, q)
    BY <2>1, <2>2, <2>6, <2>7 DEF Current, es
  <2>8. Ids(R)
    BY <1>1, <1>3, <2>7 DEF EditsInv, Ids, Unheard
  <2>9. InHand(R)
    <3>1. R.events # <<>> /\ (S.events # <<>> => R.events[1] = S.events[1])
      BY <2>1, <2>2, <2>6 DEF es
    <3> QED
      BY <1>1, <1>3, <3>1 DEF EditsInv, InHand, InCallback, Unheard
  <2> QED
    BY <1>2, <2>5, <2>8, <2>9 DEF EditsInv
<1> QED
  BY <1>4, <1>5 DEF AgentStep

LEMMA TailEdits ==
  ASSUME OutInv(output), output.channel = "edits", EditsInv(output),
         Out!RunReturns \/ Out!Decide
  PROVE  Edits(output, output')
<1> DEFINE S == output
           retry == (S.resolved = "error" \/ S.hadError) /\ ~S.sent
           d == [S EXCEPT !.verdict = IF retry THEN "retry" ELSE "success",
                          !.cursor = IF retry THEN 0 ELSE @,
                          !.thread["tail"].final = TRUE]
           where(M) == IF M.thread["tail"].final THEN "over" ELSE "turn-end"
<1>1. OutShape(S) /\ "tail" \in Out!Threads
  BY DEF OutInv, Out!Threads
<1>2. output' = Out!Finalize(S, "tail") \/ output' = Out!Finalize(d, "tail")
  BY DEF Out!RunReturns, Out!Decide
<1>3. /\ SameIds(S, d) /\ d.events = S.events /\ d.boundary = S.boundary
      /\ d.thread["chain"] = S.thread["chain"]
  BY <1>1 DEF SameIds, OutShape, OutFields, ThreadFields, Out!Threads
<1>4. SameIds(S, S)
  BY <1>1 DEF SameIds
<1> HIDE DEF d
<1>5. ASSUME NEW D, SameIds(S, D), D.events = S.events, D.boundary = S.boundary,
             D.thread["chain"] = S.thread["chain"], output' = Out!Finalize(D, "tail")
      PROVE  Edits(S, output')
  <2>1. D.handle = 0 /\ D.armed = FALSE /\ D.failed = FALSE
    BY <1>5 DEF EditsInv, NoStreams, SameIds
  <2>2. output' = Out!Verdict(D, "tail")
    BY <1>5, <2>1, NothingOpen
  <2>3. PICK M : Quiet(D, M) /\ output' = Out!Return(M, "tail")
    BY <1>1, <1>5, <2>2, VerdictQuiet DEF SameIds
  <2>4. output' = Out!Wait(M, "tail", where(M), 0, {})
    BY <2>3 DEF Out!Return
  <2>5. where(M) \in {"over", "turn-end"}
    OBVIOUS
  <2> HIDE DEF where
  <2>6. /\ SameIds(S, M) /\ M.events = S.events /\ M.boundary = S.boundary
        /\ M.thread["chain"] = S.thread["chain"]
    BY <1>5, <2>3 DEF Quiet, SameIds
  <2>7. /\ SameIds(S, output') /\ output'.events = S.events
        /\ output'.boundary = S.boundary
        /\ output'.thread["chain"] = S.thread["chain"]
        /\ output'.thread["tail"].at = where(M)
    BY <2>4, <2>6 DEF SameIds, Out!Wait, OutShape, OutFields, ThreadFields, Out!Threads
  <2>8. InRuns(output') /\ Ids(output')
    BY <2>7, SameIdsKeep DEF EditsInv
  <2>9. NoStreams(output')
    BY <2>5, <2>7 DEF EditsInv, NoStreams, SameIds
  <2>10. \A b : FinalsIn(output', b) = FinalsIn(S, b)
    BY <2>7 DEF FinalsIn, SameIds
  <2>11. InHand(output')
    BY <2>7, <2>10 DEF EditsInv, InHand, SameIds
  <2> QED
    BY <2>7, <2>8, <2>9, <2>11 DEF Edits, EditsInv, SameIds
<1> QED
  BY <1>2, <1>3, <1>4, <1>5

LEMMA EditsSteps ==
  ASSUME OutInv(output), output.channel = "edits", EditsInv(output), Out!Next
  PROVE  output'.channel = "edits" /\ EditsInv(output') /\ KeepsFinals(output, output')
<1>1. output.thread["chain"].at \in {"none"} \cup InCallback
  BY DEF EditsInv, NoStreams
<1>2. output.thread["tail"].at \in {"none", "turn-end", "over"}
  BY DEF EditsInv, NoStreams
<1>3. ~Out!StreamOpens
  BY <1>1 DEF InCallback, Out!StreamOpens
<1>4. ASSUME NEW t \in Out!Threads PROVE ~Out!Ended(t) /\ ~Out!PlainSent(t) /\ ~Out!Drained(t)
  BY <1>1, <1>2 DEF Out!Threads, InCallback, Out!Ended, Out!PlainSent, Out!Drained,
                    Out!MayResume
<1>5. ASSUME Edits(output, output')
      PROVE  output'.channel = "edits" /\ EditsInv(output') /\ KeepsFinals(output, output')
  BY <1>5 DEF Edits, KeepsFinals
<1>6. CASE Out!TypingOff
  <2>1. Handling(output) /\ output.events[1].kind = "final" /\ output' = Out!Final(output)
    BY <1>6, HandIn DEF Out!TypingOff, InCallback, EditsInv, InHand
  <2> QED
    BY <1>5, <2>1, FinalEdits
<1>7. CASE Out!TypingOn
  <2>1. Handling(output) /\ output' = Out!CallbackOver(output)
    BY <1>7, HandIn DEF Out!TypingOn, InCallback
  <2> QED
    BY <1>5, <2>1, OverEdits
<1>8. CASE Out!Emit \/ Out!Complete \/ Out!Die \/ Out!NextQuery \/ Out!Pipe \/ Out!Drains
  <2>1. AgentStep(output, output')
    BY <1>8, AgentSteps
  <2>2. EditsInv(output')
    BY <2>1, AgentEdits
  <2> QED
    BY <1>5, <2>1, <2>2 DEF AgentStep, Unheard, Edits
<1> QED
  BY <1>3, <1>4, <1>5, <1>6, <1>7, <1>8, BeginEdits, SentEdits, EditedEdits, TailEdits
     DEF Out!Next

LEMMA IdsStart ==
  ASSUME Out!Init
  PROVE  IdsInv(output)
<1>1. /\ output.progressive = 0 /\ output.last = 0 /\ output.handle = 0
      /\ output.armed = FALSE /\ output.failed = FALSE /\ output.events = <<>>
      /\ output.thread = [t \in Out!Threads |-> Out!Resting]
  BY DEF Out!Init
<1>2. output.thread["chain"].at = "none" /\ output.thread["tail"].at = "none"
  BY <1>1 DEF Out!Threads, Out!Resting
<1>3. NoEdits(output) /\ NoStreams(output) /\ InHand(output)
  BY <1>1, <1>2 DEF NoEdits, NoStreams, InHand, InCallback
<1>4. InRuns(output)
  BY <1>1 DEF InRuns
<1>5. Ids(output)
  <2>1. Len(output.chat) \in Nat
    BY OutStarts DEF OutInv, OutTypes
  <2> QED
    BY <1>1, <2>1 DEF Ids
<1> QED
  BY <1>3, <1>4, <1>5, OutStarts DEF IdsInv, EditsInv

LEMMA IdsStep ==
  ASSUME IdsInv(output), [Out!Next]_output
  PROVE  IdsInv(output') /\ KeepsFinals(output, output')
<1>1. CASE UNCHANGED output
  BY <1>1 DEF KeepsFinals
<1>2. CASE Out!Next
  <2>1. OutInv(output) /\ OutTypes(output) /\ OutInv(output')
    BY <1>2, OutSteps DEF IdsInv, OutInv
  <2>2. CASE output.channel = "edits"
    BY <1>2, <2>1, <2>2, EditsSteps DEF IdsInv
  <2>3. CASE output.channel # "edits"
    <3>1. Unedited(output, output')
      BY <1>2, <2>1, <2>3, NativeSteps DEF IdsInv, Native
    <3>2. KeepsFinals(output, output')
      BY <2>1, <3>1, LongerKeeps DEF Unedited
    <3> QED
      BY <2>1, <2>3, <3>1, <3>2 DEF IdsInv, Unedited
  <2> QED
    BY <2>2, <2>3
<1> QED
  BY <1>1, <1>2

(* No message with a final of one query is edited into another query's     *)
(* output, in any behaviour of TurnOutput, whatever the channel, the       *)
(* number of queries and the faults: src/index.ts:700-713 forgets the ids  *)
(* of the former query in time.                                            *)
THEOREM OutputNeverOverwritten == Out!Spec => NeverOverwritten
<1>1. Out!Init => IdsInv(output)
  BY IdsStart
<1>2. IdsInv(output) /\ [Out!Next]_output => IdsInv(output)'
  BY IdsStep
<1>3. IdsInv(output) /\ [Out!Next]_output =>
        [\A b \in DOMAIN output.chat :
           \A x \in output.chat[b] \ output'.chat[b] :
             x.final => \A y \in output'.chat[b] : y.query = x.query]_output
  BY IdsStep DEF KeepsFinals
<1> QED
  BY <1>1, <1>2, <1>3, PTL DEF Out!Spec, NeverOverwritten, Out!NeverOverwritten

(* The same beside the messages of ChatTurns.                              *)
THEOREM TurnsNeverOverwrite == TurnsSpec => NeverOverwritten
<1>1. TurnsInit => IdsInv(output)
  BY IdsStart DEF TurnsInit
<1>2. [TurnsNext]_allVars => [Out!Next]_output
  BY DEF TurnsNext, OfMessages, allVars
<1>3. IdsInv(output) /\ [TurnsNext]_allVars => IdsInv(output)'
  BY <1>2, IdsStep
<1>4. IdsInv(output) /\ [TurnsNext]_allVars =>
        [\A b \in DOMAIN output.chat :
           \A x \in output.chat[b] \ output'.chat[b] :
             x.final => \A y \in output'.chat[b] : y.query = x.query]_output
  BY <1>2, IdsStep DEF KeepsFinals
<1> QED
  BY <1>1, <1>3, <1>4, PTL DEF TurnsSpec, NeverOverwritten, Out!NeverOverwritten

-----------------------------------------------------------------------------
(* Outputs: follow-ups are answered or kept.                               *)
LEMMA BooksTexts ==
  ASSUME NEW S, NEW R, Books(S, R)
  PROVE  /\ Clean(R) = Clean(S) /\ Opened(R) = Opened(S) /\ (Nobody(R) <=> Nobody(S))
         /\ \A q : LastText(R, q) = LastText(S, q)
  BY DEF Books, Clean, Opened, Nobody, LastText

LEMMA BooksKeep ==
  ASSUME NEW S, NEW R, Ledger(S), Books(S, R), FirstTurn(R),
         \/ R.stateSeq = S.stateSeq /\ R.handled = S.handled
         \/ R.stateSeq = S.seq /\ ~R.handled /\ ~Nobody(S)
  PROVE  Ledger(R)
<1>1. FollowTypes(R)
  BY DEF Ledger, FollowTypes, Books
<1>2. QueueInv(R)
  BY DEF Ledger, QueueInv, Books
<1>3. Answers(R)
  BY BooksTexts DEF Ledger, Answers, Books
<1>4. TailFirst(R)
  BY BooksTexts DEF Ledger, TailFirst, Books
<1>5. NextClean(R)
  BY BooksTexts DEF Ledger, NextClean, Books
<1>6. OneOpen(R)
  BY BooksTexts DEF Ledger, OneOpen, Books
<1>7. RollsBack(R)
  BY BooksTexts DEF Ledger, RollsBack, Books
<1>8. OverKept(R)
  <2>1. \A q : KeptIn(S, q) => KeptIn(R, q)
    BY DEF KeptIn, Books
  <2>2. \A q : AnsweredIn(S, q) => AnsweredIn(R, q)
    BY BooksTexts DEF AnsweredIn, Books
  <2>3. Clean(R) \cap R.over = Clean(S) \cap S.over
    BY BooksTexts DEF Books
  <2> QED
    BY <2>1, <2>2, <2>3 DEF Ledger, OverKept
<1> QED
  BY <1>1, <1>2, <1>3, <1>4, <1>5, <1>6, <1>7, <1>8 DEF Ledger

LEMMA PathSelf ==
  ASSUME NEW S, NEW t, FollowShape(S)
  PROVE  Path(S, S, t)
  BY DEF Path, Books, Flags

LEMMA PathTwice ==
  ASSUME NEW S, NEW M, NEW R, NEW t, Path(S, M, t), Path(M, R, t)
  PROVE  Path(S, R, t)
<1>1. Books(S, R)
  BY DEF Path, Books
<1>2. Flags(S, R)
  BY DEF Path, Flags
<1> QED
  BY <1>1, <1>2 DEF Path

LEMMA PathStops ==
  ASSUME NEW S, NEW M, NEW R, NEW t, Path(S, M, t), Stops(M, R, t)
  PROVE  Stops(S, R, t)
<1>1. PICK N : Path(M, N, t) /\ (R = Out!Verdict(N, t) \/ (R = N /\ AtRest(M, N, t)))
  BY DEF Stops
<1>2. Path(S, N, t)
  BY <1>1, PathTwice
<1>3. AtRest(M, N, t) => AtRest(S, N, t)
  BY DEF AtRest, Path
<1> QED
  BY <1>1, <1>2, <1>3 DEF Stops

LEMMA VerdictStops ==
  ASSUME NEW S, NEW t, FollowShape(S)
  PROVE  Stops(S, Out!Verdict(S, t), t)
  BY PathSelf DEF Stops

LEMMA PathMoves ==
  ASSUME NEW S, NEW M, NEW t, Moves(S, t), Path(S, M, t)
  PROVE  Moves(M, t)
  BY DEF Moves, Path, Books

LEMMA WaitPath ==
  ASSUME NEW S, NEW t, NEW where, NEW held, NEW what, Moves(S, t), where # "over"
  PROVE  LET R == Out!Wait(S, t, where, held, what) IN
         /\ Path(S, R, t)
         /\ R.thread[t].at = where /\ R.thread[t].texts = what
         /\ R.thread[t].stage = S.thread[t].stage
         /\ R.attempted = S.attempted
<1> DEFINE R == Out!Wait(S, t, where, held, what)
<1>1. /\ FollowShape(R) /\ R.chat = S.chat
      /\ R.thread[t].at = where /\ R.thread[t].texts = what
      /\ R.thread[t].stage = S.thread[t].stage
      /\ \A u \in Out!Threads : u # t => R.thread[u] = S.thread[u]
  BY DEF Moves, Out!Wait, FollowShape, OutShape, OutFields, FollowFields, ThreadFields,
         Out!Threads
<1>2. /\ R.cursor = S.cursor /\ R.turnCursor = S.turnCursor /\ R.seq = S.seq
      /\ R.query = S.query /\ R.turnText = S.turnText /\ R.inbox = S.inbox
      /\ R.asked = S.asked /\ R.answer = S.answer /\ R.over = S.over /\ R.mixed = S.mixed
      /\ R.events = S.events /\ R.working = S.working /\ R.alive = S.alive
      /\ R.resolved = S.resolved /\ R.channel = S.channel
      /\ R.stateSeq = S.stateSeq /\ R.seen = S.seen /\ R.boundary = S.boundary
      /\ R.hadError = S.hadError /\ R.handled = S.handled
      /\ R.delivered = S.delivered /\ R.sent = S.sent /\ R.attempted = S.attempted
      /\ R.handle = S.handle /\ R.streams = S.streams
  BY DEF Moves, Out!Wait, FollowShape, FollowFields, OutFields
<1> HIDE DEF R
<1>3. R.thread["tail"].at = "over" <=> S.thread["tail"].at = "over"
  BY <1>1 DEF Moves, Out!Threads
<1>4. Path(S, R, t)
  BY <1>1, <1>2, <1>3 DEF Path, Books, Flags, InChat
<1> QED
  BY <1>1, <1>2, <1>4 DEF R

LEMMA WaitStops ==
  ASSUME NEW S, NEW t, NEW where \in {"cancel", "settle"}, NEW held, NEW what, Moves(S, t)
  PROVE  Stops(S, Out!Wait(S, t, where, held, what), t)
<1>1. where # "over" /\ where # "plain"
  OBVIOUS
<1> QED
  BY <1>1, WaitPath DEF Stops, AtRest

LEMMA CleanupStops ==
  ASSUME NEW S, NEW t, Moves(S, t)
  PROVE  Stops(S, Out!Cleanup(S, t), t)
<1> DEFINE M == Out!Cancelled(S, S.handle)
<1>1. Path(S, M, t)
  BY DEF Moves, Path, Books, Flags, InChat, FollowShape, FollowFields, OutShape, OutFields,
         Out!Cancelled
<1> HIDE DEF M
<1>2. Stops(S, Out!Verdict(M, t), t)
  BY <1>1 DEF Stops
<1> QED
  BY <1>2, VerdictStops, WaitStops DEF Out!Cleanup, M, Moves

LEMMA SendPlainStops ==
  ASSUME NEW S, NEW t, NEW what, NEW stage, Moves(S, t), Out!MaySendPlain(S, what)
  PROVE  LET R == Out!SendPlain(S, t, what, stage) IN
         /\ Stops(S, R, t) /\ Path(S, R, t)
         /\ R.thread[t].at = "plain" /\ R.thread[t].texts = what
         /\ R.attempted /\ ~R.delivered
<1> DEFINE M == [S EXCEPT !.attempted = TRUE, !.thread[t].stage = stage]
           R == Out!Wait(M, t, "plain", 0, what)
<1>1. /\ FollowShape(M) /\ M.chat = S.chat
      /\ M.thread[t].at = S.thread[t].at
      /\ \A u \in Out!Threads : u # t => M.thread[u] = S.thread[u]
  BY DEF Moves, FollowShape, OutShape, OutFields, FollowFields, ThreadFields, Out!Threads
<1>2. /\ M.cursor = S.cursor /\ M.turnCursor = S.turnCursor /\ M.seq = S.seq
      /\ M.query = S.query /\ M.turnText = S.turnText /\ M.inbox = S.inbox
      /\ M.asked = S.asked /\ M.answer = S.answer /\ M.over = S.over /\ M.mixed = S.mixed
      /\ M.events = S.events /\ M.working = S.working /\ M.alive = S.alive
      /\ M.resolved = S.resolved /\ M.channel = S.channel
      /\ M.stateSeq = S.stateSeq /\ M.seen = S.seen /\ M.boundary = S.boundary
      /\ M.hadError = S.hadError /\ M.handled = S.handled
      /\ M.delivered = S.delivered /\ M.sent = S.sent /\ M.attempted = TRUE
      /\ M.handle = S.handle /\ M.streams = S.streams
  BY DEF Moves, FollowShape, FollowFields, OutFields
<1> HIDE DEF M
<1>3. Path(S, M, t)
  BY <1>1, <1>2 DEF Path, Books, Flags, InChat, Out!Threads, Moves
<1>4. Moves(M, t)
  BY <1>3, PathMoves
<1>5. Path(M, R, t) /\ R.thread[t].at = "plain" /\ R.thread[t].texts = what
      /\ R.attempted = M.attempted
  BY <1>4, WaitPath
<1> HIDE DEF R
<1>6. Path(S, R, t)
  BY <1>3, <1>5, PathTwice
<1>7. ~S.attempted /\ ~S.delivered
  BY DEF Out!MaySendPlain
<1>8. R.attempted /\ ~R.delivered
  BY <1>2, <1>5, <1>6, <1>7 DEF Path
<1>9. Stops(S, R, t)
  BY <1>5, <1>6, <1>7, <1>8 DEF Stops, AtRest
<1> QED
  BY <1>5, <1>6, <1>8, <1>9 DEF Out!SendPlain, R, M

(* The stages, last first.                                                 *)
LEMMA FailedPath ==
  ASSUME NEW S, NEW t, NEW f, Moves(S, t)
  PROVE  Path(S, [S EXCEPT !.failed = f], t) /\ Moves([S EXCEPT !.failed = f], t)
<1>1. Path(S, [S EXCEPT !.failed = f], t)
  BY DEF Moves, Path, Books, Flags, InChat, FollowShape, FollowFields, OutShape, OutFields
<1> QED
  BY <1>1, PathMoves

LEMMA AfterUnfinishedStops ==
  ASSUME NEW S, NEW t, NEW landed, Moves(S, t)
  PROVE  Stops(S, Out!AfterUnfinished(S, t, landed), t)
<1> DEFINE M == [S EXCEPT !.failed = S.failed /\ ~landed]
<1>1. Path(S, M, t) /\ Moves(M, t)
  BY FailedPath
<1> HIDE DEF M
<1>2. Stops(S, Out!Cleanup(M, t), t)
  BY <1>1, CleanupStops, PathStops
<1> QED
  BY <1>2 DEF Out!AfterUnfinished, M

LEMMA UnfinishedEndedStops ==
  ASSUME NEW S, NEW t, NEW h, NEW what, Moves(S, t)
  PROVE  Stops(S, Out!UnfinishedEnded(S, t, h, what), t)
<1> DEFINE M == [S EXCEPT !.sent = TRUE]
           f == [S EXCEPT !.failed = TRUE, !.failure = what]
<1>1. Path(S, M, t) /\ Path(S, f, t)
  BY DEF Moves, Path, Books, Flags, InChat, FollowShape, FollowFields, OutShape, OutFields
<1> HIDE DEF M, f
<1>2. Moves(M, t) /\ Moves(f, t)
  BY <1>1, PathMoves
<1>3. Stops(S, Out!Cleanup(M, t), t)
  BY <1>1, <1>2, CleanupStops, PathStops
<1>4. Out!MaySendPlain(f, what) => Stops(S, Out!SendPlain(f, t, what, "unfinished"), t)
  BY <1>1, <1>2, SendPlainStops, PathStops
<1>5. Stops(S, Out!AfterUnfinished(f, t, f.delivered), t)
  BY <1>1, <1>2, AfterUnfinishedStops, PathStops
<1> QED
  BY <1>3, <1>4, <1>5 DEF Out!UnfinishedEnded, M, f

LEMMA UnfinishedStops ==
  ASSUME NEW S, NEW t, Moves(S, t)
  PROVE  Stops(S, Out!Unfinished(S, t), t)
<1> DEFINE h == S.handle
           e == [S EXCEPT !.handle = 0]
           M == [e EXCEPT !.streams[h].ended = TRUE, !.thread[t].stage = "unfinished"]
           R == Out!Wait(M, t, "end", h, S.partial)
<1>1. Path(S, e, t) /\ e.handle = 0
  BY DEF Moves, Path, Books, Flags, InChat, FollowShape, FollowFields, OutShape, OutFields
<1> HIDE DEF e
<1>2. Moves(e, t)
  BY <1>1, PathMoves
<1>3. Stops(S, Out!UnfinishedEnded(e, t, h, S.partial), t)
  BY <1>1, <1>2, UnfinishedEndedStops, PathStops
<1>4. /\ Path(e, M, t) /\ M.thread[t].stage = "unfinished"
  <2>1. /\ FollowShape(M) /\ M.chat = e.chat
        /\ M.thread[t].at = e.thread[t].at /\ M.thread[t].stage = "unfinished"
        /\ \A u \in Out!Threads : u # t => M.thread[u] = e.thread[u]
    BY <1>2 DEF Moves, FollowShape, OutShape, OutFields, FollowFields, ThreadFields,
                Out!Threads
  <2>2. /\ M.cursor = e.cursor /\ M.turnCursor = e.turnCursor /\ M.seq = e.seq
        /\ M.query = e.query /\ M.turnText = e.turnText /\ M.inbox = e.inbox
        /\ M.asked = e.asked /\ M.answer = e.answer /\ M.over = e.over /\ M.mixed = e.mixed
        /\ M.events = e.events /\ M.working = e.working /\ M.alive = e.alive
        /\ M.resolved = e.resolved /\ M.channel = e.channel
        /\ M.stateSeq = e.stateSeq /\ M.seen = e.seen /\ M.boundary = e.boundary
        /\ M.hadError = e.hadError /\ M.handled = e.handled
        /\ M.delivered = e.delivered /\ M.sent = e.sent /\ M.attempted = e.attempted
        /\ M.handle = e.handle
    BY <1>2 DEF Moves, FollowShape, FollowFields, OutFields
  <2> HIDE DEF M
  <2> QED
    BY <1>1, <1>2, <2>1, <2>2 DEF Path, Books, Flags, InChat, Out!Threads, Moves
<1> HIDE DEF M
<1>5. Path(M, R, t) /\ R.thread[t].at = "end" /\ R.thread[t].stage = "unfinished"
  <2>1. Moves(M, t)
    BY <1>2, <1>4, PathMoves
  <2> QED
    BY <1>4, <2>1, WaitPath
<1> HIDE DEF R
<1>6. Path(S, R, t)
  BY <1>1, <1>4, <1>5, PathTwice
<1>7. Stops(S, R, t)
  BY <1>5, <1>6 DEF Stops, AtRest
<1> QED
  BY <1>3, <1>7, CleanupStops DEF Out!Unfinished, R, M, e

LEMMA AfterPartialStops ==
  ASSUME NEW S, NEW t, NEW landed, Moves(S, t)
  PROVE  Stops(S, Out!AfterPartial(S, t, landed), t)
<1> DEFINE M == [S EXCEPT !.failed = S.failed \/ ~landed]
<1>1. Path(S, M, t) /\ Moves(M, t)
  BY FailedPath
<1> HIDE DEF M
<1>2. Stops(S, Out!Unfinished(M, t), t)
  BY <1>1, UnfinishedStops, PathStops
<1> QED
  BY <1>2 DEF Out!AfterPartial, M

LEMMA PartialFallbackStops ==
  ASSUME NEW S, NEW t, Moves(S, t)
  PROVE  Stops(S, Out!PartialFallback(S, t), t)
  BY SendPlainStops, AfterPartialStops, UnfinishedStops DEF Out!PartialFallback

LEMMA ProbePath ==
  ASSUME NEW S, NEW t, Moves(S, t)
  PROVE  Path(S, Out!Probe(S), t) /\ Moves(Out!Probe(S), t)
<1>1. Path(S, Out!Probe(S), t)
  BY DEF Moves, Path, Books, Flags, InChat, FollowShape, FollowFields, OutShape, OutFields,
         Out!Probe
<1> QED
  BY <1>1, PathMoves

LEMMA SettleStops ==
  ASSUME NEW S, NEW t, Moves(S, t)
  PROVE  Stops(S, Out!Settle(S, t), t)
<1>1. Stops(S, Out!PartialFallback(Out!Probe(S), t), t)
  BY ProbePath, PartialFallbackStops, PathStops
<1> QED
  BY <1>1, WaitStops DEF Out!Settle

LEMMA AfterFailureStops ==
  ASSUME NEW S, NEW t, NEW landed, Moves(S, t)
  PROVE  Stops(S, Out!AfterFailure(S, t, landed), t)
<1> DEFINE M == [S EXCEPT !.failed = S.failed /\ ~landed]
<1>1. Path(S, M, t) /\ Moves(M, t)
  BY FailedPath
<1> HIDE DEF M
<1>2. Stops(S, Out!Settle(M, t), t)
  BY <1>1, SettleStops, PathStops
<1> QED
  BY <1>2 DEF Out!AfterFailure, M

LEMMA FailureFallbackStops ==
  ASSUME NEW S, NEW t, Moves(S, t)
  PROVE  Stops(S, Out!FailureFallback(S, t), t)
  BY SendPlainStops, AfterFailureStops, SettleStops DEF Out!FailureFallback

LEMMA AfterCoalescedStops ==
  ASSUME NEW S, NEW t, NEW landed, Moves(S, t)
  PROVE  Stops(S, Out!AfterCoalesced(S, t, landed), t)
<1> DEFINE M == [S EXCEPT !.armed = FALSE, !.buffer = {}, !.failed = S.failed \/ ~landed]
<1>1. Path(S, M, t)
  BY DEF Moves, Path, Books, Flags, InChat, FollowShape, FollowFields, OutShape, OutFields
<1> HIDE DEF M
<1>2. Moves(M, t)
  BY <1>1, PathMoves
<1>3. Stops(S, Out!FailureFallback(M, t), t)
  BY <1>1, <1>2, FailureFallbackStops, PathStops
<1> QED
  BY <1>3 DEF Out!AfterCoalesced, M

LEMMA FinalizeStops ==
  ASSUME NEW S, NEW t, Moves(S, t)
  PROVE  Stops(S, Out!Finalize(S, t), t)
  BY SendPlainStops, AfterCoalescedStops, FailureFallbackStops DEF Out!Finalize

LEMMA FlagsFirst ==
  ASSUME NEW S, NEW R, Ledger(S), Books(S, R), Flags(S, R),
         S.sent => R.sent, R.delivered => R.sent \/ S.delivered
  PROVE  FirstTurn(R)
  BY DEF Ledger, FirstTurn, Books, Flags

LEMMA PathBase ==
  ASSUME NEW S, NEW R, NEW t \in Out!Threads, Base(S, t), Path(S, R, t)
  PROVE  Base(R, t)
<1>1. Books(S, R) /\ Flags(S, R) /\ (S.sent => R.sent) /\ R.delivered = S.delivered
  BY DEF Path
<1>2. Ledger(R)
  BY <1>1, FlagsFirst, BooksKeep DEF Base, Flags
<1>3. t = "chain" /\ R.handle # 0 => ~R.streams[R.handle].ended
  BY DEF Base, Path
<1>4. t = "tail" => ChainAt(R)
  <2> SUFFICES ASSUME t = "tail" PROVE ChainAt(R)
    OBVIOUS
  <2>1. R.thread["chain"] = S.thread["chain"] /\ R.events = S.events
    BY <1>1 DEF Path, Books, Out!Threads
  <2> QED
    BY <2>1 DEF Base, Path, ChainAt, Finalizing
<1> QED
  BY <1>1, <1>2, <1>3, <1>4 DEF Base, Books

LEMMA PathGiven ==
  ASSUME NEW S, NEW R, NEW t, Attempted(S, t), Path(S, R, t)
  PROVE  Attempted(R, t)
<1>1. Opened(R) = Opened(S) /\ \A q : LastText(R, q) = LastText(S, q)
  BY BooksTexts DEF Path
<1>2. \A x : Tried(S, x) => Tried(R, x)
  BY DEF Path, Books, Tried
<1> QED
  BY <1>1, <1>2 DEF Attempted, Path, Books, Flags

(* It waits: for frames, for the end of a stream, for a plain message.     *)
LEMMA RestKeeps ==
  ASSUME NEW S, NEW R, NEW t \in Out!Threads, Base(S, t), Path(S, R, t), AtRest(S, R, t),
         t = "chain" => \A q \in Opened(S) :
           S.answer[q] # 0 => Delivering(R, LastText(S, q))
  PROVE  KeptInv(R)
<1>1. Base(R, t)
  BY PathBase
<1>2. Opened(R) = Opened(S) /\ (\A q : LastText(R, q) = LastText(S, q)) /\ R.answer = S.answer
  BY BooksTexts DEF Path, Books
<1>3. CASE t = "chain"
  <2>1. Finalizing(R) /\ R.thread["chain"].at \notin {"none", "open"}
    BY <1>3 DEF AtRest, Finalizing
  <2>2. OwnFlags(R)
    BY <1>2, <1>3, <2>1 DEF OwnFlags, AtRest
  <2>3. ChainAt(R)
    BY <1>1, <1>3, <2>1 DEF ChainAt, Base
  <2> QED
    BY <1>1, <2>2, <2>3 DEF KeptInv, Base
<1>4. CASE t = "tail"
  <2>1. Opened(R) = {}
    BY <1>1, <1>4 DEF Base, Ledger, TailFirst, Opened
  <2> QED
    BY <1>1, <1>4, <2>1 DEF KeptInv, Base, OwnFlags
<1> QED
  BY <1>3, <1>4 DEF Out!Threads

LEMMA WaitingKeeps ==
  ASSUME NEW S, NEW R, NEW t \in Out!Threads, Base(S, t), Attempted(S, t), Path(S, R, t),
         AtRest(S, R, t)
  PROVE  KeptInv(R)
<1>1. Attempted(R, t)
  BY PathGiven
<1>2. Opened(R) = Opened(S) /\ (\A q : LastText(R, q) = LastText(S, q)) /\ R.answer = S.answer
  BY BooksTexts DEF Path, Books
<1>3. ASSUME t = "chain", NEW q \in Opened(S), S.answer[q] # 0
      PROVE  Delivering(R, LastText(S, q))
  <2>1. Finalizing(R)
    BY <1>3 DEF AtRest, Finalizing
  <2>2. R.stateSeq = R.seq /\ Tried(R, LastText(S, q)) /\ Tried(S, LastText(S, q))
    BY <1>1, <1>2, <1>3 DEF Attempted
  <2>3. InChat(S, LastText(S, q)) => InChat(R, LastText(S, q))
    BY DEF Path, Books
  <2> QED
    BY <1>3, <2>1, <2>2, <2>3 DEF Delivering, AtRest, Tried
<1> QED
  BY <1>3, RestKeeps

LEMMA PopQueue ==
  ASSUME NEW S, NEW R, S.events \in Seq(OutputRecords), S.events # <<>>,
         QueueInv(S), Answers(S), FollowTypes(S),
         R.events = Tail(S.events), R.query = S.query, R.working = S.working,
         R.alive = S.alive, R.answer = S.answer,
         \/ R.over = S.over
         \/ ~IsOutput(Head(S.events)) /\ R.over = S.over \cup {Head(S.events).query}
  PROVE  QueueInv(R) /\ Answers(R)
<1> DEFINE es == S.events
<1>1. /\ \A i \in DOMAIN Tail(es) : i \in Nat /\ i + 1 \in DOMAIN es /\ Tail(es)[i] = es[i + 1]
      /\ \A j \in DOMAIN es : j \in Nat /\ (j >= 2 => j - 1 \in DOMAIN Tail(es))
      /\ 1 \in DOMAIN es /\ Head(es) = es[1]
      /\ \A i \in DOMAIN Tail(es) : 1 < i + 1
  BY TailFacts
<1> HIDE DEF es
<1>2. \A i \in DOMAIN R.events : R.events[i] = es[i + 1] /\ i + 1 \in DOMAIN es
  BY <1>1 DEF es
<1>3. QueueInv(R)
  <2>1. R.over \subseteq 1..R.query
    BY <1>1 DEF QueueInv, es
  <2>2. \A i \in DOMAIN R.events : R.events[i].query \in (1..R.query) \ R.over
    <3>1. ~IsOutput(es[1]) => \A i \in DOMAIN R.events : es[i + 1].query # es[1].query
      BY <1>1, <1>2 DEF QueueInv, es
    <3>2. \A i \in DOMAIN R.events : es[i + 1].query \in (1..S.query) \ S.over
      BY <1>2 DEF QueueInv, es
    <3>3. \/ R.over = S.over
          \/ ~IsOutput(es[1]) /\ R.over = S.over \cup {es[1].query}
      BY <1>1 DEF es
    <3> QED
      BY <1>2, <3>1, <3>2, <3>3
  <2>3. \A i, j \in DOMAIN R.events : i < j /\ ~IsOutput(R.events[i]) =>
          R.events[j].query # R.events[i].query
    <3>1. \A i, j \in DOMAIN R.events : i < j => i + 1 < j + 1
      BY <1>1 DEF es
    <3> QED
      BY <1>2, <3>1 DEF QueueInv, es
  <2>4. R.working =>
       /\ R.query \notin R.over
       /\ \A i \in DOMAIN R.events : ~IsOutput(R.events[i]) => R.events[i].query # R.query
    BY <1>1, <1>2 DEF QueueInv, es
  <2>5. \A i \in DOMAIN R.events : R.events[i].kind = "error" => ~R.alive
    BY <1>2 DEF QueueInv, es
  <2> QED
    BY <2>1, <2>2, <2>3, <2>4, <2>5 DEF QueueInv
<1>4. ASSUME NEW i \in DOMAIN R.events, R.events[i].kind = "final"
      PROVE  \E j \in DOMAIN R.events :
               j >= i /\ DueAt(R.events, j, LastText(R, R.events[i].query))
  <2>1. PICK j \in DOMAIN es : j >= i + 1 /\ DueAt(es, j, LastText(S, es[i + 1].query))
    BY <1>2, <1>4 DEF Answers, es
  <2>2. i \in Nat /\ j \in Nat
    BY <1>1 DEF es
  <2>3. j - 1 \in DOMAIN R.events /\ j - 1 >= i /\ j - 1 + 1 = j
    BY <1>1, <2>1, <2>2 DEF es
  <2>4. R.events[j - 1] = es[j]
    BY <1>2, <2>3
  <2> QED
    BY <1>2, <2>1, <2>3, <2>4 DEF DueAt, LastText
<1> QED
  BY <1>3, <1>4 DEF Answers

LEMMA TailReturns ==
  ASSUME NEW V, Judged(V, "tail")
  PROVE  KeptInv(Out!Return(V, "tail"))
<1> DEFINE R == Out!Return(V, "tail")
<1>1. /\ FollowShape(R) /\ R.chat = V.chat /\ R.thread["chain"] = V.thread["chain"]
  BY DEF Judged, Out!Return, Out!Wait, FollowShape, OutShape, OutFields, FollowFields,
         ThreadFields, Out!Threads
<1>2. /\ R.cursor = V.cursor /\ R.turnCursor = V.turnCursor /\ R.seq = V.seq
      /\ R.query = V.query /\ R.turnText = V.turnText /\ R.inbox = V.inbox
      /\ R.asked = V.asked /\ R.answer = V.answer /\ R.over = V.over /\ R.mixed = V.mixed
      /\ R.events = V.events /\ R.working = V.working /\ R.alive = V.alive
      /\ R.resolved = V.resolved
      /\ R.stateSeq = V.stateSeq /\ R.seen = V.seen /\ R.boundary = V.boundary
      /\ R.hadError = V.hadError /\ R.handled = V.handled
      /\ R.delivered = V.delivered /\ R.sent = V.sent /\ R.attempted = V.attempted
      /\ R.handle = V.handle /\ R.streams = V.streams
  BY DEF Judged, Out!Return, Out!Wait, FollowShape, FollowFields, OutFields
<1> HIDE DEF R
<1>3. FollowTypes(R) /\ RollsBack(R) /\ FirstTurn(R)
  BY <1>2 DEF Judged, FollowTypes, RollsBack, FirstTurn, Clean
<1>4. QueueInv(R) /\ Answers(R)
  BY <1>2 DEF Judged, QueueInv, Answers, LastText
<1>5. /\ Clean(R) = {}
      /\ R.inbox # {} => R.query + 1 \notin (1..MaxQueries) \ R.mixed
  BY <1>2 DEF Judged, TailFirst, Clean
<1>6. Ledger(R)
  BY <1>3, <1>4, <1>5 DEF Ledger, TailFirst, NextClean, OneOpen, OverKept, Opened
<1>7. OwnFlags(R)
  BY <1>5 DEF OwnFlags, Opened
<1>8. ChainAt(R)
  BY <1>1, <1>2 DEF Judged, ChainAt, Finalizing
<1> QED
  BY <1>1, <1>6, <1>7, <1>8 DEF KeptInv, R

(* The query of the head is over, and the last that was clean with it.     *)
LEMMA ChainReturns ==
  ASSUME NEW V, Judged(V, "chain")
  PROVE  KeptInv(Out!Return(V, "chain"))
<1> DEFINE o == Head(V.events)
           R == Out!Return(V, "chain")
<1>1. /\ FollowShape(R) /\ R.chat = V.chat /\ R.thread["tail"] = V.thread["tail"]
      /\ R.thread["chain"].at = "none"
  BY DEF Judged, Out!Return, Out!Rest, Out!Resting, FollowShape, OutShape, OutFields,
         FollowFields, ThreadFields, Out!Threads
<1>2. /\ R.cursor = V.cursor /\ R.turnCursor = V.turnCursor /\ R.seq = V.seq
      /\ R.query = V.query /\ R.turnText = V.turnText /\ R.inbox = V.inbox
      /\ R.asked = V.asked /\ R.answer = V.answer /\ R.mixed = V.mixed
      /\ R.working = V.working /\ R.alive = V.alive
      /\ R.resolved = V.resolved
      /\ R.stateSeq = V.stateSeq /\ R.seen = V.seen /\ R.handled = V.handled
      /\ R.delivered = V.delivered /\ R.sent = V.sent /\ R.attempted = V.attempted
      /\ R.handle = V.handle /\ R.streams = V.streams
      /\ R.over = V.over \cup {o.query} /\ R.events = Tail(V.events)
      /\ R.boundary = TRUE /\ R.hadError = (V.hadError \/ o.kind = "error")
  BY DEF Judged, Out!Return, Out!Rest, FollowShape, FollowFields, OutFields
<1>3. /\ V.events \in Seq(OutputRecords) /\ V.events # <<>> /\ ~IsOutput(o)
      /\ 1 \in DOMAIN V.events /\ o = V.events[1]
  BY TailFacts DEF Judged
<1>4. /\ o.query \in (1..V.query) \ V.over
      /\ o.kind = "error" => ~V.alive
  BY <1>3 DEF Judged, QueueInv
<1>5. QueueInv(R) /\ Answers(R)
  BY <1>2, <1>3, PopQueue DEF Judged
<1> HIDE DEF R, o
<1>6. FollowTypes(R) /\ RollsBack(R)
  BY <1>2 DEF Judged, FollowTypes, RollsBack, Clean
<1>7. FirstTurn(R)
  <2>1. R.seq = 1 => R.query = 1 /\ R.seen = 1 /\ R.inbox = {} /\ 1 \in R.over
    BY <1>2, <1>4 DEF Judged, FirstTurn
  <2>2. R.alive /\ R.hadError => R.stateSeq = 1
    BY <1>2, <1>4 DEF Judged, FirstTurn
  <2> QED
    BY <1>2, <2>1, <2>2 DEF Judged, FirstTurn
<1>8. Clean(R) = Clean(V) /\ Opened(R) = {}
  BY <1>2 DEF Judged, Clean, Opened, o
<1>9. TailFirst(R)
  BY <1>1, <1>2, <1>8 DEF Judged, TailFirst
<1>10. NextClean(R)
  BY <1>2, <1>4 DEF Judged, Asked, NextClean, Nobody, o
<1>11. OverKept(R)
  <2> SUFFICES ASSUME NEW q \in Clean(R) \cap R.over
               PROVE  AnsweredIn(R, q) \/ KeptIn(R, q)
    BY DEF OverKept
  <2>1. AnsweredIn(V, q) \/ KeptIn(V, q)
    BY <1>2, <1>8 DEF Judged, OverKept, Opened
  <2> QED
    BY <1>1, <1>2, <2>1 DEF AnsweredIn, KeptIn, InChat, LastText
<1>12. OwnFlags(R) /\ OneOpen(R)
  BY <1>8 DEF OwnFlags, OneOpen
<1>13. ChainAt(R)
  BY <1>1, <1>2 DEF ChainAt, Judged, Finalizing
<1> QED
  BY <1>1, <1>5, <1>6, <1>7, <1>9, <1>10, <1>11, <1>12, <1>13 DEF KeptInv, Ledger, R

LEMMA AtComplete ==
  ASSUME NEW S, Base(S, "chain"), Attempted(S, "chain")
  PROVE  /\ Head(S.events).query \in (1..S.query) \ S.over
         /\ ~(S.inbox # {} /\ S.query + 1 \in (1..MaxQueries) \ S.mixed)
         /\ \A q \in Opened(S) :
              /\ q = Head(S.events).query /\ S.seq > 1
              /\ AnsweredIn(S, q) \/ Fails(S)
<1>1. Head(S.events).query \in (1..S.query) \ S.over
  BY TailFacts DEF Base, Ledger, QueueInv
<1>2. ~Nobody(S)
  BY <1>1 DEF Nobody
<1>3. ASSUME NEW q \in Opened(S)
      PROVE  q = Head(S.events).query /\ S.seq > 1 /\ (AnsweredIn(S, q) \/ Fails(S))
  <2>1. q = S.query /\ 1..(q - 1) \subseteq S.over /\ S.seq > 1
        /\ (S.stateSeq = S.seq => ~S.handled)
    BY DEF Base, Ledger, OneOpen
  <2>2. S.answer[q] = 0 \/ (S.stateSeq = S.seq /\ Tried(S, LastText(S, q)))
    BY DEF Attempted
  <2>3. q \in Nat
    BY DEF Opened, Clean, Base, Ledger, FollowTypes
  <2> QED
    BY <1>1, <2>1, <2>2, <2>3 DEF AnsweredIn, Fails, Tried
<1> QED
  BY <1>1, <1>2, <1>3 DEF Base, Ledger, NextClean

(* The user is told, or the tail will be; no message is written.           *)
LEMMA SilentJudged ==
  ASSUME NEW S, NEW V, NEW t \in Out!Threads, Base(S, t), Attempted(S, t),
         Fails(S) => S.seq = 1,
         FollowShape(V), V.thread = S.thread, V.chat = S.chat,
         V.cursor = S.cursor, V.seq = S.seq, V.stateSeq = S.stateSeq, V.seen = S.seen,
         V.query = S.query, V.inbox = S.inbox, V.asked = S.asked, V.answer = S.answer,
         V.over = S.over, V.mixed = S.mixed, V.events = S.events, V.working = S.working,
         V.alive = S.alive, V.resolved = S.resolved, V.boundary = S.boundary,
         V.sent = S.sent, V.delivered = S.delivered,
         V.handle = S.handle, V.streams = S.streams,
         V.hadError = S.hadError \/ V.stateSeq = 1,
         \/ V.turnCursor = S.turnCursor /\ V.turnText = S.turnText
         \/ V.turnCursor = -1 /\ V.turnText = {} /\ (S.sent \/ S.delivered)
  PROVE  Judged(V, t)
<1>1. Clean(V) = Clean(S) /\ Opened(V) = Opened(S)
      /\ (\A q : LastText(V, q) = LastText(S, q))
      /\ (\A q : AnsweredIn(S, q) => AnsweredIn(V, q))
      /\ (\A q : KeptIn(S, q) => KeptIn(V, q))
  BY DEF Clean, Opened, LastText, AnsweredIn, KeptIn, InChat
<1>2. FollowTypes(V) /\ QueueInv(V) /\ Answers(V)
  BY <1>1 DEF Base, Ledger, FollowTypes, QueueInv, Answers
<1>3. TailFirst(V) /\ RollsBack(V) /\ OverKept(V)
  BY <1>1 DEF Base, Ledger, TailFirst, RollsBack, OverKept
<1>4. FirstTurn(V)
  <2>1. V.stateSeq = 1 => (V.turnCursor = 0 \/ V.sent) /\ (V.delivered => V.sent)
    BY DEF Base, Ledger, FirstTurn
  <2>2. V.alive /\ V.hadError => V.stateSeq = 1
    BY DEF Base, Ledger, FirstTurn
  <2> QED
    BY <2>1, <2>2 DEF Base, Ledger, FirstTurn
<1>5. t = "chain" => /\ \A q \in Opened(V) :
                          q = Head(V.events).query /\ (AnsweredIn(V, q) \/ KeptIn(V, q))
                     /\ Asked(V, (1..V.query) \ {Head(V.events).query} \subseteq V.over)
  <2> SUFFICES ASSUME t = "chain"
               PROVE  /\ \A q \in Opened(V) :
                           q = Head(V.events).query /\ (AnsweredIn(V, q) \/ KeptIn(V, q))
                      /\ Asked(V, (1..V.query) \ {Head(V.events).query} \subseteq V.over)
    OBVIOUS
  <2>1. \A q \in Opened(S) : q = Head(S.events).query /\ AnsweredIn(S, q)
    BY AtComplete
  <2>2. ~(V.inbox # {} /\ V.query + 1 \in (1..MaxQueries) \ V.mixed)
    BY AtComplete
  <2> QED
    BY <1>1, <2>1, <2>2 DEF Asked
<1>6. t = "tail" => ChainAt(V)
  BY DEF Base, ChainAt, Finalizing
<1> QED
  BY <1>2, <1>3, <1>4, <1>5, <1>6 DEF Judged, Base

LEMMA RetryRetries ==
  ASSUME NEW S, NEW others, FollowShape(S)
  PROVE  Retries(S, Out!RetryDelivery([S EXCEPT !.handled = TRUE], others), others)
<1> DEFINE H == [S EXCEPT !.handled = TRUE]
           back == [H EXCEPT !.cursor = S.turnCursor]
           W == Out!Write(back, S.turnText, others)
           V == Out!RetryDelivery(H, others)
<1>1. /\ FollowShape(H) /\ H.thread = S.thread /\ H.cursor = S.cursor
      /\ H.turnCursor = S.turnCursor /\ H.turnText = S.turnText
  BY DEF FollowShape, OutShape, OutFields, FollowFields
<1>2. Retries(S, H, others) \/ S.turnCursor # -1
  BY DEF Retries, FollowShape, OutShape, OutFields, FollowFields
<1>3. Retries(S, back, others) \/ S.turnCursor = -1
  BY DEF Retries, FollowShape, OutShape, OutFields, FollowFields
<1>4. Retries(S, W, others) \/ S.turnCursor = -1
  <2> SUFFICES ASSUME S.turnCursor # -1 PROVE Retries(S, W, others)
    OBVIOUS
  <2>1. /\ FollowShape(back) /\ back.seq = S.seq /\ back.query = S.query
        /\ back.inbox = S.inbox /\ back.mixed = S.mixed /\ back.thread = S.thread
        /\ back.turnText = S.turnText
    BY DEF FollowShape, OutShape, OutFields, FollowFields
  <2>2. Retries(S, back, others)
    BY <1>3
  <2> HIDE DEF back
  <2>3. /\ FollowShape(W) /\ W.thread = back.thread /\ W.chat = back.chat
        /\ W.cursor = back.cursor /\ W.turnCursor = back.turnCursor
        /\ W.turnText = back.turnText \cup S.turnText
        /\ W.stateSeq = back.stateSeq /\ W.seen = back.seen /\ W.query = back.query
        /\ W.asked = back.asked /\ W.answer = back.answer /\ W.over = back.over
        /\ W.events = back.events
        /\ W.working = back.working /\ W.alive = back.alive /\ W.resolved = back.resolved
        /\ W.boundary = back.boundary /\ W.hadError = back.hadError
        /\ W.sent = back.sent /\ W.delivered = back.delivered
        /\ W.handle = back.handle /\ W.streams = back.streams
    BY <2>1 DEF Out!Write, FollowShape, OutShape, OutFields, FollowFields
  <2>4. /\ W.inbox = back.inbox \cup S.turnText /\ W.seq = back.seq + 1
        /\ W.mixed = IF others = {} /\ back.thread["tail"].at = "over" THEN back.mixed
                     ELSE back.mixed \cup others \cup ({back.query + 1} \cap 1..MaxQueries)
    BY <2>1 DEF Out!Write, FollowShape, OutShape, OutFields, FollowFields, Out!Queries
  <2> HIDE DEF W
  <2> QED
    BY <2>1, <2>2, <2>3, <2>4 DEF Retries
<1>5. \/ V = H /\ S.turnCursor = -1
      \/ V = back /\ S.turnCursor # -1
      \/ V = W /\ S.turnCursor # -1
  <2> HIDE DEF W
  <2> QED
    BY <1>1 DEF Out!RetryDelivery, Out!Null, W
<1> HIDE DEF back, W, H
<1> QED
  BY <1>2, <1>3, <1>4, <1>5 DEF H

LEMMA RetryJudged ==
  ASSUME NEW S, NEW V, NEW t \in Out!Threads, Base(S, t), Attempted(S, t), S.seq > 1,
         Retries(S, V, Out!Unhandled(S) \
                         (IF t = "chain" THEN {Head(S.events).query} ELSE {}))
  PROVE  Judged(V, t)
<1> DEFINE others == Out!Unhandled(S) \
                       (IF t = "chain" THEN {Head(S.events).query} ELSE {})
           Written == /\ S.turnCursor # -1
                      /\ V.inbox = S.inbox \cup S.turnText /\ V.seq = S.seq + 1
                      /\ V.mixed = IF others = {} /\ S.thread["tail"].at = "over" THEN S.mixed
                                   ELSE S.mixed \cup others \cup ({S.query + 1} \cap 1..MaxQueries)
<1>1. Written \/ (V.inbox = S.inbox /\ V.seq = S.seq /\ V.mixed = S.mixed)
  BY DEF Retries
<1>2. FollowTypes(S) /\ S.seq \in Nat /\ S.stateSeq \in Nat /\ S.stateSeq <= S.seq
  BY DEF Base, Ledger, FollowTypes
<1>3. /\ V.query = S.query /\ V.over = S.over
      /\ Clean(V) \subseteq Clean(S) /\ Opened(V) \subseteq Opened(S)
      /\ \A q : LastText(V, q) = LastText(S, q)
  BY <1>1 DEF Retries, Clean, Opened, LastText
<1>4. FollowTypes(V)
  BY <1>1, <1>2 DEF Retries, FollowTypes
<1>5. QueueInv(V) /\ Answers(V)
  BY <1>3 DEF Base, Ledger, QueueInv, Answers, Retries
<1>6. TailFirst(V)
  BY <1>1, <1>3 DEF Base, Ledger, TailFirst, Retries
<1>7. RollsBack(V)
  BY <1>2, <1>3 DEF Base, Ledger, RollsBack, FollowTypes, Retries
<1>8. FirstTurn(V)
  BY <1>1, <1>2 DEF Base, Ledger, FirstTurn, Retries
<1>9. OverKept(V)
  <2> SUFFICES ASSUME NEW q \in Clean(V) \cap V.over
               PROVE  AnsweredIn(V, q) \/ KeptIn(V, q)
    BY DEF OverKept
  <2>1. q \in Clean(S) /\ (AnsweredIn(S, q) \/ KeptIn(S, q))
    BY <1>3 DEF Base, Ledger, OverKept
  <2>2. AnsweredIn(S, q) => AnsweredIn(V, q)
    BY <1>3 DEF AnsweredIn, InChat, Retries
  <2>3. V.cursor <= S.cursor /\ V.cursor \in Nat
    BY <1>2, <2>1 DEF Base, Ledger, RollsBack, FollowTypes, Retries
  <2>4. S.inbox \subseteq V.inbox /\ V.asked = S.asked
    BY <1>1 DEF Retries
  <2>5. q \in 1..MaxQueries
    BY <1>2, <2>1, OutputAssumption DEF Clean, FollowTypes
  <2>6. KeptIn(S, q) => KeptIn(V, q)
    BY <1>2, <2>3, <2>4, <2>5 DEF KeptIn, FollowTypes
  <2> QED
    BY <2>1, <2>2, <2>6
<1>10. ASSUME t = "chain", NEW q \in Opened(V)
       PROVE  q = Head(V.events).query /\ KeptIn(V, q)
  <2>1. q \in Opened(S) /\ q = Head(S.events).query
    BY <1>3, <1>10, AtComplete
  <2>2. S.turnCursor # -1 /\ S.asked[q] \subseteq S.turnText
        /\ q \in Clean(S)
    BY <2>1 DEF Base, Ledger, OneOpen, Opened
  <2>3. \A m \in S.turnText : m > S.turnCursor
    BY <2>2 DEF Base, Ledger, RollsBack
  <2> QED
    BY <2>1, <2>2, <2>3 DEF KeptIn, Retries
<1>11. ASSUME t = "chain"
       PROVE  Asked(V, (1..V.query) \ {Head(V.events).query} \subseteq V.over)
  <2>1. ~(S.inbox # {} /\ S.query + 1 \in (1..MaxQueries) \ S.mixed)
    BY <1>11, AtComplete
  <2> SUFFICES ASSUME V.inbox # {}, V.query + 1 \in (1..MaxQueries) \ V.mixed
               PROVE  /\ (1..V.query) \ {Head(V.events).query} \subseteq V.over
                      /\ V.inbox \subseteq V.turnText
                      /\ V.turnCursor # -1 /\ V.stateSeq < V.seq
    BY DEF Asked
  <2>2. Written
    BY <1>1, <1>3, <2>1
  <2>3. others = {} /\ V.mixed = S.mixed
    BY <1>3, <2>2
  <2>4. (1..V.query) \ {Head(V.events).query} \subseteq V.over
    BY <1>3, <1>11, <2>3 DEF Out!Unhandled, Retries
  <2>5. S.inbox = {}
    BY <1>3, <2>1, <2>3
  <2> QED
    BY <1>2, <2>2, <2>4, <2>5 DEF Retries
<1>12. t = "tail" => V.thread["tail"].at # "over" /\ ChainAt(V)
  BY DEF Base, ChainAt, Finalizing, Retries
<1> QED
  BY <1>4, <1>5, <1>6, <1>7, <1>8, <1>9, <1>10, <1>11, <1>12 DEF Judged, Base, Retries

LEMMA ReturnedKeeps ==
  ASSUME NEW V, NEW t \in Out!Threads, Judged(V, t)
  PROVE  KeptInv(Out!Return(V, t))
  BY TailReturns, ChainReturns DEF Out!Threads

LEMMA VerdictKeeps ==
  ASSUME NEW S, NEW t \in Out!Threads, Base(S, t), Attempted(S, t)
  PROVE  KeptInv(Out!Verdict(S, t))
<1> DEFINE others == Out!Unhandled(S) \
                       (IF t = "chain" THEN {Head(S.events).query} ELSE {})
           Retried == Out!RetryDelivery([S EXCEPT !.handled = TRUE], others)
           Error == [S EXCEPT !.handled = TRUE, !.hadError = TRUE]
           Told == Out!NotifyUserDelivery(S)
<1>1. FollowShape(S) /\ S.seq \in Nat /\ S.stateSeq \in Nat
      /\ S.stateSeq >= 1 /\ S.stateSeq <= S.seq
  BY DEF Base, Ledger, FollowTypes
<1>2. S.seq > 1 => Judged(Retried, t)
  BY <1>1, RetryRetries, RetryJudged
<1>3. ~(S.seq > 1) => Judged(Error, t)
  <2> SUFFICES ASSUME ~(S.seq > 1) PROVE Judged(Error, t)
    OBVIOUS
  <2>1. S.seq = 1 /\ S.stateSeq = 1
    BY <1>1
  <2>2. /\ FollowShape(Error) /\ Error.thread = S.thread /\ Error.chat = S.chat
        /\ Error.cursor = S.cursor /\ Error.seq = S.seq /\ Error.stateSeq = S.stateSeq
        /\ Error.seen = S.seen /\ Error.query = S.query /\ Error.inbox = S.inbox
        /\ Error.asked = S.asked /\ Error.answer = S.answer /\ Error.over = S.over
        /\ Error.mixed = S.mixed /\ Error.events = S.events /\ Error.working = S.working
        /\ Error.alive = S.alive /\ Error.resolved = S.resolved
        /\ Error.boundary = S.boundary /\ Error.sent = S.sent
        /\ Error.delivered = S.delivered
        /\ Error.handle = S.handle /\ Error.streams = S.streams
        /\ Error.turnCursor = S.turnCursor /\ Error.turnText = S.turnText
    BY <1>1 DEF FollowShape, OutShape, OutFields, FollowFields
  <2> HIDE DEF Error
  <2> QED
    BY <2>1, <2>2, SilentJudged
<1>4. ~Fails(S) => Judged(S, t)
  BY <1>1, SilentJudged
<1>5. ~Fails(S) /\ (S.sent \/ S.delivered) => Judged(Told, t)
  <2> SUFFICES ASSUME ~Fails(S), S.sent \/ S.delivered PROVE Judged(Told, t)
    OBVIOUS
  <2>1. /\ FollowShape(Told) /\ Told.thread = S.thread /\ Told.chat = S.chat
        /\ Told.cursor = S.cursor /\ Told.seq = S.seq /\ Told.stateSeq = S.stateSeq
        /\ Told.seen = S.seen /\ Told.query = S.query /\ Told.inbox = S.inbox
        /\ Told.asked = S.asked /\ Told.answer = S.answer /\ Told.over = S.over
        /\ Told.mixed = S.mixed /\ Told.events = S.events /\ Told.working = S.working
        /\ Told.alive = S.alive /\ Told.resolved = S.resolved
        /\ Told.boundary = S.boundary /\ Told.sent = S.sent
        /\ Told.delivered = S.delivered /\ Told.hadError = S.hadError
        /\ Told.handle = S.handle /\ Told.streams = S.streams
        /\ Told.turnCursor = -1 /\ Told.turnText = {}
    BY <1>1 DEF Out!NotifyUserDelivery, Out!Null, FollowShape, OutShape, OutFields,
                FollowFields
  <2> HIDE DEF Told
  <2> QED
    BY <2>1, SilentJudged
<1>6. \/ Out!Verdict(S, t) = Out!Return(Retried, t) /\ S.seq > 1
      \/ Out!Verdict(S, t) = Out!Return(Error, t) /\ ~(S.seq > 1)
      \/ /\ Out!Verdict(S, t) = Out!Return(Told, t)
         /\ ~Fails(S) /\ (S.sent \/ S.delivered)
      \/ Out!Verdict(S, t) = Out!Return(S, t) /\ ~Fails(S)
  BY DEF Out!Verdict, Fails
<1> HIDE DEF Retried, Error, Told
<1> QED
  BY <1>2, <1>3, <1>4, <1>5, <1>6, ReturnedKeeps

LEMMA StopsKeep ==
  ASSUME NEW S, NEW R, NEW t \in Out!Threads, Base(S, t), Attempted(S, t), Stops(S, R, t)
  PROVE  KeptInv(R)
<1>1. PICK M : Path(S, M, t) /\ (R = Out!Verdict(M, t) \/ (R = M /\ AtRest(S, M, t)))
  BY DEF Stops
<1>2. Base(M, t) /\ Attempted(M, t)
  BY <1>1, PathBase, PathGiven
<1> QED
  BY <1>1, <1>2, VerdictKeeps, WaitingKeeps

(* What a step of t starts from.                                           *)
LEMMA BaseMoves ==
  ASSUME NEW S, NEW t \in Out!Threads, Base(S, t)
  PROVE  Moves(S, t)
  BY DEF Base, Moves

LEMMA TailBase ==
  ASSUME NEW S, KeptInv(S), OutInv(S), S.thread["tail"].at # "over"
  PROVE  Base(S, "tail") /\ Attempted(S, "tail")
  BY DEF Base, Attempted, KeptInv, OutInv, OutTypes

(* The chain in the midst of a query-complete.                             *)
LEMMA ChainBase ==
  ASSUME NEW S, KeptInv(S), OutInv(S), Finalizing(S)
  PROVE  /\ Base(S, "chain")
         /\ S.thread["chain"].at # "plain" => Attempted(S, "chain")
         /\ \A q \in Opened(S) : S.answer[q] # 0 =>
              /\ S.stateSeq = S.seq
              /\ S.thread["chain"].at = "plain" =>
                   /\ S.attempted /\ ~S.delivered
                   /\ \/ InChat(S, LastText(S, q))
                      \/ LastText(S, q) \in S.thread["chain"].texts
<1>1. S.thread["chain"].at # "none"
  BY DEF Finalizing
<1>2. Base(S, "chain")
  BY <1>1 DEF Base, KeptInv, ChainAt, OutInv, OutTypes
<1>3. \A q \in Opened(S) : S.answer[q] # 0 => Delivering(S, LastText(S, q))
  BY DEF KeptInv, OwnFlags
<1> QED
  BY <1>1, <1>2, <1>3 DEF KeptInv, OwnFlags, Delivering, Attempted

(* The query-complete is handled: what is due or buffered is sent.         *)
LEMMA CompleteSaved ==
  ASSUME NEW S, KeptInv(S), OutInv(S), S.events # <<>>, S.thread["chain"].at = "none",
         ~IsOutput(Head(S.events))
  PROVE  /\ Base(S, "chain")
         /\ \A q \in Opened(S) : S.answer[q] # 0 =>
              /\ S.stateSeq = S.seq /\ ~S.attempted /\ ~S.delivered
              /\ Saved(S, LastText(S, q))
<1>1. Base(S, "chain")
  BY DEF Base, KeptInv, ChainAt, OutInv, OutTypes
<1>2. ~Finalizing(S) /\ Left(S, "none") = S.events
  BY DEF Finalizing, Left
<1>3. ASSUME NEW q \in Opened(S), S.answer[q] # 0
      PROVE  ~Due(S.events, LastText(S, q))
  <2> SUFFICES ASSUME NEW i \in DOMAIN S.events, DueAt(S.events, i, LastText(S, q))
               PROVE  FALSE
    BY DEF Due
  <2>1. 1 \in DOMAIN S.events /\ Head(S.events) = S.events[1] /\ i \in Nat /\ i >= 1
    BY <1>1, TailFacts DEF Base
  <2>2. S.events[i].query = q /\ IsOutput(S.events[i])
    BY DEF DueAt, LastText, Out!TextOf, IsOutput
  <2>3. q = S.query /\ 1..(q - 1) \subseteq S.over /\ q \in Nat
    BY <1>1, <1>3 DEF Base, Ledger, OneOpen, FollowTypes
  <2>4. S.events[1].query \in (1..S.query) \ S.over
    BY <1>1, <2>1 DEF Base, Ledger, QueueInv
  <2>5. S.events[1].query = q
    BY <2>3, <2>4
  <2>6. i # 1
    BY <2>1, <2>2
  <2> QED
    BY <1>1, <2>1, <2>2, <2>5, <2>6 DEF Base, Ledger, QueueInv
<1>4. \A q \in Opened(S) : S.answer[q] # 0 =>
        /\ S.stateSeq = S.seq
        /\ Saved(S, LastText(S, q))
  BY <1>2, <1>3 DEF KeptInv, OwnFlags, Delivering
<1> QED
  BY <1>1, <1>2, <1>4 DEF KeptInv, OwnFlags

LEMMA CompleteKeeps ==
  ASSUME NEW S, KeptInv(S), OutInv(S), S.events # <<>>, S.thread["chain"].at = "none",
         ~IsOutput(Head(S.events))
  PROVE  KeptInv(Out!Finalize(S, "chain"))
<1> DEFINE R == Out!Finalize(S, "chain")
<1>1. "chain" \in Out!Threads
  BY DEF Out!Threads
<1>2. Base(S, "chain") /\ Moves(S, "chain")
  BY <1>1, CompleteSaved, BaseMoves
<1>3. CASE Attempted(S, "chain")
  BY <1>1, <1>2, <1>3, FinalizeStops, StopsKeep
<1>4. CASE ~Attempted(S, "chain")
  <2>1. PICK q \in Opened(S) : S.answer[q] # 0 /\ ~Tried(S, LastText(S, q))
    BY <1>4, CompleteSaved DEF Attempted
  <2> DEFINE x == LastText(S, q)
  <2>2. /\ ~InChat(S, x) /\ ~S.attempted /\ ~S.delivered /\ S.stateSeq = S.seq
        /\ (S.armed /\ x \in S.buffer) \/ InFailure(S, x)
    BY <2>1, CompleteSaved DEF Tried, Saved
  <2>3. \E what, stage : /\ R = Out!SendPlain(S, "chain", what, stage)
                         /\ Out!MaySendPlain(S, what) /\ x \in what
    <3> HIDE DEF x
    <3>1. CASE S.armed /\ x \in S.buffer
      BY <2>2, <3>1 DEF Out!Finalize, Out!MaySendPlain
    <3>2. CASE InFailure(S, x)
      <4>1. R = Out!FailureFallback(S, "chain") \/ (S.armed /\ S.buffer # {})
        BY DEF Out!Finalize
      <4>2. S.failed /\ S.failure = {x} /\ ~(S.armed /\ S.buffer # {})
        BY <3>2 DEF InFailure
      <4> QED
        BY <2>2, <4>1, <4>2 DEF Out!FailureFallback, Out!MaySendPlain
    <3> QED
      BY <2>2, <3>1, <3>2
  <2>4. PICK what, stage : /\ R = Out!SendPlain(S, "chain", what, stage)
                           /\ Out!MaySendPlain(S, what) /\ x \in what
    BY <2>3
  <2> HIDE DEF R
  <2>5. /\ Path(S, R, "chain") /\ R.thread["chain"].at = "plain"
        /\ R.thread["chain"].texts = what /\ R.attempted /\ ~R.delivered
    BY <1>2, <2>4, SendPlainStops
  <2>6. AtRest(S, R, "chain")
    BY <2>2, <2>5 DEF AtRest
  <2>7. \A p \in Opened(S) : p = q
    BY <1>2 DEF Base, Ledger, OneOpen
  <2>8. Delivering(R, x)
    BY <2>2, <2>4, <2>5 DEF Delivering, Finalizing, Path, Books, Flags
  <2> QED
    BY <1>1, <1>2, <2>5, <2>6, <2>7, <2>8, RestKeeps DEF R
<1> QED
  BY <1>3, <1>4

LEMMA OnwardsBase ==
  ASSUME NEW S, NEW D, NEW t \in Out!Threads, Base(S, t), Onwards(S, D)
  PROVE  Base(D, t)
<1>1. Ledger(D)
  BY FlagsFirst, BooksKeep DEF Base, Flags, Onwards
<1>2. t = "tail" => ChainAt(D)
  BY DEF Base, Onwards, Books, ChainAt, Finalizing
<1> QED
  BY <1>1, <1>2 DEF Base, Onwards, Books

LEMMA ShowsOnwards ==
  ASSUME NEW S, NEW what \in SUBSET TextRecords, OutInv(S), FollowShape(S)
  PROVE  LET D == Out!Show(S, what) IN
         /\ Onwards(S, D)
         /\ D.attempted = S.attempted /\ D.delivered = S.delivered /\ D.sent = S.sent
         /\ \A x \in what : InChat(D, x)
<1> DEFINE D == Out!Show(S, what)
<1>1. /\ S.chat \in Seq(SUBSET TextRecords) /\ D.chat = Append(S.chat, what)
      /\ FollowShape(D) /\ D.thread = S.thread
  BY DEF OutInv, OutTypes, Out!Show, FollowShape, OutShape, OutFields, FollowFields
<1>2. /\ D.cursor = S.cursor /\ D.turnCursor = S.turnCursor /\ D.seq = S.seq
      /\ D.query = S.query /\ D.turnText = S.turnText /\ D.inbox = S.inbox
      /\ D.asked = S.asked /\ D.answer = S.answer /\ D.over = S.over /\ D.mixed = S.mixed
      /\ D.events = S.events /\ D.working = S.working /\ D.alive = S.alive
      /\ D.resolved = S.resolved /\ D.channel = S.channel
      /\ D.stateSeq = S.stateSeq /\ D.seen = S.seen /\ D.boundary = S.boundary
      /\ D.hadError = S.hadError /\ D.handled = S.handled
      /\ D.delivered = S.delivered /\ D.sent = S.sent /\ D.attempted = S.attempted
      /\ D.handle = S.handle /\ D.streams = S.streams
  BY DEF Out!Show, FollowShape, OutFields, FollowFields
<1>3. /\ \A b \in DOMAIN S.chat : b \in DOMAIN D.chat /\ D.chat[b] = S.chat[b]
      /\ Len(S.chat) + 1 \in DOMAIN D.chat /\ D.chat[Len(S.chat) + 1] = what
  BY <1>1, AppendFacts
<1> HIDE DEF D
<1>4. (\A x : InChat(S, x) => InChat(D, x)) /\ (\A x \in what : InChat(D, x))
  BY <1>3 DEF InChat
<1> QED
  BY <1>1, <1>2, <1>4 DEF Onwards, Books, Flags, D

LEMMA FaultOnwards ==
  ASSUME NEW S, OutInv(S), FollowShape(S)
  PROVE  LET D == Out!Fault(S) IN
         /\ Onwards(S, D) /\ D.chat = S.chat
         /\ D.attempted = S.attempted /\ D.delivered = S.delivered
  BY DEF Onwards, Books, Flags, InChat, Out!Fault, FollowShape, OutShape, OutFields,
         FollowFields

LEMMA OnwardsTwice ==
  ASSUME NEW S, NEW M, NEW D, Onwards(S, M), Onwards(M, D)
  PROVE  Onwards(S, D)
<1>1. Books(S, D)
  BY DEF Onwards, Books
<1> QED
  BY <1>1 DEF Onwards, Flags

LEMMA OnwardsGiven ==
  ASSUME NEW S, NEW D, NEW t, Attempted(S, t), Onwards(S, D), D.delivered = S.delivered
  PROVE  Attempted(D, t)
<1>1. Opened(D) = Opened(S) /\ \A q : LastText(D, q) = LastText(S, q)
  BY BooksTexts DEF Onwards
<1>2. \A x : Tried(S, x) => Tried(D, x)
  BY DEF Onwards, Books, Tried
<1> QED
  BY <1>1, <1>2 DEF Attempted, Onwards, Books, Flags

LEMMA PlainSentKeeps ==
  ASSUME NEW t \in Out!Threads, KeptInv(output), OutInv(output), Out!PlainSent(t)
  PROVE  KeptInv(output')
<1> DEFINE S == output
           c == S.thread[t]
<1>1. c.at = "plain" /\ c.texts \in SUBSET TextRecords
      /\ c.stage \in {"coalesced", "failure", "partial", "unfinished"}
  BY DEF Out!PlainSent, OutInv, Waits
<1>2. FollowShape(S)
  BY DEF KeptInv
<1>3. Base(S, t)
  <2>1. t = "chain" => Finalizing(S)
    BY <1>1 DEF Finalizing
  <2>2. t = "tail" => S.thread["tail"].at # "over"
    BY <1>1
  <2> QED
    BY <2>1, <2>2, TailBase, ChainBase DEF Out!Threads
<1>4. t = "chain" => \A q \in Opened(S) : S.answer[q] # 0 =>
        /\ S.stateSeq = S.seq /\ S.attempted /\ ~S.delivered
        /\ InChat(S, LastText(S, q)) \/ LastText(S, q) \in c.texts
  BY <1>1, ChainBase DEF Finalizing
<1>5. \E D, landed :
        /\ Onwards(S, D)
        /\ \/ \A x \in c.texts : InChat(D, x)
           \/ (S.attempted /\ ~S.delivered => D.attempted /\ ~D.delivered)
        /\ output' \in {Out!AfterCoalesced(D, t, landed), Out!AfterFailure(D, t, landed),
                        Out!AfterPartial(D, t, landed), Out!AfterUnfinished(D, t, landed)}
  <2> DEFINE shown == Out!Show(S, c.texts)
             D == [shown EXCEPT !.last = Len(S.chat) + 1, !.delivered = TRUE, !.sent = TRUE]
             f == Out!Fault(S)
             Tells(N, landed) ==
               output' \in {Out!AfterCoalesced(N, t, landed), Out!AfterFailure(N, t, landed),
                            Out!AfterPartial(N, t, landed), Out!AfterUnfinished(N, t, landed)}
  <2>1. /\ Onwards(S, shown) /\ (\A x \in c.texts : InChat(shown, x))
        /\ FollowShape(shown)
    BY <1>1, <1>2, ShowsOnwards DEF Onwards, Books
  <2>2. Tells(D, TRUE) \/ Tells(f, FALSE)
    <3> HIDE DEF D, f
    <3> QED
      BY <1>1 DEF Out!PlainSent, D, f
  <2> HIDE DEF shown
  <2>3. /\ Onwards(shown, D) /\ D.chat = shown.chat
    BY <2>1 DEF Onwards, Books, Flags, InChat, FollowShape, OutShape, OutFields, FollowFields
  <2>4. Onwards(S, f) /\ f.attempted = S.attempted /\ f.delivered = S.delivered
    BY <1>2, FaultOnwards
  <2> HIDE DEF D, f
  <2>5. Onwards(S, D) /\ \A x \in c.texts : InChat(D, x)
    BY <2>1, <2>3, OnwardsTwice DEF InChat
  <2> QED
    BY <2>2, <2>4, <2>5
<1>6. PICK D, landed :
        /\ Onwards(S, D)
        /\ \/ \A x \in c.texts : InChat(D, x)
           \/ (S.attempted /\ ~S.delivered => D.attempted /\ ~D.delivered)
        /\ output' \in {Out!AfterCoalesced(D, t, landed), Out!AfterFailure(D, t, landed),
                        Out!AfterPartial(D, t, landed), Out!AfterUnfinished(D, t, landed)}
  BY <1>5
<1>7. Base(D, t) /\ Moves(D, t)
  BY <1>3, <1>6, OnwardsBase, BaseMoves
<1>8. Attempted(D, t)
  <2>1. /\ Opened(D) = Opened(S) /\ (\A q : LastText(D, q) = LastText(S, q))
        /\ D.answer = S.answer /\ D.stateSeq = S.stateSeq /\ D.seq = S.seq
        /\ \A x : InChat(S, x) => InChat(D, x)
    BY <1>6, BooksTexts DEF Onwards, Books, Flags
  <2> QED
    BY <1>4, <1>6, <2>1 DEF Attempted, Tried
<1>9. Stops(D, output', t)
  BY <1>6, <1>7, AfterCoalescedStops, AfterFailureStops, AfterPartialStops,
     AfterUnfinishedStops
<1> QED
  BY <1>7, <1>8, <1>9, StopsKeep

(* The end() of a partial nobody finalized returns.                        *)
LEMMA LosesOnwards ==
  ASSUME NEW S, NEW h, OutInv(S), FollowShape(S)
  PROVE  LET D == Out!Fault([S EXCEPT !.streams[h].lost = TRUE]) IN
         /\ Onwards(S, D) /\ D.chat = S.chat /\ D.delivered = S.delivered
         /\ D.sent = S.sent /\ D.attempted = S.attempted /\ D.armed = S.armed
         /\ h \in DOMAIN S.streams => D.streams[h].lost
<1> DEFINE L == [S EXCEPT !.streams[h].lost = TRUE]
           D == Out!Fault(L)
<1>1. /\ FollowShape(L) /\ L.thread = S.thread /\ L.chat = S.chat
      /\ L.cursor = S.cursor /\ L.turnCursor = S.turnCursor /\ L.seq = S.seq
      /\ L.query = S.query /\ L.turnText = S.turnText /\ L.inbox = S.inbox
      /\ L.asked = S.asked /\ L.answer = S.answer /\ L.over = S.over /\ L.mixed = S.mixed
      /\ L.events = S.events /\ L.working = S.working /\ L.alive = S.alive
      /\ L.resolved = S.resolved /\ L.channel = S.channel
      /\ L.stateSeq = S.stateSeq /\ L.seen = S.seen /\ L.boundary = S.boundary
      /\ L.hadError = S.hadError /\ L.handled = S.handled
      /\ L.delivered = S.delivered /\ L.sent = S.sent /\ L.attempted = S.attempted
      /\ L.handle = S.handle /\ L.armed = S.armed
  BY DEF FollowShape, OutShape, OutFields, FollowFields
<1>2. /\ S.handle # 0 => L.streams[S.handle].ended = S.streams[S.handle].ended
      /\ h \in DOMAIN S.streams => L.streams[h].lost
  <2>1. \A g \in DOMAIN S.streams : S.streams[g] \in StreamRecords
    BY DEF OutInv, OutTypes
  <2>2. S.handle # 0 => S.handle \in DOMAIN S.streams
    BY DEF OutInv, OutTypes
  <2> QED
    BY <2>1, <2>2 DEF FollowShape, OutShape, OutFields, StreamRecords
<1> HIDE DEF L
<1>3. Onwards(S, L)
  BY <1>1, <1>2 DEF Onwards, Books, Flags, InChat
<1>4. /\ Onwards(L, D) /\ D.chat = L.chat /\ D.delivered = L.delivered
      /\ D.sent = L.sent /\ D.attempted = L.attempted /\ D.armed = L.armed
      /\ D.streams = L.streams
  BY <1>1 DEF Onwards, Books, Flags, InChat, Out!Fault, FollowShape, OutShape, OutFields,
              FollowFields
<1> HIDE DEF D
<1>5. Onwards(S, D)
  BY <1>3, <1>4, OnwardsTwice
<1> QED
  BY <1>1, <1>2, <1>4, <1>5 DEF D, L

LEMMA UnfinishedKeeps ==
  ASSUME NEW t \in Out!Threads, KeptInv(output), OutInv(output), Out!Ended(t),
         output.thread[t].stage # "callback"
  PROVE  KeptInv(output')
<1> DEFINE S == output
           c == S.thread[t]
           L == Out!Fault([S EXCEPT !.streams[c.hold].lost = TRUE])
           A == Out!Show(S, c.texts)
<1>1. c.at = "end" /\ c.texts \in SUBSET TextRecords /\ c.stage = "unfinished"
  BY DEF Out!Ended, OutInv, Waits
<1>2. Base(S, t) /\ Attempted(S, t) /\ FollowShape(S)
  <2>1. t = "chain" => Finalizing(S)
    BY <1>1 DEF Finalizing
  <2>2. t = "tail" => S.thread["tail"].at # "over"
    BY <1>1
  <2> QED
    BY <1>1, <2>1, <2>2, TailBase, ChainBase DEF Out!Threads, Base
<1>3. /\ Onwards(S, A) /\ A.delivered = S.delivered
      /\ Onwards(S, L) /\ L.delivered = S.delivered
  <2>1. Onwards(S, A) /\ A.delivered = S.delivered
    BY <1>1, <1>2, ShowsOnwards
  <2>2. Onwards(S, L) /\ L.delivered = S.delivered
    BY <1>2, LosesOnwards
  <2> QED
    BY <2>1, <2>2
<1>4. \/ output' = Out!UnfinishedEnded(A, t, c.hold, c.texts)
      \/ output' = Out!UnfinishedEnded(L, t, c.hold, c.texts)
  <2> HIDE DEF A, L
  <2> QED
    BY <1>1 DEF Out!Ended, A, L
<1> HIDE DEF A, L
<1>5. PICK D : /\ Onwards(S, D) /\ D.delivered = S.delivered
               /\ output' = Out!UnfinishedEnded(D, t, c.hold, c.texts)
  BY <1>3, <1>4
<1>6. Base(D, t) /\ Attempted(D, t) /\ Moves(D, t)
  BY <1>2, <1>5, OnwardsBase, OnwardsGiven, BaseMoves
<1>7. Stops(D, output', t)
  BY <1>5, <1>6, UnfinishedEndedStops
<1> QED
  BY <1>6, <1>7, StopsKeep

(* The frames of a stream are out, in finalizeNativeStreamTerminal.        *)
LEMMA DrainedKeeps ==
  ASSUME NEW t \in Out!Threads, KeptInv(output), OutInv(output), Out!Drained(t),
         output.thread[t].at # "boundary"
  PROVE  KeptInv(output')
<1> DEFINE S == output
           h == S.thread[t].hold
           P == IF S.handle = h THEN Out!Probe(S) ELSE S
           M == Out!Cancelled(S, h)
<1>1. S.thread[t].at \in {"settle", "cancel"}
  BY DEF Out!Drained, Out!MayResume
<1>2. Base(S, t) /\ Attempted(S, t) /\ Moves(S, t)
  <2>1. t = "chain" => Finalizing(S) /\ S.thread["chain"].at # "plain"
    BY <1>1 DEF Finalizing
  <2>2. t = "tail" => S.thread["tail"].at # "over"
    BY <1>1
  <2> QED
    BY <2>1, <2>2, TailBase, ChainBase, BaseMoves DEF Out!Threads
<1>3. output' = Out!PartialFallback(P, t) \/ output' = Out!Verdict(M, t)
  <2> HIDE DEF P, M
  <2> QED
    BY <1>1 DEF Out!Drained, P, M
<1>4. Path(S, P, t) /\ Moves(P, t)
  BY <1>2, ProbePath, PathSelf DEF Moves
<1>5. Path(S, M, t)
  BY <1>2 DEF Moves, Path, Books, Flags, InChat, FollowShape, FollowFields, OutShape,
              OutFields, Out!Cancelled
<1> HIDE DEF P, M
<1>6. Stops(S, Out!PartialFallback(P, t), t) /\ Stops(S, Out!Verdict(M, t), t)
  BY <1>4, <1>5, PartialFallbackStops, PathStops DEF Stops
<1> QED
  BY <1>2, <1>3, <1>6, StopsKeep

(* The tail decides what the run came to; if it is to be tried again, the  *)
(* cursor has not moved, or the agent is dead.                             *)
LEMMA TailKeeps ==
  ASSUME KeptInv(output), OutInv(output), Out!RunReturns \/ Out!Decide
  PROVE  KeptInv(output')
<1> DEFINE S == output
<1>1. "tail" \in Out!Threads
  BY DEF Out!Threads
<1>2. S.thread["tail"].at # "over"
  BY DEF Out!RunReturns, Out!Decide
<1>3. Base(S, "tail") /\ Attempted(S, "tail") /\ Moves(S, "tail")
  BY <1>1, <1>2, TailBase, BaseMoves
<1>4. CASE Out!RunReturns
  BY <1>1, <1>3, <1>4, FinalizeStops, StopsKeep DEF Out!RunReturns
<1>5. CASE Out!Decide
  <2> DEFINE retry == (S.resolved = "error" \/ S.hadError) /\ ~S.sent
             d == [S EXCEPT !.verdict = IF retry THEN "retry" ELSE "success",
                            !.cursor = IF retry THEN 0 ELSE @,
                            !.thread["tail"].final = TRUE]
  <2>1. output' = Out!Finalize(d, "tail")
    BY <1>5 DEF Out!Decide
  <2>2. /\ FollowShape(d) /\ d.chat = S.chat
        /\ d.thread["chain"] = S.thread["chain"]
        /\ d.thread["tail"].at = S.thread["tail"].at
    BY <1>3 DEF Base, FollowShape, OutShape, OutFields, FollowFields, ThreadFields,
                Out!Threads
  <2>3. /\ d.cursor = (IF retry THEN 0 ELSE S.cursor)
        /\ d.turnCursor = S.turnCursor /\ d.seq = S.seq
        /\ d.query = S.query /\ d.turnText = S.turnText /\ d.inbox = S.inbox
        /\ d.asked = S.asked /\ d.answer = S.answer /\ d.over = S.over /\ d.mixed = S.mixed
        /\ d.events = S.events /\ d.working = S.working /\ d.alive = S.alive
        /\ d.resolved = S.resolved
        /\ d.stateSeq = S.stateSeq /\ d.seen = S.seen /\ d.boundary = S.boundary
        /\ d.hadError = S.hadError /\ d.handled = S.handled
        /\ d.delivered = S.delivered /\ d.sent = S.sent
        /\ d.handle = S.handle /\ d.streams = S.streams
    BY <1>3 DEF Base, FollowShape, OutFields, FollowFields
  <2> HIDE DEF d
  <2>4. FollowTypes(d) /\ QueueInv(d) /\ Answers(d) /\ FirstTurn(d)
    BY <2>3 DEF Base, Ledger, FollowTypes, QueueInv, Answers, FirstTurn, LastText, KeptInv
  <2>5. Clean(d) = {} /\ Clean(S) = {}
    BY <1>2, <2>3 DEF KeptInv, Ledger, TailFirst, Clean
  <2>6. TailFirst(d) /\ NextClean(d)
    BY <1>2, <2>2, <2>3, <2>5 DEF KeptInv, Ledger, TailFirst, NextClean
  <2>7. RollsBack(d)
    <3>1. retry /\ S.alive => S.turnCursor = 0
      BY DEF KeptInv, Ledger, FirstTurn
    <3> QED
      BY <2>3, <2>5, <3>1 DEF KeptInv, Ledger, RollsBack
  <2>8. Ledger(d)
    BY <2>4, <2>5, <2>6, <2>7 DEF Ledger, OneOpen, OverKept, Opened
  <2>9. Base(d, "tail") /\ Attempted(d, "tail")
    BY <1>3, <2>2, <2>3, <2>8 DEF Base, Attempted, ChainAt, Finalizing
  <2>10. Stops(d, output', "tail")
    BY <1>1, <2>1, <2>9, BaseMoves, FinalizeStops
  <2> QED
    BY <1>1, <2>9, <2>10, StopsKeep
<1> QED
  BY <1>4, <1>5

LEMMA CarriesHanding ==
  ASSUME NEW S, NEW D, NEW es, Handing(S, es), Carries(S, D),
         \A x : Saved(S, x) => Saved(D, x)
  PROVE  Handing(D, es)
<1>1. Ledger(D)
  BY FlagsFirst, BooksKeep DEF Handing, Flags, Carries
<1>2. Opened(D) = Opened(S) /\ \A q : LastText(D, q) = LastText(S, q)
  BY BooksTexts DEF Carries
<1> QED
  BY <1>1, <1>2 DEF Handing, Carries, Books, Flags

(* The head is delivered: what is due after it is due still; and it is the *)
(* answer, or the answer is.                                               *)
LEMMA DueRest ==
  ASSUME NEW es \in Seq(OutputRecords), es # <<>>, NEW x, NEW i \in DOMAIN es, i # 1,
         DueAt(es, i, x)
  PROVE  Due(Tail(es), x)
<1>1. i \in Nat /\ i - 1 \in DOMAIN Tail(es) /\ i - 1 + 1 = i
  OBVIOUS
<1>2. Tail(es)[i - 1] = es[i]
  BY <1>1, TailFacts
<1>3. DueAt(Tail(es), i - 1, x)
  BY <1>2 DEF DueAt
<1> QED
  BY <1>1, <1>3 DEF Due

LEMMA PartialHanding ==
  ASSUME NEW S, Handing(S, S.events), Head(S.events).kind # "final"
  PROVE  Handing(S, Tail(S.events))
<1>1. ASSUME NEW x, Due(S.events, x) PROVE Due(Tail(S.events), x)
  <2>1. PICK i \in DOMAIN S.events : DueAt(S.events, i, x)
    BY <1>1 DEF Due
  <2>2. Head(S.events) = S.events[1]
    BY TailFacts DEF Handing
  <2>3. i # 1
    BY <2>1, <2>2 DEF DueAt
  <2> QED
    BY <2>1, <2>3, DueRest DEF Handing
<1> QED
  BY <1>1 DEF Handing

LEMMA FinalHanding ==
  ASSUME NEW S, NEW D, Handing(S, S.events), Carries(S, D),
         Head(S.events).kind = "final",
         Opened(S) # {} => Saved(D, Out!TextOf(Head(S.events)))
  PROVE  Handing(D, Tail(S.events))
<1> DEFINE es == S.events
<1>1. /\ es \in Seq(OutputRecords) /\ es # <<>>
      /\ 1 \in DOMAIN es /\ Head(es) = es[1] /\ \A j \in DOMAIN es : j \in Nat
  BY TailFacts DEF Handing
<1>2. Ledger(D)
  BY FlagsFirst, BooksKeep DEF Handing, Flags, Carries
<1>3. Opened(D) = Opened(S) /\ \A q : LastText(D, q) = LastText(S, q)
  BY BooksTexts DEF Carries
<1>4. ASSUME NEW q \in Opened(S)
      PROVE  Due(Tail(es), LastText(S, q)) \/ Saved(D, LastText(S, q))
  <2>1. q = S.query /\ 1..(q - 1) \subseteq S.over /\ q \in Nat
    BY <1>4 DEF Handing, Ledger, OneOpen, FollowTypes
  <2>2. es[1].query \in (1..S.query) \ S.over
    BY <1>1 DEF Handing, Ledger, QueueInv
  <2>3. es[1].query = q
    BY <2>1, <2>2
  <2>4. PICK j \in DOMAIN es : DueAt(es, j, LastText(S, q))
    BY <1>1, <2>3 DEF Handing, Ledger, Answers
  <2>5. CASE j = 1
    BY <1>1, <2>4, <2>5 DEF DueAt
  <2>6. CASE j # 1
    BY <1>1, <2>4, <2>6, DueRest
  <2> QED
    BY <2>5, <2>6
<1> QED
  BY <1>1, <1>2, <1>3, <1>4 DEF Handing, Carries, Books, Flags

LEMMA OverKeeps ==
  ASSUME NEW S, Handing(S, Tail(S.events)), HandleOpen(S)
  PROVE  KeptInv(Out!CallbackOver(S))
<1> DEFINE R == Out!CallbackOver(S)
<1>1. /\ FollowShape(R) /\ R.chat = S.chat /\ R.thread["tail"] = S.thread["tail"]
      /\ R.thread["chain"].at = "none"
  BY DEF Handing, Out!CallbackOver, Out!Rest, Out!Resting, FollowShape, OutShape, OutFields,
         FollowFields, ThreadFields, Out!Threads
<1>2. /\ R.cursor = S.cursor /\ R.turnCursor = S.turnCursor /\ R.seq = S.seq
      /\ R.query = S.query /\ R.turnText = S.turnText /\ R.inbox = S.inbox
      /\ R.asked = S.asked /\ R.answer = S.answer /\ R.over = S.over /\ R.mixed = S.mixed
      /\ R.events = Tail(S.events) /\ R.working = S.working /\ R.alive = S.alive
      /\ R.resolved = S.resolved
      /\ R.stateSeq = S.stateSeq /\ R.seen = S.seen /\ R.boundary = S.boundary
      /\ R.hadError = S.hadError /\ R.handled = S.handled
      /\ R.delivered = S.delivered /\ R.sent = S.sent /\ R.attempted = S.attempted
      /\ R.handle = S.handle /\ R.streams = S.streams
      /\ R.armed = S.armed /\ R.buffer = S.buffer
      /\ R.failed = S.failed /\ R.failure = S.failure
  BY DEF Handing, Out!CallbackOver, Out!Rest, FollowShape, FollowFields, OutFields
<1> HIDE DEF R
<1>3. QueueInv(R) /\ Answers(R)
  BY <1>2, PopQueue DEF Handing, Ledger
<1>4. /\ Clean(R) = Clean(S) /\ Opened(R) = Opened(S) /\ (Nobody(R) <=> Nobody(S))
      /\ \A q : LastText(R, q) = LastText(S, q)
  BY <1>2 DEF Clean, Opened, Nobody, LastText
<1>5. FollowTypes(R) /\ RollsBack(R) /\ FirstTurn(R)
  BY <1>2, <1>4 DEF Handing, Ledger, FollowTypes, RollsBack, FirstTurn
<1>6. TailFirst(R) /\ NextClean(R) /\ OneOpen(R)
  BY <1>1, <1>2, <1>4 DEF Handing, Ledger, TailFirst, NextClean, OneOpen
<1>7. OverKept(R)
  <2>1. \A q : AnsweredIn(S, q) => AnsweredIn(R, q)
    BY <1>1, <1>2, <1>4 DEF AnsweredIn, InChat
  <2>2. \A q : KeptIn(S, q) => KeptIn(R, q)
    BY <1>2 DEF KeptIn
  <2> QED
    BY <1>2, <1>4, <2>1, <2>2 DEF Handing, Ledger, OverKept
<1>8. ~Finalizing(R) /\ Left(R, "none") = Tail(S.events)
  BY <1>1, <1>2 DEF Finalizing, Left
<1>9. OwnFlags(R)
  <2>1. \A x : Saved(S, x) => Saved(R, x)
    BY <1>1, <1>2 DEF Saved, InFailure, InChat
  <2> QED
    BY <1>1, <1>2, <1>4, <1>8, <2>1 DEF OwnFlags, Handing, Delivering
<1>10. ChainAt(R)
  BY <1>1, <1>2 DEF ChainAt, HandleOpen
<1> QED
  BY <1>1, <1>3, <1>5, <1>6, <1>7, <1>9, <1>10 DEF KeptInv, Ledger, R

LEMMA HoldsKeep ==
  ASSUME NEW S, NEW held, NEW what,
         NEW where \in {"typing", "open", "boundary", "send", "end", "interim"},
         Handing(S, IF where = "interim" THEN Tail(S.events) ELSE S.events),
         where # "end" => HandleOpen(S),
         where \in {"send", "end"} => ~S.armed,
         where = "end" => /\ S.thread["chain"].stage # "unfinished"
                          /\ Head(S.events).kind = "final",
         where = "open" => Head(S.events).kind # "final"
  PROVE  KeptInv(Out!Wait(S, "chain", where, held, what))
<1> DEFINE R == Out!Wait(S, "chain", where, held, what)
<1>1. /\ Path(S, R, "chain")
      /\ R.thread["chain"].at = where /\ R.thread["chain"].stage = S.thread["chain"].stage
      /\ R.attempted = S.attempted
  BY WaitPath DEF Handing, Moves, Out!Threads
<1>2. /\ R.armed = S.armed /\ R.buffer = S.buffer
      /\ R.failed = S.failed /\ R.failure = S.failure
  BY DEF Handing, Out!Wait, FollowShape, FollowFields, OutFields
<1> HIDE DEF R
<1>3. Books(S, R) /\ Flags(S, R)
  BY <1>1 DEF Path
<1>4. Ledger(R)
  BY <1>1, <1>3, FlagsFirst, BooksKeep DEF Handing, Flags, Path
<1>5. Opened(R) = Opened(S) /\ \A q : LastText(R, q) = LastText(S, q)
  BY <1>3, BooksTexts
<1>6. ~Finalizing(R)
  BY <1>1 DEF Finalizing
<1>7. Left(R, "none") = IF where = "interim" THEN Tail(S.events) ELSE S.events
  BY <1>1, <1>3 DEF Left, Books
<1>8. \A x : Saved(S, x) => Saved(R, x)
  BY <1>1, <1>2 DEF Saved, InFailure, InChat, Path
<1>9. OwnFlags(R)
  <2>1. /\ R.stateSeq = S.stateSeq /\ R.seq = S.seq /\ R.answer = S.answer
        /\ R.delivered = S.delivered
    BY <1>1, <1>3 DEF Path, Books, Flags
  <2>2. \A q \in Opened(S) : S.answer[q] # 0 => Delivering(R, LastText(S, q))
    BY <1>6, <1>7, <1>8, <2>1 DEF Handing, Delivering
  <2>3. \A q \in Opened(S) : S.stateSeq = S.seq /\ ~S.attempted /\ ~S.delivered
    BY DEF Handing
  <2> QED
    BY <1>1, <1>2, <1>5, <1>6, <2>1, <2>2, <2>3 DEF OwnFlags
<1>10. ChainAt(R)
  BY <1>1, <1>3, <1>6 DEF ChainAt, HandleOpen, Handing, Path, Books
<1> QED
  BY <1>3, <1>4, <1>9, <1>10 DEF KeptInv, Books, R

LEMMA HandsOn ==
  ASSUME NEW S, NEW D, NEW es, Handing(S, es), Books(S, D), FirstTurn(D),
         D.stateSeq = S.stateSeq, D.handled = S.handled,
         D.delivered = S.delivered, D.attempted = S.attempted,
         \A x : Saved(S, x) => Saved(D, x)
  PROVE  Handing(D, es)
<1>1. Ledger(D)
  BY BooksKeep DEF Handing
<1>2. Opened(D) = Opened(S) /\ \A q : LastText(D, q) = LastText(S, q)
  BY BooksTexts
<1> QED
  BY <1>1, <1>2 DEF Handing, Books

(* The output itself: a final has the typing indicator taken off first, a  *)
(* partial is written to the stream, or has one opened.                    *)
LEMMA HandOutput ==
  ASSUME NEW S, Handing(S, S.events), HandleOpen(S)
  PROVE  KeptInv(Out!Output(S))
<1> DEFINE o == Head(S.events)
           what == {Out!TextOf(o)}
           p == [S EXCEPT !.partial = what]
           C == Out!Chunk(p)
           P == Out!Probe(C)
<1>1. S.channel # "edits"
  BY DEF Handing
<1>2. CASE o.kind = "final"
  BY <1>2, HoldsKeep DEF Out!Output
<1>3. CASE o.kind # "final"
  <2>1. /\ Carries(S, p) /\ (\A x : Saved(S, x) => Saved(p, x)) /\ HandleOpen(p)
        /\ p.events = S.events /\ p.handle = S.handle
    BY DEF Handing, HandleOpen, Carries, Books, Flags, Saved, InFailure, InChat, FollowShape,
           OutShape, OutFields, FollowFields
  <2> HIDE DEF p
  <2>2. Handing(p, p.events)
    BY <2>1, CarriesHanding
  <2>3. CASE S.handle = 0
    <3>1. KeptInv(Out!Wait(p, "chain", "open", 0, what))
      BY <1>3, <2>1, <2>2, HoldsKeep
    <3> QED
      BY <1>1, <1>3, <2>3, <3>1 DEF Out!Output, p
  <2>4. CASE S.handle # 0
    <3>1. /\ Carries(p, C) /\ (\A x : Saved(p, x) => Saved(C, x))
          /\ C.events = p.events /\ C.handle = p.handle
      BY <2>2 DEF Out!Chunk, Handing, Carries, Books, Flags, Saved, InFailure, InChat,
                  FollowShape, OutShape, OutFields, FollowFields
    <3>2. HandleOpen(C)
      BY <2>1, <2>2, <2>4 DEF Out!Chunk, Handing, HandleOpen, FollowShape, OutShape, OutFields,
                              StreamRecords
    <3> HIDE DEF C
    <3>3. Handing(C, C.events)
      BY <2>2, <3>1, CarriesHanding
    <3>4. /\ Carries(C, P) /\ (\A x : Saved(C, x) => Saved(P, x)) /\ HandleOpen(P)
          /\ P.events = C.events
      BY <3>2, <3>3 DEF Out!Probe, Handing, HandleOpen, Carries, Books, Flags, Saved, InFailure,
                        InChat, FollowShape, OutShape, OutFields, FollowFields
    <3> HIDE DEF P
    <3>5. Handing(P, P.events) /\ Head(P.events).kind # "final"
      BY <1>3, <2>1, <3>1, <3>3, <3>4, CarriesHanding
    <3>6. KeptInv(Out!CallbackOver(P))
      BY <3>4, <3>5, PartialHanding, OverKeeps
    <3> QED
      BY <1>1, <1>3, <2>4, <3>6 DEF Out!Output, p, C, P
  <2> QED
    BY <2>3, <2>4
<1> QED
  BY <1>2, <1>3

LEMMA FreshAtRest ==
  ASSUME NEW S, KeptInv(S), OutInv(S),
         S.thread["chain"].at # "end" \/ Finalizing(S)
  PROVE  HandleOpen(S)
<1>1. S.handle # 0 =>
        S.handle \in DOMAIN S.streams /\ S.streams[S.handle] \in StreamRecords
  BY DEF OutInv, OutTypes
<1> QED
  BY <1>1 DEF KeptInv, ChainAt, HandleOpen

(* A new turn: the flags are its own.                                      *)
LEMMA ResetHands ==
  ASSUME NEW S, KeptInv(S), OutInv(S), S.channel = "native", S.events # <<>>,
         S.thread["chain"].at = "none", IsOutput(Head(S.events))
  PROVE  LET r == Out!ResetDeliveryState(S) IN
         /\ Handing(r, r.events) /\ HandleOpen(r) /\ r.stateSeq = r.seq
<1> DEFINE r == Out!ResetDeliveryState(S)
<1>1. /\ S.events \in Seq(OutputRecords) /\ Ledger(S) /\ FollowShape(S) /\ HandleOpen(S)
      /\ Head(S.events) = S.events[1] /\ 1 \in DOMAIN S.events
  BY FreshAtRest, TailFacts DEF KeptInv, OutInv, OutTypes
<1>2. ~Finalizing(S) /\ Left(S, "none") = S.events
  BY DEF Finalizing, Left
<1>3. CASE S.seq = S.stateSeq
  <2>1. Handing(S, S.events)
    BY <1>1, <1>2, <1>3 DEF KeptInv, OwnFlags, Delivering, Handing
  <2> QED
    BY <1>1, <1>3, <2>1 DEF Out!ResetDeliveryState
<1>4. CASE S.seq # S.stateSeq
  <2>1. /\ FollowShape(r) /\ r.chat = S.chat /\ r.thread = S.thread
        /\ r.stateSeq = S.seq /\ ~r.handled /\ ~r.hadError
        /\ ~r.attempted /\ ~r.delivered
    BY <1>1, <1>4 DEF Out!ResetDeliveryState, FollowShape, OutShape, OutFields,
                      FollowFields
  <2>2. /\ r.cursor = S.cursor /\ r.turnCursor = S.turnCursor /\ r.seq = S.seq
        /\ r.query = S.query /\ r.turnText = S.turnText /\ r.inbox = S.inbox
        /\ r.asked = S.asked /\ r.answer = S.answer /\ r.over = S.over /\ r.mixed = S.mixed
        /\ r.events = S.events /\ r.working = S.working /\ r.alive = S.alive
        /\ r.resolved = S.resolved /\ r.channel = S.channel
        /\ r.seen = S.seen /\ r.boundary = S.boundary
        /\ r.handle = S.handle /\ r.streams = S.streams
    BY <1>1, <1>4 DEF Out!ResetDeliveryState, FollowShape, OutFields, FollowFields
  <2> HIDE DEF r
  <2>3. Books(S, r)
    BY <2>1, <2>2 DEF Books, InChat
  <2>4. S.seq # 1
    BY <1>1, <1>4 DEF Ledger, FollowTypes
  <2>5. FirstTurn(r)
    BY <1>1, <2>1, <2>2, <2>4 DEF Ledger, FirstTurn
  <2>6. ~Nobody(S)
    BY <1>1 DEF Nobody, Ledger, QueueInv
  <2>7. Ledger(r)
    BY <1>1, <2>1, <2>3, <2>5, <2>6, BooksKeep
  <2>8. Opened(r) = Opened(S) /\ \A q : LastText(r, q) = LastText(S, q)
    BY <2>3, BooksTexts
  <2>9. \A q \in Opened(S) : S.answer[q] # 0 => Due(S.events, LastText(S, q))
    BY <1>2, <1>4 DEF KeptInv, OwnFlags, Delivering
  <2>10. Handing(r, r.events)
    BY <1>1, <2>1, <2>2, <2>7, <2>8, <2>9 DEF Handing
  <2> QED
    BY <1>1, <2>1, <2>2, <2>10 DEF HandleOpen, r
<1> QED
  BY <1>3, <1>4

LEMMA ResultKeeps ==
  ASSUME NEW S, KeptInv(S), OutInv(S), S.channel = "native", S.events # <<>>,
         S.thread["chain"].at = "none", IsOutput(Head(S.events))
  PROVE  KeptInv(Out!Result(S))
<1> DEFINE r == Out!ResetDeliveryState(S)
           n == IF r.seq = r.seen THEN r ELSE [r EXCEPT !.seen = r.seq, !.boundary = TRUE]
           b == [n EXCEPT !.boundary = FALSE, !.progressive = 0, !.partial = {},
                          !.last = 0, !.sent = FALSE]
           C == Out!Cancelled(b, b.handle)
<1>1. Out!Result(S) = IF ~n.boundary THEN Out!Output(n)
                      ELSE IF b.handle = 0 THEN Out!Output(b)
                      ELSE IF Out!MustDrain(b, b.handle)
                           THEN Out!Wait(b, "chain", "boundary", b.handle, {})
                           ELSE Out!Output(C)
  BY DEF Out!Result
<1>2. Handing(r, r.events) /\ HandleOpen(r) /\ r.stateSeq = r.seq
  BY ResetHands
<1> HIDE DEF r
<1>3. Handing(n, n.events) /\ HandleOpen(n) /\ n.stateSeq = n.seq
  <2>1. CASE r.seq = r.seen
    BY <1>2, <2>1
  <2>2. CASE r.seq # r.seen
    <3>1. /\ Books(r, n) /\ n.stateSeq = r.stateSeq /\ n.handled = r.handled
          /\ n.delivered = r.delivered /\ n.attempted = r.attempted
          /\ n.hadError = r.hadError /\ n.sent = r.sent
          /\ n.handle = r.handle /\ n.streams = r.streams /\ n.chat = r.chat
          /\ n.armed = r.armed /\ n.buffer = r.buffer
          /\ n.failed = r.failed /\ n.failure = r.failure
      BY <1>2, <2>2 DEF Handing, Books, InChat, FollowShape, OutShape, OutFields,
                        FollowFields
    <3> HIDE DEF n
    <3>2. FirstTurn(n)
      BY <1>2, <2>2, <3>1 DEF Handing, Ledger, FirstTurn, Books
    <3>3. \A x : Saved(r, x) => Saved(n, x)
      BY <3>1 DEF Saved, InFailure, InChat
    <3>4. Handing(n, r.events)
      BY <1>2, <3>1, <3>2, <3>3, HandsOn
    <3> QED
      BY <1>2, <3>1, <3>4 DEF Books, HandleOpen
  <2> QED
    BY <2>1, <2>2
<1> HIDE DEF n
<1>4. CASE ~n.boundary
  BY <1>1, <1>3, <1>4, HandOutput
<1>5. CASE n.boundary
  <2>1. /\ Books(n, b) /\ b.stateSeq = n.stateSeq /\ b.handled = n.handled
        /\ b.delivered = n.delivered /\ b.attempted = n.attempted
        /\ b.hadError = n.hadError /\ b.seen = n.seen /\ b.boundary = FALSE
        /\ b.handle = n.handle /\ b.streams = n.streams /\ b.chat = n.chat
        /\ b.armed = n.armed /\ b.buffer = n.buffer
        /\ b.failed = n.failed /\ b.failure = n.failure
    BY <1>3 DEF Handing, Books, InChat, FollowShape, OutShape, OutFields, FollowFields
  <2> HIDE DEF b
  <2>2. n.seq # 1
    <3>1. n.events[1].query \in (1..n.query) \ n.over
      BY <1>3, TailFacts DEF Handing, Ledger, QueueInv
    <3> QED
      BY <1>3, <1>5, <3>1 DEF FirstTurn, Ledger, Handing
  <2>3. FirstTurn(b)
    BY <1>3, <2>1, <2>2 DEF Handing, Ledger, FirstTurn, Books
  <2>4. \A x : Saved(n, x) => Saved(b, x)
    BY <2>1 DEF Saved, InFailure, InChat
  <2>5. Handing(b, b.events) /\ HandleOpen(b)
    BY <1>3, <2>1, <2>3, <2>4, HandsOn DEF HandleOpen, Books
  <2>6. /\ Carries(b, C) /\ (\A x : Saved(b, x) => Saved(C, x)) /\ HandleOpen(C)
        /\ C.events = b.events
    BY <2>5 DEF Out!Cancelled, Handing, HandleOpen, Carries, Books, Flags, Saved, InFailure,
                InChat, FollowShape, OutShape, OutFields, FollowFields
  <2> HIDE DEF C
  <2>7. Handing(C, C.events)
    BY <2>5, <2>6, CarriesHanding
  <2>8. KeptInv(Out!Output(b)) /\ KeptInv(Out!Output(C))
    BY <2>5, <2>6, <2>7, HandOutput
  <2>9. KeptInv(Out!Wait(b, "chain", "boundary", b.handle, {}))
    BY <2>5, HoldsKeep
  <2> QED
    BY <1>1, <1>5, <2>8, <2>9
<1> QED
  BY <1>4, <1>5

(* The chain in the midst of an output.                                    *)
LEMMA InHanding ==
  ASSUME NEW S, KeptInv(S), OutInv(S), S.channel = "native",
         S.thread["chain"].at # "none", ~Finalizing(S)
  PROVE  Handing(S, Left(S, "none"))
<1>1. S.events # <<>> /\ IsOutput(Head(S.events)) /\ S.events \in Seq(OutputRecords)
  BY DEF KeptInv, ChainAt, OutInv, OutTypes
<1>2. \A q \in Opened(S) :
        /\ S.stateSeq = S.seq /\ ~S.attempted /\ ~S.delivered
        /\ S.answer[q] # 0 => Due(Left(S, "none"), LastText(S, q)) \/ Saved(S, LastText(S, q))
  BY DEF KeptInv, OwnFlags, Delivering
<1> QED
  BY <1>1, <1>2 DEF Handing, KeptInv

LEMMA InterimKeeps ==
  ASSUME NEW S, Handing(S, Tail(S.events)), HandleOpen(S)
  PROVE  KeptInv(Out!Interim(S))
  BY HoldsKeep DEF Out!Interim

(* A final is buffered, handed to its stream, or sent.                     *)
LEMMA FinalKeeps ==
  ASSUME NEW S, KeptInv(S), OutInv(S), S.channel = "native", NoEdits(S),
         S.thread["chain"].at = "typing"
  PROVE  KeptInv(Out!Final(S))
<1> DEFINE what == S.thread["chain"].texts
           h == S.handle
           y == Out!TextOf(Head(S.events))
           c == [S EXCEPT !.thread["chain"].stage = "callback"]
           e == [c EXCEPT !.streams[h].ended = TRUE]
           b == [S EXCEPT !.buffer = @ \cup what, !.progressive = 0, !.partial = {}]
<1>1. /\ what = {y} /\ Head(S.events).kind = "final" /\ S.progressive = 0
      /\ Left(S, "none") = S.events
  BY DEF OutInv, Waits, TheOutput, NoEdits, Left, Out!Threads
<1>2. Handing(S, S.events) /\ HandleOpen(S) /\ FollowShape(S)
  BY <1>1, InHanding, FreshAtRest DEF Finalizing, KeptInv
<1>3. CASE S.armed
  <2>1. Carries(S, b) /\ Saved(b, y) /\ HandleOpen(b) /\ b.events = S.events
    BY <1>1, <1>2, <1>3 DEF Carries, Books, Flags, Saved, InChat, HandleOpen, FollowShape,
                            OutShape, OutFields, FollowFields
  <2> HIDE DEF b
  <2>2. Handing(b, Tail(b.events))
    BY <1>1, <1>2, <2>1, FinalHanding
  <2> QED
    BY <1>3, <2>1, <2>2, InterimKeeps DEF Out!Final, b
<1>4. /\ Carries(S, c) /\ (\A x : Saved(S, x) => Saved(c, x)) /\ HandleOpen(c)
      /\ c.events = S.events /\ c.handle = S.handle /\ c.armed = S.armed
      /\ c.thread["chain"].stage = "callback"
  <2>1. /\ FollowShape(c) /\ c.chat = S.chat /\ c.thread["chain"].stage = "callback"
        /\ c.thread["tail"] = S.thread["tail"]
    BY <1>2 DEF FollowShape, OutShape, OutFields, FollowFields, ThreadFields, Out!Threads
  <2>2. /\ c.cursor = S.cursor /\ c.turnCursor = S.turnCursor /\ c.seq = S.seq
        /\ c.query = S.query /\ c.turnText = S.turnText /\ c.inbox = S.inbox
        /\ c.asked = S.asked /\ c.answer = S.answer /\ c.over = S.over /\ c.mixed = S.mixed
        /\ c.events = S.events /\ c.working = S.working /\ c.alive = S.alive
        /\ c.resolved = S.resolved /\ c.channel = S.channel
        /\ c.stateSeq = S.stateSeq /\ c.seen = S.seen /\ c.boundary = S.boundary
        /\ c.hadError = S.hadError /\ c.handled = S.handled
        /\ c.delivered = S.delivered /\ c.sent = S.sent /\ c.attempted = S.attempted
        /\ c.handle = S.handle /\ c.streams = S.streams
        /\ c.armed = S.armed /\ c.buffer = S.buffer
        /\ c.failed = S.failed /\ c.failure = S.failure
    BY <1>2 DEF FollowShape, OutFields, FollowFields
  <2> HIDE DEF c
  <2> QED
    BY <1>2, <2>1, <2>2 DEF Carries, Books, Flags, Saved, InFailure, InChat, HandleOpen
<1> HIDE DEF c
<1>5. Handing(c, c.events)
  BY <1>2, <1>4, CarriesHanding
<1>6. CASE ~S.armed /\ h # 0
  <2>1. /\ Carries(c, e) /\ (\A x : Saved(c, x) => Saved(e, x))
        /\ e.events = c.events /\ e.armed = c.armed /\ e.thread = c.thread
    BY <1>5 DEF Handing, Carries, Books, Flags, Saved, InFailure, InChat, FollowShape,
                OutShape, OutFields, FollowFields
  <2> HIDE DEF e
  <2>2. Handing(e, e.events)
    BY <1>5, <2>1, CarriesHanding
  <2>3. KeptInv(Out!Wait(e, "chain", "end", h, what))
    BY <1>1, <1>4, <1>6, <2>1, <2>2, HoldsKeep
  <2>4. Out!Final(S) = Out!Wait(e, "chain", "end", h, what)
    BY <1>2, <1>6 DEF Out!Final, HandleOpen, e, c
  <2> QED
    BY <2>3, <2>4
<1>7. CASE ~S.armed /\ h = 0
  <2>1. KeptInv(Out!Wait(c, "chain", "send", 0, what))
    BY <1>4, <1>5, <1>7, HoldsKeep
  <2>2. Out!Final(S) = Out!Wait(c, "chain", "send", 0, what)
    BY <1>1, <1>7 DEF Out!Final, c
  <2> QED
    BY <2>1, <2>2
<1> QED
  BY <1>3, <1>6, <1>7

(* It has landed, or its stream was lost.                                  *)
LEMMA FinalEndedKeeps ==
  ASSUME NEW S, NEW D, NEW h, NEW bubble, Handing(S, S.events), Carries(S, D),
         Opened(S) # {} => ~D.armed, Head(S.events).kind = "final",
         LET y == Out!TextOf(Head(S.events)) IN D.streams[h].lost \/ InChat(D, y)
  PROVE  KeptInv(Out!FinalEnded(D, h, {Out!TextOf(Head(S.events))}, bubble))
<1> DEFINE y == Out!TextOf(Head(S.events))
           e == [D EXCEPT !.handle = 0, !.last = bubble]
           g == [e EXCEPT !.progressive = 0]
           l == Out!FinalFailed(g, {y})
           f == [e EXCEPT !.progressive = 0, !.partial = {}, !.sent = TRUE]
<1>1. FollowShape(D)
  BY DEF Carries, Books
<1>2. /\ Carries(D, l) /\ (~D.armed => InFailure(l, y)) /\ HandleOpen(l) /\ l.events = D.events
  BY <1>1 DEF Out!FinalFailed, Carries, Books, Flags, InFailure, InChat, HandleOpen, FollowShape,
              OutShape, OutFields, FollowFields
<1>3. /\ Carries(D, f) /\ (InChat(D, y) => InChat(f, y)) /\ HandleOpen(f)
      /\ f.events = D.events
  BY <1>1 DEF Carries, Books, Flags, InChat, HandleOpen, FollowShape, OutShape, OutFields,
              FollowFields
<1>4. Out!FinalEnded(D, h, {y}, bubble) =
        IF D.streams[h].lost THEN Out!Interim(l) ELSE Out!Interim(f)
  BY DEF Out!FinalEnded, Out!FinalOut
<1> HIDE DEF l, f
<1>5. Carries(S, l) /\ Carries(S, f)
  BY <1>2, <1>3 DEF Carries, Books, Flags
<1>6. D.streams[h].lost \/ InChat(D, y)
  OBVIOUS
<1>7. Handing(l, Tail(l.events))
  BY <1>2, <1>5, FinalHanding DEF Saved, Carries, Books
<1>8. ~D.streams[h].lost => Handing(f, Tail(f.events))
  BY <1>3, <1>5, <1>6, FinalHanding DEF Saved, Carries, Books
<1> QED
  BY <1>2, <1>3, <1>4, <1>7, <1>8, InterimKeeps

LEMMA SentKeeps ==
  ASSUME KeptInv(output), Native(output), output.channel = "native", Out!Sent
  PROVE  KeptInv(output')
<1> DEFINE S == output
           c == S.thread["chain"]
           y == Out!TextOf(Head(S.events))
           A == Out!Show(S, c.texts)
           f == [A EXCEPT !.last = Len(S.chat) + 1, !.progressive = 0, !.partial = {},
                          !.sent = TRUE]
           l == Out!Fault(Out!FinalFailed(S, c.texts))
<1>1. /\ OutInv(S) /\ c.at = "send" /\ c.texts = {y} /\ Head(S.events).kind = "final"
      /\ c.texts \in SUBSET TextRecords /\ Left(S, "none") = S.events
  BY DEF Out!Sent, Native, OutInv, Waits, TheOutput, NoEdits, Left, Out!Threads
<1>2. y.final
  BY <1>1 DEF Out!TextOf
<1>3. output' = Out!Interim(f) \/ output' = Out!CallbackOver(l)
  <2>1. \E x \in c.texts : x.final
    BY <1>1, <1>2
  <2>2. \/ output' = Out!FinalOut([A EXCEPT !.last = Len(S.chat) + 1])
        \/ output' = Out!CallbackOver(l)
    BY <2>1 DEF Out!Sent
  <2> HIDE DEF A, l
  <2> QED
    BY <2>2 DEF Out!FinalOut
<1>4. ~Finalizing(S) /\ Handing(S, S.events) /\ HandleOpen(S) /\ FollowShape(S)
  BY <1>1, InHanding, FreshAtRest DEF Finalizing, KeptInv
<1>5. Opened(S) # {} => ~S.armed
  BY <1>1, <1>4 DEF KeptInv, OwnFlags
<1>6. Onwards(S, A) /\ A.attempted = S.attempted /\ A.delivered = S.delivered
      /\ InChat(A, y) /\ A.streams = S.streams /\ FollowShape(A)
  <2>1. A.streams = S.streams
    BY <1>4 DEF Out!Show, FollowShape, OutFields, FollowFields
  <2> QED
    BY <1>1, <1>4, <2>1, ShowsOnwards DEF Onwards, Books
<1> HIDE DEF A
<1>7. /\ Carries(A, f) /\ InChat(f, y) /\ f.events = A.events /\ f.handle = A.handle
      /\ f.streams = A.streams
  BY <1>6 DEF Carries, Books, Flags, InChat, FollowShape, OutShape, OutFields, FollowFields
<1> HIDE DEF f
<1>8. Carries(S, f) /\ HandleOpen(f) /\ f.events = S.events
  BY <1>4, <1>6, <1>7 DEF Carries, Onwards, Books, Flags, HandleOpen
<1>9. KeptInv(Out!Interim(f))
  BY <1>1, <1>4, <1>7, <1>8, FinalHanding, InterimKeeps DEF Saved
<1>10. /\ Carries(S, l) /\ (~S.armed => InFailure(l, y)) /\ HandleOpen(l)
       /\ l.events = S.events
  BY <1>1, <1>4 DEF Out!Fault, Out!FinalFailed, Carries, Books, Flags, InFailure, InChat,
                    HandleOpen, FollowShape, OutShape, OutFields, FollowFields
<1> HIDE DEF l
<1>11. KeptInv(Out!CallbackOver(l))
  BY <1>1, <1>4, <1>5, <1>10, FinalHanding, OverKeeps DEF Saved
<1> QED
  BY <1>3, <1>9, <1>11

LEMMA TypingOnKeeps ==
  ASSUME KeptInv(output), OutInv(output), output.channel = "native", Out!TypingOn
  PROVE  KeptInv(output')
<1>1. output.thread["chain"].at = "interim" /\ output' = Out!CallbackOver(output)
  BY DEF Out!TypingOn
<1>2. Left(output, "none") = Tail(output.events) /\ ~Finalizing(output)
  BY <1>1 DEF Left, Finalizing
<1> QED
  BY <1>1, <1>2, InHanding, FreshAtRest, OverKeeps

LEMMA OpensKeep ==
  ASSUME KeptInv(output), OutInv(output), output.channel = "native", Out!StreamOpens
  PROVE  KeptInv(output')
<1> DEFINE S == output
           r == [draining |-> TRUE, dead |-> FALSE, ended |-> FALSE, lost |-> FALSE]
           o == [S EXCEPT !.streams = Append(@, r), !.handle = Len(S.streams) + 1]
<1>1. S.thread["chain"].at = "open" /\ output' = Out!CallbackOver(o)
  BY DEF Out!StreamOpens
<1>2. Left(S, "none") = S.events /\ ~Finalizing(S) /\ Head(S.events).kind # "final"
  BY <1>1 DEF Left, Finalizing, KeptInv, ChainAt
<1>3. Handing(S, Tail(S.events)) /\ FollowShape(S)
  BY <1>1, <1>2, InHanding, PartialHanding DEF KeptInv
<1>4. r \in StreamRecords /\ ~r.ended
  BY DEF StreamRecords
<1> HIDE DEF r
<1>5. /\ Append(S.streams, r)[Len(S.streams) + 1] = r
      /\ Len(S.streams) + 1 \in DOMAIN Append(S.streams, r)
  BY <1>4, AppendFacts DEF OutInv, OutTypes
<1>6. /\ Carries(S, o) /\ (\A x : Saved(S, x) => Saved(o, x)) /\ o.events = S.events
      /\ o.streams = Append(S.streams, r) /\ o.handle = Len(S.streams) + 1
  BY <1>3 DEF Carries, Books, Flags, Saved, InFailure, InChat, FollowShape, OutShape,
              OutFields, FollowFields
<1> HIDE DEF o
<1>7. HandleOpen(o)
  BY <1>4, <1>5, <1>6 DEF HandleOpen
<1> QED
  BY <1>1, <1>3, <1>6, <1>7, CarriesHanding, OverKeeps

LEMMA EndedKeeps ==
  ASSUME NEW t \in Out!Threads, KeptInv(output), Native(output),
         output.channel = "native", Out!Ended(t)
  PROVE  KeptInv(output')
<1> DEFINE S == output
           c == S.thread[t]
           A == Out!Show(S, c.texts)
           L == Out!Fault([S EXCEPT !.streams[c.hold].lost = TRUE])
           y == Out!TextOf(Head(S.events))
<1>1. OutInv(S) /\ c.at = "end"
  BY DEF Native, Out!Ended
<1>2. CASE c.stage # "callback"
  BY <1>1, <1>2, UnfinishedKeeps
<1>3. CASE c.stage = "callback"
  <2>1. /\ t = "chain" /\ c.texts = {y} /\ c.texts \in SUBSET TextRecords
        /\ c.hold \in DOMAIN S.streams
    BY <1>1, <1>3 DEF OutInv, Waits, TheOutput
  <2>2. ~Finalizing(S) /\ Left(S, "none") = S.events
    BY <1>1, <1>3, <2>1 DEF Finalizing, Left
  <2>3. Handing(S, S.events) /\ FollowShape(S)
    BY <1>1, <2>1, <2>2, InHanding DEF KeptInv
  <2>4. Opened(S) # {} => ~S.armed
    BY <1>1, <2>1, <2>2 DEF KeptInv, OwnFlags
  <2>5. \E D, bubble : /\ D = A \/ D = L
                       /\ output' = Out!FinalEnded(D, c.hold, c.texts, bubble)
    <3> HIDE DEF A, L
    <3> QED
      BY <1>3 DEF Out!Ended, A, L
  <2>6. Carries(S, A) /\ A.armed = S.armed /\ InChat(A, y)
    <3>1. Onwards(S, A) /\ A.attempted = S.attempted /\ A.delivered = S.delivered
          /\ InChat(A, y)
      BY <1>1, <2>1, <2>3, ShowsOnwards
    <3>2. A.armed = S.armed
      BY <2>3 DEF Out!Show, FollowShape, OutFields, FollowFields
    <3> QED
      BY <3>1, <3>2 DEF Carries, Onwards
  <2>7. Carries(S, L) /\ L.armed = S.armed /\ L.streams[c.hold].lost
    <3>1. /\ Onwards(S, L) /\ L.attempted = S.attempted /\ L.delivered = S.delivered
          /\ L.armed = S.armed
      BY <1>1, <2>3, LosesOnwards
    <3>2. c.hold \in DOMAIN S.streams => L.streams[c.hold].lost
      BY <1>1, <2>3, LosesOnwards
    <3> QED
      BY <2>1, <3>1, <3>2 DEF Carries, Onwards
  <2> HIDE DEF A, L
  <2>8. PICK D, bubble : /\ D = A \/ D = L
                         /\ output' = Out!FinalEnded(D, c.hold, c.texts, bubble)
    BY <2>5
  <2>9. Head(S.events).kind = "final"
    BY <1>1, <2>1, <2>2 DEF KeptInv, ChainAt
  <2> QED
    BY <2>1, <2>3, <2>4, <2>6, <2>7, <2>8, <2>9, FinalEndedKeeps
<1> QED
  BY <1>2, <1>3

LEMMA BoundaryKeeps ==
  ASSUME NEW t \in Out!Threads, KeptInv(output), OutInv(output),
         output.channel = "native", Out!Drained(t)
  PROVE  KeptInv(output')
<1> DEFINE S == output
           h == S.thread[t].hold
           M == Out!Cancelled(S, h)
<1>1. CASE S.thread[t].at # "boundary"
  BY <1>1, DrainedKeeps
<1>2. CASE S.thread[t].at = "boundary"
  <2>1. t = "chain"
    BY <1>2 DEF OutInv, Waits
  <2>2. output' = Out!Output(M)
    BY <1>2 DEF Out!Drained
  <2>3. ~Finalizing(S) /\ Left(S, "none") = S.events
    BY <1>2, <2>1 DEF Finalizing, Left
  <2>4. Handing(S, S.events) /\ FollowShape(S)
    BY <1>2, <2>1, <2>3, InHanding DEF KeptInv
  <2>5. /\ Carries(S, M) /\ (\A x : Saved(S, x) => Saved(M, x)) /\ HandleOpen(M)
        /\ M.events = S.events
    BY <2>4 DEF Out!Cancelled, Carries, Books, Flags, Saved, InFailure, InChat, HandleOpen,
                FollowShape, OutShape, OutFields, FollowFields
  <2> HIDE DEF M
  <2> QED
    BY <2>2, <2>4, <2>5, CarriesHanding, HandOutput
<1> QED
  BY <1>1, <1>2

LEMMA BeginKeeps ==
  ASSUME KeptInv(output), OutInv(output), output.channel = "native", Out!Begin
  PROVE  KeptInv(output')
<1> DEFINE o == Head(output.events)
<1>1. output.events # <<>> /\ output.thread["chain"].at = "none"
  BY DEF Out!Begin, Out!MayBegin
<1>2. o \in OutputRecords
  BY <1>1, TailFacts DEF OutInv, OutTypes
<1>3. CASE o.kind \in {"complete", "error"}
  <2>1. ~IsOutput(o)
    BY <1>3 DEF IsOutput
  <2> QED
    BY <1>1, <1>3, <2>1, CompleteKeeps DEF Out!Begin
<1>4. CASE o.kind \notin {"complete", "error"}
  <2>1. IsOutput(o)
    BY <1>2, <1>4 DEF IsOutput, OutputRecords
  <2> QED
    BY <1>1, <1>4, <2>1, ResultKeeps DEF Out!Begin
<1> QED
  BY <1>3, <1>4

LEMMA EnqueuesKeep ==
  ASSUME NEW S, NEW R, NEW o, KeptInv(S), OutInv(S), Enqueues(S, R, o)
  PROVE  KeptInv(R)
<1> DEFINE es == S.events
           n == Len(es) + 1
<1>1. /\ es \in Seq(OutputRecords) /\ R.events = Append(es, o) /\ o \in OutputRecords
      /\ o.query = S.query
  BY DEF OutInv, OutTypes, Enqueues
<1>2. /\ DOMAIN R.events = DOMAIN es \cup {n} /\ R.events[n] = o /\ n \notin DOMAIN es
      /\ \A i \in DOMAIN es : R.events[i] = es[i]
      /\ es # <<>> => Head(R.events) = Head(es) /\ Tail(R.events) = Append(Tail(es), o)
      /\ R.events # <<>>
      /\ n \in Nat /\ \A i \in DOMAIN es : i \in Nat /\ i < n
  BY <1>1, AppendFacts
<1>3. /\ S.query \in 1..MaxQueries /\ S.query \notin S.over /\ o.nth \in Nat
      /\ \A i \in DOMAIN es : ~IsOutput(es[i]) => es[i].query # S.query
      /\ DOMAIN S.answer = 1..MaxQueries
  BY <1>1 DEF KeptInv, Ledger, FollowTypes, QueueInv, Enqueues, OutputRecords
<1>4. /\ R.answer[S.query] = IF o.kind = "final" THEN o.nth ELSE S.answer[S.query]
      /\ \A q \in 1..MaxQueries : q # S.query => R.answer[q] = S.answer[q]
      /\ DOMAIN R.answer = 1..MaxQueries
  BY <1>3 DEF Enqueues
<1>5. /\ \A q \in 1..MaxQueries : q # S.query => LastText(R, q) = LastText(S, q)
      /\ o.kind = "final" => LastText(R, S.query) = Out!TextOf(o)
      /\ o.kind # "final" => LastText(R, S.query) = LastText(S, S.query)
  BY <1>1, <1>4 DEF LastText, Out!TextOf
<1>6. Clean(R) = Clean(S) /\ Opened(R) = Opened(S) /\ (Nobody(R) <=> Nobody(S))
  BY DEF Enqueues, Clean, Opened, Nobody
<1> HIDE DEF es, n
<1>7. FollowTypes(R)
  <2>1. \A q \in 1..MaxQueries : q > R.query => R.answer[q] = 0 /\ R.asked[q] = {}
    BY <1>3, <1>4 DEF KeptInv, Ledger, FollowTypes, Enqueues
  <2>2. \A q \in 1..MaxQueries : R.answer[q] \in Nat
    BY <1>3, <1>4 DEF KeptInv, Ledger, FollowTypes, Enqueues
  <2> QED
    BY <1>4, <2>1, <2>2 DEF KeptInv, Ledger, FollowTypes, Enqueues
<1>8. QueueInv(R)
  <2>1. R.query = S.query /\ R.over = S.over
        /\ (o.kind = "error" => ~R.alive) /\ (R.alive => S.alive)
        /\ (R.working => IsOutput(o)) /\ S.working
    BY DEF Enqueues
  <2>2. /\ S.over \subseteq 1..S.query
        /\ \A i \in DOMAIN es : es[i].query \in (1..S.query) \ S.over
        /\ \A i, j \in DOMAIN es : i < j /\ ~IsOutput(es[i]) => es[j].query # es[i].query
        /\ \A i \in DOMAIN es : es[i].kind = "error" => ~S.alive
    BY DEF KeptInv, Ledger, QueueInv, es
  <2>3. \A i \in DOMAIN R.events : R.events[i].query \in (1..R.query) \ R.over
    BY <1>1, <1>2, <1>3, <2>1, <2>2
  <2>4. \A i, j \in DOMAIN R.events : i < j /\ ~IsOutput(R.events[i]) =>
          R.events[j].query # R.events[i].query
    <3> SUFFICES ASSUME NEW i \in DOMAIN R.events, NEW j \in DOMAIN R.events,
                        i < j, ~IsOutput(R.events[i])
                 PROVE  R.events[j].query # R.events[i].query
      OBVIOUS
    <3>1. i \in DOMAIN es
      BY <1>2
    <3> QED
      BY <1>1, <1>2, <1>3, <2>2, <3>1
  <2>5. R.working => \A i \in DOMAIN R.events : ~IsOutput(R.events[i]) => R.events[i].query # R.query
    BY <1>1, <1>2, <1>3, <2>1
  <2>6. \A i \in DOMAIN R.events : R.events[i].kind = "error" => ~R.alive
    BY <1>2, <2>1, <2>2
  <2> QED
    BY <1>3, <2>1, <2>2, <2>3, <2>4, <2>5, <2>6 DEF QueueInv
<1>9. Answers(R)
  <2> SUFFICES ASSUME NEW i \in DOMAIN R.events, R.events[i].kind = "final"
               PROVE  \E j \in DOMAIN R.events :
                        j >= i /\ DueAt(R.events, j, LastText(R, R.events[i].query))
    BY DEF Answers
  <2>1. CASE R.events[i].query = S.query /\ o.kind = "final"
    <3>1. DueAt(R.events, n, LastText(R, S.query)) /\ n \in DOMAIN R.events /\ n >= i
      BY <1>2, <1>5, <2>1 DEF DueAt
    <3> QED
      BY <2>1, <3>1
  <2>2. CASE ~(R.events[i].query = S.query /\ o.kind = "final")
    <3>1. i \in DOMAIN es /\ R.events[i] = es[i]
      BY <1>1, <1>2, <2>2
    <3>2. PICK j \in DOMAIN es : j >= i /\ DueAt(es, j, LastText(S, es[i].query))
      BY <3>1 DEF KeptInv, Ledger, Answers, es
    <3>3. es[i].query \in 1..MaxQueries
      BY <3>1, OutputAssumption DEF KeptInv, Ledger, QueueInv, FollowTypes, es
    <3>4. LastText(R, es[i].query) = LastText(S, es[i].query)
      BY <1>5, <2>2, <3>1, <3>3
    <3> QED
      BY <1>2, <3>1, <3>2, <3>4 DEF DueAt
  <2> QED
    BY <2>1, <2>2
<1>10. TailFirst(R) /\ NextClean(R) /\ OneOpen(R) /\ RollsBack(R) /\ FirstTurn(R)
  <2>1. TailFirst(R) /\ NextClean(R)
    BY <1>6 DEF KeptInv, Ledger, TailFirst, NextClean, Enqueues
  <2>2. OneOpen(R)
    BY <1>6 DEF KeptInv, Ledger, OneOpen, Enqueues
  <2>3. RollsBack(R) /\ FirstTurn(R)
    BY <1>6 DEF KeptInv, Ledger, RollsBack, FirstTurn, Enqueues
  <2> QED
    BY <2>1, <2>2, <2>3
<1>11. OverKept(R)
  <2> SUFFICES ASSUME NEW q \in Clean(R) \cap R.over
               PROVE  AnsweredIn(R, q) \/ KeptIn(R, q)
    BY DEF OverKept
  <2>1. /\ q \in Clean(S) \cap S.over /\ q # S.query
        /\ AnsweredIn(S, q) \/ KeptIn(S, q)
    BY <1>3, <1>6 DEF KeptInv, Ledger, OverKept, Enqueues
  <2>2. q \in 1..MaxQueries
    BY <1>3, <2>1, OutputAssumption DEF Clean
  <2>3. AnsweredIn(S, q) => AnsweredIn(R, q)
    BY <1>4, <1>5, <2>1, <2>2 DEF AnsweredIn, InChat, Enqueues
  <2>4. KeptIn(S, q) => KeptIn(R, q)
    BY DEF KeptIn, Enqueues
  <2> QED
    BY <2>1, <2>3, <2>4
<1>12. Finalizing(R) <=> Finalizing(S)
  BY DEF Enqueues, Finalizing
<1>13. ASSUME NEW q \in Opened(S), Finalizing(S)
       PROVE  FALSE
  <2>1. es # <<>> /\ ~IsOutput(Head(es)) /\ 1 \in DOMAIN es /\ Head(es) = es[1]
    BY <1>1, <1>13, TailFacts DEF KeptInv, ChainAt, Finalizing, es
  <2>2. q = S.query /\ 1..(q - 1) \subseteq S.over
    BY <1>13 DEF KeptInv, Ledger, OneOpen
  <2>3. es[1].query \in (1..S.query) \ S.over
    BY <2>1 DEF KeptInv, Ledger, QueueInv, es
  <2>4. es[1].query = S.query
    BY <1>3, <2>2, <2>3
  <2> QED
    BY <1>3, <2>1, <2>4
<1>14. OwnFlags(R)
  <2>1. ASSUME NEW q \in Opened(S), R.answer[q] # 0
        PROVE  Due(Left(R, "none"), LastText(R, q)) \/
                 (R.stateSeq = R.seq /\ Saved(R, LastText(R, q)))
    <3>1. q = S.query
      BY DEF KeptInv, Ledger, OneOpen
    <3>2. \/ Left(R, "none") = Append(Left(S, "none"), o) /\ Left(S, "none") \in Seq(OutputRecords)
      <4>1. S.thread["chain"].at # "none" => es # <<>>
        BY DEF KeptInv, ChainAt, es
      <4>2. es # <<>> => Tail(es) \in Seq(OutputRecords)
        BY <1>1, TailFacts
      <4> QED
        BY <1>1, <1>2, <4>1, <4>2 DEF Left, Enqueues, es
    <3> DEFINE ls == Left(S, "none")
    <3>3. /\ DOMAIN Append(ls, o) = DOMAIN ls \cup {Len(ls) + 1}
          /\ Append(ls, o)[Len(ls) + 1] = o
          /\ \A i \in DOMAIN ls : Append(ls, o)[i] = ls[i]
      BY <1>1, <3>2, AppendFacts
    <3> HIDE DEF ls
    <3>4. CASE o.kind = "final"
      BY <1>5, <3>1, <3>2, <3>3, <3>4 DEF Due, DueAt, ls
    <3>5. CASE o.kind # "final"
      <4>1. LastText(R, q) = LastText(S, q) /\ S.answer[q] # 0
        BY <1>4, <1>5, <2>1, <3>1, <3>5
      <4>2. Due(ls, LastText(S, q)) \/ (S.stateSeq = S.seq /\ Saved(S, LastText(S, q)))
        BY <1>13, <2>1, <4>1 DEF KeptInv, OwnFlags, Delivering, ls
      <4>3. Due(ls, LastText(S, q)) => Due(Left(R, "none"), LastText(S, q))
        BY <3>2, <3>3 DEF Due, DueAt, ls
      <4>4. Saved(S, LastText(S, q)) => Saved(R, LastText(S, q))
        BY DEF Saved, InFailure, InChat, Enqueues
      <4> QED
        BY <4>1, <4>2, <4>3, <4>4 DEF Enqueues
    <3> QED
      BY <3>4, <3>5
  <2>2. \A q \in Opened(S) :
          /\ S.stateSeq = S.seq => ~S.attempted /\ ~S.delivered
          /\ S.thread["chain"].at # "none" => S.stateSeq = S.seq
          /\ S.thread["chain"].at \in {"send", "end"} => ~S.armed
    BY <1>13 DEF KeptInv, OwnFlags
  <2>3. \A q \in Opened(S) : S.thread["chain"].at # "plain"
    BY <1>13 DEF Finalizing
  <2> QED
    BY <1>6, <1>12, <1>13, <2>1, <2>2, <2>3 DEF OwnFlags, Delivering, Enqueues
<1>15. ChainAt(R)
  BY <1>2, <1>12 DEF KeptInv, ChainAt, Enqueues, es
<1> QED
  BY <1>7, <1>8, <1>9, <1>10, <1>11, <1>14, <1>15 DEF KeptInv, Ledger, Enqueues

LEMMA EmitKeeps ==
  ASSUME KeptInv(output), OutInv(output), Out!Emit
  PROVE  KeptInv(output')
<1> DEFINE S == output
<1>1. PICK k \in {"partial", "final"} :
        /\ output' = [S EXCEPT !.emitted = @ + 1,
             !.answer[S.query] = IF k = "final" THEN S.emitted + 1 ELSE @,
             !.events = Append(@, [query |-> S.query, nth |-> S.emitted + 1, kind |-> k])]
        /\ S.alive /\ S.working
  BY DEF Out!Emit
<1> DEFINE o == [query |-> S.query, nth |-> S.emitted + 1, kind |-> k]
<1>2. /\ o \in OutputRecords /\ o.query = S.query /\ IsOutput(o) /\ o.kind = k
      /\ o.nth = S.emitted + 1
  BY DEF OutInv, OutTypes, OutputRecords, IsOutput
<1> HIDE DEF o
<1>3. /\ FollowShape(S) /\ S.query \in DOMAIN S.answer
      /\ S.resolved = "error" => ~S.alive
  BY DEF KeptInv, Ledger, FollowTypes, FirstTurn
<1>4. output' = [S EXCEPT !.emitted = S.emitted + 1,
                   !.answer = [S.answer EXCEPT ![S.query] =
                                 IF k = "final" THEN S.emitted + 1 ELSE S.answer[S.query]],
                   !.events = Append(S.events, o)]
  BY <1>1 DEF o
<1>5. /\ FollowShape(output')
      /\ output'.answer = [S.answer EXCEPT ![S.query] =
                             IF k = "final" THEN S.emitted + 1 ELSE S.answer[S.query]]
      /\ output'.events = Append(S.events, o)
      /\ output'.chat = S.chat /\ output'.thread = S.thread
  BY <1>3, <1>4 DEF FollowShape, OutShape, OutFields, FollowFields
<1>6. LET R == output' IN
      /\ R.cursor = S.cursor /\ R.turnCursor = S.turnCursor /\ R.seq = S.seq
      /\ R.query = S.query /\ R.turnText = S.turnText /\ R.inbox = S.inbox
      /\ R.asked = S.asked /\ R.over = S.over /\ R.mixed = S.mixed
      /\ R.stateSeq = S.stateSeq /\ R.seen = S.seen /\ R.boundary = S.boundary
      /\ R.hadError = S.hadError /\ R.handled = S.handled
      /\ R.sent = S.sent /\ R.delivered = S.delivered /\ R.attempted = S.attempted
      /\ R.armed = S.armed /\ R.buffer = S.buffer
      /\ R.failed = S.failed /\ R.failure = S.failure
      /\ R.handle = S.handle /\ R.streams = S.streams
      /\ R.alive = S.alive /\ R.working = S.working /\ R.resolved = S.resolved
  BY <1>3, <1>4 DEF FollowShape, OutFields, FollowFields
<1>7. Enqueues(S, output', o)
  BY <1>1, <1>2, <1>3, <1>5, <1>6 DEF Enqueues
<1> QED
  BY <1>7, EnqueuesKeep

LEMMA CompleteIsKept ==
  ASSUME KeptInv(output), OutInv(output), Out!Complete
  PROVE  KeptInv(output')
<1> DEFINE S == output
<1>1. PICK k \in {"complete", "error"} :
        /\ output' = Out!Resolve([S EXCEPT !.working = FALSE, !.alive = k = "complete",
                     !.events = Append(@, [query |-> S.query, nth |-> 0, kind |-> k])],
                  IF k = "complete" THEN "success" ELSE "error")
        /\ S.alive /\ S.working
  BY DEF Out!Complete
<1> DEFINE o == [query |-> S.query, nth |-> 0, kind |-> k]
           R == [S EXCEPT !.working = FALSE, !.alive = k = "complete",
                          !.events = Append(@, o)]
           how == IF k = "complete" THEN "success" ELSE "error"
<1>2. (output' = R \/ output' = [R EXCEPT !.resolved = how])
      /\ (output' = R => R.resolved # "none")
  BY <1>1 DEF Out!Resolve, KeptInv, FollowShape, FollowFields
<1>3. o \in OutputRecords /\ o.query = S.query /\ ~IsOutput(o) /\ o.kind = k
  BY DEF OutInv, OutTypes, OutputRecords, IsOutput
<1>4. /\ FollowShape(S)
      /\ S.resolved = "error" => ~S.alive
  BY DEF KeptInv, Ledger, FirstTurn
<1> HIDE DEF o
<1>5. /\ Enqueues(S, R, o) /\ R.alive = (k = "complete")
  BY <1>1, <1>3, <1>4 DEF Enqueues, FollowShape, OutShape, OutFields, FollowFields
<1> HIDE DEF R
<1>6. Enqueues(S, [R EXCEPT !.resolved = how], o)
  BY <1>5 DEF Enqueues, FollowShape, OutShape, OutFields, FollowFields
<1> QED
  BY <1>2, <1>5, <1>6, EnqueuesKeep

LEMMA StillKeeps ==
  ASSUME NEW S, NEW R, KeptInv(S), Still(S, R)
  PROVE  KeptInv(R)
<1>1. /\ Clean(R) = Clean(S) /\ Opened(R) = Opened(S) /\ (Nobody(R) <=> Nobody(S))
      /\ \A q : LastText(R, q) = LastText(S, q)
      /\ Finalizing(R) <=> Finalizing(S)
      /\ Left(R, "none") = Left(S, "none")
  BY DEF Still, Clean, Opened, Nobody, LastText, Finalizing, Left
<1>2. \A x : (InChat(S, x) => InChat(R, x)) /\ (Saved(S, x) => Saved(R, x))
             /\ (Tried(S, x) => Tried(R, x))
  BY DEF Still, Saved, Tried, InFailure, InChat
<1>3. FollowTypes(R) /\ QueueInv(R) /\ Answers(R)
  BY <1>1 DEF Still, KeptInv, Ledger, FollowTypes, QueueInv, Answers
<1>4. TailFirst(R) /\ NextClean(R) /\ OneOpen(R)
  BY <1>1 DEF Still, KeptInv, Ledger, TailFirst, NextClean, OneOpen
<1>5. RollsBack(R) /\ FirstTurn(R)
  BY <1>1 DEF Still, KeptInv, Ledger, RollsBack, FirstTurn
<1>6. OverKept(R)
  <2>1. \A q : AnsweredIn(S, q) => AnsweredIn(R, q)
    BY <1>1, <1>2 DEF Still, AnsweredIn
  <2>2. \A q : KeptIn(S, q) => KeptIn(R, q)
    BY DEF Still, KeptIn
  <2>3. Clean(R) \cap R.over = Clean(S) \cap S.over
    BY <1>1 DEF Still
  <2> QED
    BY <2>1, <2>2, <2>3 DEF KeptInv, Ledger, OverKept
<1>7. OwnFlags(R)
  <2>1. \A x : Delivering(S, x) => Delivering(R, x)
    BY <1>1, <1>2 DEF Still, Delivering
  <2> QED
    BY <1>1, <2>1 DEF Still, KeptInv, OwnFlags
<1>8. ChainAt(R)
  BY <1>1 DEF Still, KeptInv, ChainAt
<1> QED
  BY <1>3, <1>4, <1>5, <1>6, <1>7, <1>8 DEF KeptInv, Ledger, Still

LEMMA DeathKeeps ==
  ASSUME KeptInv(output), OutInv(output), Out!Die
  PROVE  KeptInv(output')
<1> DEFINE S == output
           d == [S EXCEPT !.alive = FALSE, !.working = FALSE]
<1>1. output' = d \/ output' = [d EXCEPT !.resolved = "error"]
  BY DEF Out!Die, Out!Resolve
<1>2. FollowShape(S)
  BY DEF KeptInv
<1>3. Still(S, d) /\ ~d.alive
  BY <1>2 DEF Still, FollowShape, OutShape, OutFields, FollowFields
<1> HIDE DEF d
<1>4. Still(S, [d EXCEPT !.resolved = "error"])
  BY <1>3 DEF Still, FollowShape, OutShape, OutFields, FollowFields
<1> QED
  BY <1>1, <1>3, <1>4, StillKeeps

LEMMA DrainsKeep ==
  ASSUME KeptInv(output), OutInv(output), Out!Drains
  PROVE  KeptInv(output')
<1> DEFINE S == output
<1>1. PICK h \in DOMAIN S.streams :
        LET d == [S EXCEPT !.streams[h].draining = FALSE] IN
        output' = d \/ output' = Out!Fault([d EXCEPT !.streams[h].dead = TRUE])
  BY DEF Out!Drains
<1> DEFINE d == [S EXCEPT !.streams[h].draining = FALSE]
           e == [d EXCEPT !.streams[h].dead = TRUE]
<1>2. /\ FollowShape(S) /\ S.streams[h] \in StreamRecords
      /\ S.handle # 0 => S.handle \in DOMAIN S.streams
                         /\ S.streams[S.handle] \in StreamRecords
      /\ S.resolved = "error" => ~S.alive
  BY DEF KeptInv, OutInv, OutTypes, Ledger, FirstTurn
<1>3. /\ Still(S, d) /\ d.handle = S.handle /\ DOMAIN d.streams = DOMAIN S.streams
      /\ d.streams[h] \in StreamRecords
      /\ S.handle # 0 => d.streams[S.handle] \in StreamRecords
      /\ d.resolved = "error" => ~d.alive
  <2>1. /\ d.streams[h] \in StreamRecords
        /\ S.handle # 0 => d.streams[S.handle] \in StreamRecords
                           /\ d.streams[S.handle].ended = S.streams[S.handle].ended
        /\ DOMAIN d.streams = DOMAIN S.streams
    BY <1>2 DEF StreamRecords, FollowShape, OutShape, OutFields
  <2> QED
    BY <1>2, <2>1 DEF Still, FollowShape, OutShape, OutFields, FollowFields
<1> HIDE DEF d
<1>4. Still(S, e) /\ FollowShape(e)
  <2>1. S.handle # 0 => e.streams[S.handle].ended = d.streams[S.handle].ended
    BY <1>2, <1>3 DEF StreamRecords, Still, FollowShape, OutShape, OutFields
  <2> QED
    BY <1>3, <2>1 DEF Still, FollowShape, OutShape, OutFields, FollowFields
<1> HIDE DEF e
<1>5. Still(S, Out!Fault(e))
  BY <1>4 DEF Still, Out!Fault, FollowShape, OutShape, OutFields, FollowFields
<1> QED
  BY <1>1, <1>3, <1>5, StillKeeps DEF d, e

(* The next query takes what is in the inbox: it is clean only if nothing  *)
(* else is to be handled.                                                  *)
LEMMA AskKeeps ==
  ASSUME KeptInv(output), OutInv(output), Out!NextQuery
  PROVE  KeptInv(output')
<1> DEFINE S == output
           R == output'
           next == S.query + 1
<1>1. /\ S.alive /\ ~S.working /\ S.inbox # {} /\ S.query < MaxQueries
      /\ R = [S EXCEPT !.working = TRUE, !.query = @ + 1, !.emitted = 0, !.inbox = {},
                       !.asked[S.query + 1] = S.inbox]
  BY DEF Out!NextQuery
<1>2. /\ FollowShape(S) /\ S.query \in 1..MaxQueries /\ MaxQueries \in Nat
      /\ next \in 1..MaxQueries /\ DOMAIN S.asked = 1..MaxQueries
  BY <1>1, OutputAssumption DEF KeptInv, Ledger, FollowTypes
<1>3. /\ FollowShape(R) /\ R.chat = S.chat /\ R.thread = S.thread
      /\ R.working = TRUE /\ R.query = next /\ R.inbox = {}
  BY <1>1, <1>2 DEF FollowShape, OutShape, OutFields, FollowFields
<1>4. /\ DOMAIN R.asked = 1..MaxQueries /\ R.asked[next] = S.inbox
      /\ \A q \in 1..MaxQueries : q # next => R.asked[q] = S.asked[q]
  BY <1>1, <1>2 DEF FollowShape, OutFields, FollowFields
<1>5. /\ R.cursor = S.cursor /\ R.turnCursor = S.turnCursor /\ R.seq = S.seq
      /\ R.turnText = S.turnText /\ R.answer = S.answer /\ R.over = S.over
      /\ R.mixed = S.mixed /\ R.events = S.events /\ R.alive = S.alive
      /\ R.resolved = S.resolved
      /\ R.stateSeq = S.stateSeq /\ R.seen = S.seen /\ R.boundary = S.boundary
      /\ R.hadError = S.hadError /\ R.handled = S.handled
      /\ R.delivered = S.delivered /\ R.sent = S.sent /\ R.attempted = S.attempted
      /\ R.armed = S.armed /\ R.handle = S.handle /\ R.streams = S.streams
  BY <1>1, <1>2 DEF FollowShape, OutFields, FollowFields
<1> HIDE DEF R, next
<1>6. /\ Clean(R) = IF next \in S.mixed THEN Clean(S) ELSE Clean(S) \cup {next}
      /\ next \notin S.over /\ next \notin Clean(S)
      /\ S.over \subseteq 1..S.query
      /\ \A q : LastText(R, q) = LastText(S, q)
  <2>1. S.over \subseteq 1..S.query
    BY DEF KeptInv, Ledger, QueueInv
  <2>2. next = S.query + 1 /\ S.query \in Nat /\ S.query >= 1
    BY <1>2 DEF next
  <2> QED
    BY <1>3, <1>5, <2>1, <2>2 DEF Clean, LastText
<1>7. Opened(S) = {}
  BY <1>1 DEF KeptInv, Ledger, OneOpen
<1>8. \A q \in Opened(R) : q = next /\ next \notin S.mixed
  BY <1>5, <1>6, <1>7 DEF Opened
<1>9. next \notin S.mixed =>
        /\ Nobody(S) /\ S.inbox \subseteq S.turnText
        /\ S.turnCursor # -1 /\ S.stateSeq < S.seq
  BY <1>1, <1>2 DEF KeptInv, Ledger, NextClean, next
<1>10. FollowTypes(R)
  <2>1. \A q \in 1..MaxQueries : q > next => R.answer[q] = 0 /\ R.asked[q] = {}
    <3>1. \A q \in 1..MaxQueries : q > next => q > S.query /\ q # next
      BY <1>2 DEF next
    <3>2. \A q \in 1..MaxQueries : q > S.query => S.answer[q] = 0 /\ S.asked[q] = {}
      BY DEF KeptInv, Ledger, FollowTypes
    <3> QED
      BY <1>4, <1>5, <3>1, <3>2
  <2>2. \A q \in 1..MaxQueries : R.asked[q] \subseteq Nat
    BY <1>2, <1>4 DEF KeptInv, Ledger, FollowTypes
  <2> QED
    BY <1>2, <1>3, <1>4, <1>5, <2>1, <2>2 DEF KeptInv, Ledger, FollowTypes
<1>11. QueueInv(R) /\ Answers(R)
  <2>1. \A i \in DOMAIN R.events : R.events[i].query \in (1..S.query) \ R.over
    BY <1>5 DEF KeptInv, Ledger, QueueInv
  <2>2. \A q \in 1..S.query : q \in 1..next /\ q # next
    BY <1>2 DEF next
  <2>3. QueueInv(R)
    BY <1>3, <1>5, <1>6, <2>1, <2>2 DEF KeptInv, Ledger, QueueInv
  <2> QED
    BY <1>5, <1>6, <2>3 DEF KeptInv, Ledger, Answers
<1>12. TailFirst(R) /\ NextClean(R)
  BY <1>1, <1>2, <1>3, <1>5, <1>6 DEF KeptInv, Ledger, TailFirst, NextClean, next
<1>13. OneOpen(R)
  <2>1. 1..(next - 1) = 1..S.query
    BY <1>2 DEF next
  <2>2. S.stateSeq < S.seq => S.seq > 1 /\ S.stateSeq # S.seq
    BY DEF KeptInv, Ledger, FollowTypes
  <2> SUFFICES ASSUME NEW q \in Opened(R)
               PROVE  /\ q = next /\ R.inbox = {} /\ 1..(q - 1) \subseteq R.over
                      /\ R.turnCursor # -1 /\ R.asked[q] \subseteq R.turnText
                      /\ R.asked[q] # {} /\ R.seq > 1 /\ R.stateSeq # R.seq
    BY <1>3 DEF OneOpen
  <2>3. q = next /\ Nobody(S) /\ S.inbox \subseteq S.turnText
        /\ S.turnCursor # -1 /\ S.stateSeq < S.seq
    BY <1>8, <1>9
  <2>4. R.asked[q] = S.inbox
    BY <1>4, <2>3
  <2> QED
    BY <1>1, <1>3, <1>5, <2>1, <2>2, <2>3, <2>4 DEF Nobody
<1>14. RollsBack(R)
  BY <1>1, <1>5 DEF KeptInv, Ledger, RollsBack
<1>15. FirstTurn(R)
  BY <1>1, <1>5 DEF KeptInv, Ledger, FirstTurn
<1>16. OverKept(R)
  <2> SUFFICES ASSUME NEW q \in Clean(R) \cap R.over
               PROVE  AnsweredIn(R, q) \/ KeptIn(R, q)
    BY DEF OverKept
  <2>1. q \in Clean(S) \cap S.over /\ q \in 1..S.query
    BY <1>5, <1>6
  <2>2. AnsweredIn(S, q) \/ KeptIn(S, q)
    BY <2>1 DEF KeptInv, Ledger, OverKept
  <2>3. AnsweredIn(S, q) => AnsweredIn(R, q)
    BY <1>3, <1>5, <1>6 DEF AnsweredIn, InChat
  <2>4. ASSUME KeptIn(S, q), NEW m \in R.asked[q]
        PROVE  \/ m > R.cursor \/ m \in R.inbox
               \/ \E p \in 1..MaxQueries : p > q /\ m \in R.asked[p]
    <3>1. q \in 1..MaxQueries /\ q # next /\ next > q
      BY <1>2, <2>1 DEF next
    <3>2. m \in S.asked[q]
      BY <1>4, <2>4, <3>1
    <3>3. CASE m > S.cursor
      BY <1>5, <3>3
    <3>4. CASE m \in S.inbox
      BY <1>2, <1>4, <3>1, <3>4
    <3>5. ASSUME NEW p \in 1..MaxQueries, p > q, m \in S.asked[p]
          PROVE  p > q /\ m \in R.asked[p]
      <4>1. S.asked[next] = {}
        <5>1. next \in 1..MaxQueries /\ next > S.query
          BY <1>2 DEF next
        <5> QED
          BY <5>1 DEF KeptInv, Ledger, FollowTypes
      <4> QED
        BY <1>4, <3>5, <4>1
    <3> QED
      BY <2>4, <3>2, <3>3, <3>4, <3>5 DEF KeptIn
  <2> QED
    BY <2>2, <2>3, <2>4 DEF KeptIn
<1>17. Finalizing(R) <=> Finalizing(S)
  BY <1>3 DEF Finalizing
<1>18. ChainAt(R)
  BY <1>3, <1>5, <1>17 DEF KeptInv, ChainAt
<1>19. OwnFlags(R)
  <2> SUFFICES ASSUME NEW q \in Opened(R)
               PROVE  /\ R.thread["chain"].at = "none" /\ R.stateSeq # R.seq
                      /\ R.answer[q] = 0
    BY DEF OwnFlags, Finalizing
  <2>1. q = next /\ Nobody(S) /\ S.stateSeq < S.seq
    BY <1>8, <1>9
  <2>2. S.events = <<>>
    <3>1. \A i \in DOMAIN S.events : FALSE
      BY <2>1 DEF KeptInv, Ledger, QueueInv, Nobody
    <3>2. S.events \in Seq(OutputRecords)
      BY DEF OutInv, OutTypes
    <3> QED
      BY <3>1, <3>2, TailFacts
  <2>3. S.thread["chain"].at = "none"
    BY <2>2 DEF KeptInv, ChainAt
  <2>4. S.answer[q] = 0
    BY <1>2, <2>1 DEF KeptInv, Ledger, FollowTypes, next
  <2>5. S.stateSeq # S.seq
    BY <2>1 DEF KeptInv, Ledger, FollowTypes
  <2> QED
    BY <1>3, <1>5, <2>3, <2>4, <2>5
<1> QED
  BY <1>3, <1>10, <1>11, <1>12, <1>13, <1>14, <1>15, <1>16, <1>18, <1>19
     DEF KeptInv, Ledger, R

LEMMA PipePipes ==
  ASSUME KeptInv(output), Out!Pipe
  PROVE  /\ output.alive
         /\ \E m \in Nat : m > output.cursor /\ Pipes(output, output', m)
<1> DEFINE S == output
<1>1. PICK m \in Out!Messages :
        /\ m > S.cursor
        /\ output' = [Out!Write(S, (S.cursor + 1)..m, Out!Unhandled(S)) EXCEPT
                        !.turnCursor = IF @ = Out!Null THEN S.cursor ELSE @, !.cursor = m]
  BY DEF Out!Pipe
<1> DEFINE W == Out!Write(S, (S.cursor + 1)..m, Out!Unhandled(S))
           c == IF W.turnCursor = -1 THEN S.cursor ELSE W.turnCursor
           R == [W EXCEPT !.turnCursor = c, !.cursor = m]
<1>2. output' = R
  BY <1>1 DEF Out!Null
<1>3. FollowShape(S)
  BY DEF KeptInv
<1>4. /\ W.inbox = S.inbox \cup (S.cursor + 1)..m /\ W.seq = S.seq + 1
      /\ W.turnText = S.turnText \cup (S.cursor + 1)..m
      /\ W.mixed = IF Out!Unhandled(S) = {} /\ S.thread["tail"].at = "over" THEN S.mixed
                   ELSE S.mixed \cup Out!Unhandled(S) \cup ({S.query + 1} \cap 1..MaxQueries)
  BY <1>3 DEF Out!Write, Out!Queries, FollowShape, OutFields, FollowFields
<1>5. /\ FollowShape(W) /\ W.chat = S.chat /\ W.thread = S.thread
      /\ W.turnCursor = S.turnCursor
      /\ W.query = S.query /\ W.asked = S.asked /\ W.answer = S.answer /\ W.over = S.over
      /\ W.events = S.events /\ W.alive = S.alive /\ W.working = S.working
      /\ W.resolved = S.resolved
      /\ W.stateSeq = S.stateSeq /\ W.seen = S.seen /\ W.boundary = S.boundary
      /\ W.hadError = S.hadError /\ W.delivered = S.delivered /\ W.sent = S.sent
      /\ W.handle = S.handle /\ W.streams = S.streams
  BY <1>3 DEF Out!Write, FollowShape, OutShape, OutFields, FollowFields
<1> HIDE DEF W
<1>6. /\ FollowShape(R) /\ R.turnCursor = c /\ R.cursor = m
      /\ R.chat = W.chat /\ R.thread = W.thread
      /\ R.inbox = W.inbox /\ R.seq = W.seq /\ R.turnText = W.turnText /\ R.mixed = W.mixed
      /\ R.query = W.query /\ R.asked = W.asked /\ R.answer = W.answer /\ R.over = W.over
      /\ R.events = W.events /\ R.alive = W.alive /\ R.working = W.working
      /\ R.resolved = W.resolved
      /\ R.stateSeq = W.stateSeq /\ R.seen = W.seen /\ R.boundary = W.boundary
      /\ R.hadError = W.hadError /\ R.delivered = W.delivered /\ R.sent = W.sent
      /\ R.handle = W.handle /\ R.streams = W.streams
  BY <1>5 DEF FollowShape, OutShape, OutFields, FollowFields
<1>7. c = IF S.turnCursor = -1 THEN S.cursor ELSE S.turnCursor
  BY <1>5
<1> HIDE DEF R, c
<1>8. Pipes(S, R, m)
  BY <1>4, <1>5, <1>6, <1>7 DEF Pipes
<1>9. m \in Nat
  BY OutputAssumption DEF Out!Messages
<1> QED
  BY <1>1, <1>2, <1>8, <1>9 DEF Out!Pipe

LEMMA PipingKeeps ==
  ASSUME NEW S, NEW R, NEW m \in Nat, KeptInv(S), S.alive, m > S.cursor, Pipes(S, R, m)
  PROVE  KeptInv(R)
<1>1. /\ FollowTypes(S) /\ S.cursor \in Nat /\ S.turnCursor \in Nat \cup {-1}
      /\ S.seq \in Nat /\ S.stateSeq \in Nat /\ S.stateSeq >= 1 /\ S.stateSeq <= S.seq
      /\ S.query \in Nat
  BY DEF KeptInv, Ledger, FollowTypes
<1> DEFINE ms == (S.cursor + 1)..m
<1>2. \A n \in ms : n \in Nat /\ n > S.cursor
  BY <1>1
<1>3. \A n \in Nat : n > S.cursor => n > m \/ n \in ms
  BY <1>1
<1>4. R.inbox = S.inbox \cup ms /\ R.turnText = S.turnText \cup ms
  BY DEF Pipes
<1> HIDE DEF ms
<1>5. /\ Clean(R) \subseteq Clean(S) /\ S.mixed \subseteq R.mixed
      /\ \A q : LastText(R, q) = LastText(S, q)
  BY DEF Pipes, Clean, LastText
<1>6. ASSUME NEW q \in Opened(R) PROVE FALSE
  <2>1. q \in Out!Unhandled(S) /\ q \notin R.mixed
    BY <1>1 DEF Opened, Clean, Out!Unhandled, Pipes
  <2> QED
    BY <2>1 DEF Pipes
<1>7. FollowTypes(R)
  BY <1>1, <1>2, <1>4 DEF FollowTypes, Pipes
<1>8. QueueInv(R) /\ Answers(R)
  BY <1>5 DEF KeptInv, Ledger, QueueInv, Answers, Pipes
<1>9. TailFirst(R)
  BY <1>5 DEF KeptInv, Ledger, TailFirst, Pipes
<1>10. NextClean(R)
  <2> SUFFICES ASSUME R.query + 1 \in (1..MaxQueries) \ R.mixed
               PROVE  /\ Nobody(R) /\ R.inbox \subseteq R.turnText
                      /\ R.turnCursor # -1 /\ R.stateSeq < R.seq
    BY DEF NextClean
  <2>1. Out!Unhandled(S) = {} /\ S.query + 1 \in (1..MaxQueries) \ S.mixed
    BY DEF Pipes
  <2>2. Nobody(R)
    BY <2>1 DEF Nobody, Out!Unhandled, Pipes
  <2>3. S.inbox \subseteq S.turnText
    BY <2>1 DEF KeptInv, Ledger, NextClean
  <2>4. R.turnCursor # -1 /\ R.stateSeq < R.seq
    BY <1>1 DEF Pipes
  <2> QED
    BY <1>4, <2>2, <2>3, <2>4
<1>11. OneOpen(R)
  BY <1>6 DEF OneOpen
<1>12. RollsBack(R)
  <2>1. S.turnCursor # -1 =>
          S.turnCursor <= S.cursor /\ \A n \in S.turnText : n > S.turnCursor
    BY DEF KeptInv, Ledger, RollsBack
  <2>2. S.turnCursor = -1 => S.turnText = {}
    BY DEF KeptInv, Ledger, RollsBack
  <2>3. /\ R.turnCursor = IF S.turnCursor = -1 THEN S.cursor ELSE S.turnCursor
        /\ R.cursor = m
    BY DEF Pipes
  <2> QED
    BY <1>1, <1>2, <1>4, <2>1, <2>2, <2>3 DEF RollsBack
<1>13. FirstTurn(R)
  BY <1>1 DEF KeptInv, Ledger, FirstTurn, Pipes
<1>14. OverKept(R)
  <2> SUFFICES ASSUME NEW q \in Clean(R) \cap R.over
               PROVE  AnsweredIn(R, q) \/ KeptIn(R, q)
    BY DEF OverKept
  <2>1. AnsweredIn(S, q) \/ KeptIn(S, q)
    BY <1>5 DEF KeptInv, Ledger, OverKept, Pipes
  <2>2. AnsweredIn(S, q) => AnsweredIn(R, q)
    BY <1>5 DEF AnsweredIn, InChat, Pipes
  <2>3. q \in 1..MaxQueries
    BY <1>1, OutputAssumption DEF Clean, FollowTypes, Pipes
  <2>4. S.asked[q] \subseteq Nat
    BY <1>1, <2>3 DEF FollowTypes
  <2>5. R.cursor = m /\ R.asked = S.asked
    BY DEF Pipes
  <2>6. KeptIn(S, q) => KeptIn(R, q)
    BY <1>3, <1>4, <2>4, <2>5 DEF KeptIn
  <2> QED
    BY <2>1, <2>2, <2>6
<1>15. OwnFlags(R)
  BY <1>6 DEF OwnFlags
<1>16. ChainAt(R)
  BY DEF KeptInv, ChainAt, Finalizing, Pipes
<1> QED
  BY <1>7, <1>8, <1>9, <1>10, <1>11, <1>12, <1>13, <1>14, <1>15, <1>16
     DEF KeptInv, Ledger, Pipes

LEMMA FollowStart ==
  ASSUME Out!Init
  PROVE  FollowInv(output)
<1> DEFINE S == output
<1>1. /\ OutFields \cup FollowFields \subseteq DOMAIN S
      /\ S.chat = <<>> /\ S.events = <<>> /\ S.handle = 0 /\ S.query = 1
      /\ S.over = {} /\ S.mixed = {} /\ S.inbox = {} /\ S.turnText = {}
      /\ S.seq = 1 /\ S.stateSeq = 1 /\ S.seen = 1 /\ S.turnCursor = 0 /\ S.cursor = 1
      /\ S.alive = TRUE /\ S.hadError = FALSE /\ S.delivered = FALSE
      /\ S.boundary = FALSE /\ S.resolved = "none"
      /\ S.thread = [t \in Out!Threads |-> Out!Resting]
      /\ S.asked = [q \in Out!Queries |-> IF q = 1 THEN {1} ELSE {}]
      /\ S.answer = [q \in Out!Queries |-> 0]
  BY DEF Out!Init, OutFields, FollowFields
<1>2. /\ S.thread["chain"].at = "none" /\ Out!Threads \subseteq DOMAIN S.thread
      /\ \A u \in Out!Threads : ThreadFields \subseteq DOMAIN S.thread[u]
  BY <1>1 DEF Out!Threads, Out!Resting, ThreadFields
<1>3. Clean(S) = {} /\ Opened(S) = {}
  BY <1>1 DEF Clean, Opened
<1>4. FollowShape(S)
  BY <1>1, <1>2 DEF FollowShape, OutShape
<1>5. FollowTypes(S)
  BY <1>1, OutputAssumption DEF FollowTypes, Out!Queries
<1>6. QueueInv(S) /\ Answers(S)
  BY <1>1 DEF QueueInv, Answers
<1>7. TailFirst(S) /\ NextClean(S) /\ OneOpen(S) /\ OverKept(S)
  BY <1>1, <1>3 DEF TailFirst, NextClean, OneOpen, OverKept
<1>8. RollsBack(S) /\ FirstTurn(S)
  BY <1>1 DEF RollsBack, FirstTurn
<1>9. OwnFlags(S) /\ ChainAt(S)
  BY <1>1, <1>2, <1>3 DEF OwnFlags, ChainAt
<1> QED
  BY <1>4, <1>5, <1>6, <1>7, <1>8, <1>9, IdsStart DEF FollowInv, KeptInv, Ledger

LEMMA NativeKeeps ==
  ASSUME Native(output), output.channel = "native", KeptInv(output), Out!Next
  PROVE  KeptInv(output')
<1>1. OutInv(output) /\ NoEdits(output)
  BY DEF Native
<1>2. CASE Out!Begin
  BY <1>1, <1>2, BeginKeeps
<1>3. CASE Out!TypingOff
  BY <1>1, <1>3, FinalKeeps DEF Out!TypingOff
<1>4. CASE Out!TypingOn \/ Out!StreamOpens
  BY <1>1, <1>4, TypingOnKeeps, OpensKeep
<1>5. CASE Out!Sent
  BY <1>5, SentKeeps
<1>6. ~Out!Edited
  BY <1>1 DEF NoEdits, Out!Edited
<1>7. ASSUME NEW t \in Out!Threads, Out!Ended(t) \/ Out!PlainSent(t) \/ Out!Drained(t)
      PROVE  KeptInv(output')
  BY <1>1, <1>7, EndedKeeps, PlainSentKeeps, BoundaryKeeps
<1>8. CASE Out!RunReturns \/ Out!Decide
  BY <1>1, <1>8, TailKeeps
<1>9. CASE Out!Emit \/ Out!Complete \/ Out!Die
  BY <1>1, <1>9, EmitKeeps, CompleteIsKept, DeathKeeps
<1>10. CASE Out!NextQuery \/ Out!Drains
  BY <1>1, <1>10, AskKeeps, DrainsKeep
<1>11. CASE Out!Pipe
  BY <1>11, PipePipes, PipingKeeps
<1> QED
  BY <1>2, <1>3, <1>4, <1>5, <1>6, <1>7, <1>8, <1>9, <1>10, <1>11 DEF Out!Next

LEMMA FollowStep ==
  ASSUME FollowInv(output), [Out!Next]_output
  PROVE  FollowInv(output')
<1>1. CASE UNCHANGED output
  BY <1>1 DEF FollowInv
<1>2. CASE Out!Next
  <2>1. IdsInv(output) /\ IdsInv(output')
    BY <1>2, IdsStep DEF FollowInv
  <2>2. CASE output.channel = "edits"
    <3>1. EditsInv(output) /\ OutInv(output)
      BY <2>1, <2>2 DEF IdsInv
    <3>2. output'.channel = "edits"
      BY <1>2, <2>1, <2>2, <3>1, OutSteps, EditsSteps DEF IdsInv
    <3> QED
      BY <2>1, <3>2 DEF FollowInv
  <2>3. CASE output.channel # "edits"
    <3>1. Native(output)
      BY <2>1, <2>3 DEF IdsInv, Native
    <3>2. output'.channel = output.channel
      BY <1>2, <3>1, NativeSteps DEF Unedited
    <3> QED
      BY <1>2, <2>1, <3>1, <3>2, NativeKeeps DEF FollowInv
  <2> QED
    BY <2>2, <2>3
<1> QED
  BY <1>1, <1>2

LEMMA FollowTells ==
  ASSUME FollowInv(output)
  PROVE  FollowUpKept
<1> DEFINE S == output
<1> SUFFICES ASSUME S.channel = "native", NEW q \in S.over \ (S.mixed \cup {1})
             PROVE  Out!Answered(q) \/ Out!Kept(q)
  BY DEF FollowUpKept, Out!FollowUpKept
<1>1. KeptInv(S)
  BY DEF FollowInv
<1>2. q \in Clean(S) \cap S.over
  BY <1>1 DEF KeptInv, Ledger, QueueInv, FollowTypes, Clean
<1>3. AnsweredIn(S, q) \/ KeptIn(S, q)
  BY <1>1, <1>2 DEF KeptInv, Ledger, OverKept
<1>4. AnsweredIn(S, q) => Out!Answered(q)
  BY DEF AnsweredIn, InChat, LastText, Out!Answered, Out!Shown
<1>5. KeptIn(S, q) => Out!Kept(q)
  BY DEF KeptIn, Out!Kept, Out!Queries
<1> QED
  BY <1>3, <1>4, <1>5

(* A follow-up to which no message was added while it ran is answered, or  *)
(* its messages are kept to be read again, once its query-complete has     *)
(* been handled: in any behaviour of TurnOutput, for every number of       *)
(* queries, outputs, messages and faults.  finalizeNativeStreamTerminal    *)
(* fails a turn whose text it could not send, and the cursor goes back     *)
(* (src/index.ts:631-645, src/group-queue.ts:507-535).                     *)
THEOREM OutputFollowUpKept == Out!Spec => []FollowUpKept
<1>1. Out!Init => FollowInv(output)
  BY FollowStart
<1>2. FollowInv(output) /\ [Out!Next]_output => FollowInv(output)'
  BY FollowStep
<1>3. FollowInv(output) => FollowUpKept
  BY FollowTells
<1> QED
  BY <1>1, <1>2, <1>3, PTL DEF Out!Spec

(* The same beside the messages of ChatTurns.                              *)
THEOREM TurnsFollowUpKept == TurnsSpec => []FollowUpKept
<1>1. TurnsInit => FollowInv(output)
  BY FollowStart DEF TurnsInit
<1>2. [TurnsNext]_allVars => [Out!Next]_output
  BY DEF TurnsNext, OfMessages, allVars
<1>3. FollowInv(output) /\ [TurnsNext]_allVars => FollowInv(output)'
  BY <1>2, FollowStep
<1>4. FollowInv(output) => FollowUpKept
  BY FollowTells
<1> QED
  BY <1>1, <1>3, <1>4, PTL DEF TurnsSpec
=============================================================================
