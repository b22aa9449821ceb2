------------------------------ MODULE ChatTurns ------------------------------
(***************************************************************************)
(* The life of the messages of one chat in src/index.ts: stored in the     *)
(* database, seen by the message loop, piped into a running agent or       *)
(* fetched by processGroupMessages, answered; and the two cursors, rolled  *)
(* back when an agent dies or a run fails.  A message is its timestamp:    *)
(* 1, 2, 3...  The chat belongs to the default agent, so every message     *)
(* triggers, and its slot (src/group-queue.ts) never waits for capacity.   *)
(*                                                                         *)
(* A run is a call of processGroupMessages with the agent it spawns.  The  *)
(* code yields between fetching messages and moving the cursor, and so do  *)
(* the actions.                                                            *)
(***************************************************************************)
EXTENDS Integers, FiniteSets, FiniteSetsExt

CONSTANTS
  MaxMessages,   \* bound: messages that arrive
  Runs,          \* bound: runs whose agents may coexist
  MaxRetries,    \* MAX_RETRIES
  Worlds,        \* what may go wrong: a behaviour is of one of them
  NoRun          \* the null of state.process

(* Bounds of the daemon's restarts and the agents' deaths; may a message   *)
(* be a slash command, a write into the IPC directory fail, a run start    *)
(* beside another one or its live agent?                                   *)
WorldStates ==
  [ restarts : Nat, deaths : Nat,
    commands : BOOLEAN, writesFail : BOOLEAN, overlap : BOOLEAN ]

ASSUME ChatAssumption ==
  /\ {MaxMessages, MaxRetries} \subseteq Nat
  /\ Worlds \subseteq WorldStates
  /\ NoRun \notin Runs

VARIABLE chat

Messages == 1..MaxMessages
Cursors == 0..MaxMessages      \* 0: the empty string, falsy in every test

(* A run has "fetched" its batch, has "prompted" (the cursor is moved and  *)
(* the agent about to be spawned), its first "query" is awaited, it has    *)
(* "returned" from runAgent; then its agent is "serving".                  *)
RunStates ==
  [ phase    : {"free", "fetched", "prompted", "query", "returned", "serving"},
    direct   : BOOLEAN,             \* started by the idle branch of drainGroup
    batch    : SUBSET Messages,     \* fetched from the database
    previous : Cursors,             \* previousCursor
    sent     : BOOLEAN,             \* outputSentToUser in the first turn
    life     : {"none", "live", "coded", "signalled"},
    query    : SUBSET Messages,     \* what the agent works on
    queued   : SUBSET Messages ]    \* read from the inbox for the next query

Unused ==
  [ phase |-> "free", direct |-> FALSE, batch |-> {}, previous |-> 0,
    sent |-> FALSE, life |-> "none", query |-> {}, queued |-> {} ]

ChatStates ==
  [ world     : Worlds,
    stored    : Cursors,            \* messages 1..stored are in the database
    commands  : SUBSET Messages,
    seen      : Cursors,            \* lastTimestamp
    cursor    : Cursors,            \* lastAgentTimestamp
    held      : SUBSET Messages,    \* what the loop is about to pipe
    before    : Cursors,            \* ... and its cursorBeforePipe
    active    : BOOLEAN,
    idle      : BOOLEAN,
    pending   : BOOLEAN,
    piped     : BOOLEAN,            \* pipedSinceOutput > 0
    hasOutput : BOOLEAN,
    inFlight  : Cursors,            \* inFlightCursorRollback
    process   : Runs \cup {NoRun},
    retries   : 0..MaxRetries,
    timers    : Nat,                \* backoff timers that are armed
    inbox     : SUBSET Messages,    \* files in the IPC input directory
    run       : [Runs -> RunStates],
    restarts  : Nat,
    deaths    : Nat,
    handed    : SUBSET Messages,    \* ghost: given to an agent, not rolled back
    prompted  : SUBSET Messages,    \* ghost: ... in the prompt of a run
    answered  : SUBSET Messages,    \* ghost: their query is over
    runless   : BOOLEAN ]           \* a start beyond Runs or against Overlap

Fresh(world) ==
  [ world |-> world, stored |-> 0, commands |-> {}, seen |-> 0, cursor |-> 0, held |-> {},
    before |-> 0, active |-> FALSE, idle |-> FALSE, pending |-> FALSE,
    piped |-> FALSE, hasOutput |-> FALSE, inFlight |-> 0, process |-> NoRun,
    retries |-> 0, timers |-> 0, inbox |-> {},
    run |-> [r \in Runs |-> Unused], restarts |-> 0, deaths |-> 0,
    handed |-> {}, prompted |-> {}, answered |-> {}, runless |-> FALSE ]

Init == \E world \in Worlds : chat = Fresh(world)

-----------------------------------------------------------------------------
(* getMessagesSince                                                        *)
Since(c, k) == {m \in 1..c.stored : m > k}

(* The cursor after the slash commands of a batch were handled in order.   *)
PastCommands(c, batch) ==
  IF batch \cap c.commands = {} THEN c.cursor ELSE Max(batch \cap c.commands)

Texts(c, batch) == batch \ c.commands

Hand(c, S) == [c EXCEPT !.handed = @ \cup S]

RollBack(c, k) ==
  [c EXCEPT !.cursor = k, !.handed = @ \ Since(c, k),
                          !.prompted = @ \ Since(c, k)]

Unspawned(c) == {r \in Runs : c.run[r] = Unused}
Ongoing(c) ==
  {r \in Runs : \/ c.run[r].phase \notin {"free", "serving"}
                \/ c.run[r].life = "live"}

(* The call of processGroupMessages, up to its first await.                *)
Fetch(c, isDirect) ==
  IF Unspawned(c) = {} \/ (Ongoing(c) # {} /\ ~c.world.overlap)
  THEN [c EXCEPT !.runless = TRUE]
  ELSE [c EXCEPT !.run[CHOOSE r \in Unspawned(c) : TRUE] =
          [Unused EXCEPT !.phase = "fetched", !.direct = isDirect,
                         !.batch = Since(c, c.cursor)]]

(* runForGroup                                                             *)
StartRun(c) ==
  Fetch([c EXCEPT !.active = TRUE, !.idle = FALSE, !.pending = FALSE,
                  !.piped = FALSE, !.hasOutput = FALSE, !.inFlight = 0], FALSE)

EnqueueMessageCheck(c) ==
  IF c.active THEN [c EXCEPT !.pending = TRUE] ELSE StartRun(c)

DrainGroup(c) ==
  IF ~c.pending THEN c
  ELSE IF c.active /\ c.idle /\ c.process # NoRun
  THEN Fetch([c EXCEPT !.pending = FALSE], TRUE)
  ELSE StartRun(c)

Release(c) == [c EXCEPT !.active = FALSE, !.process = NoRun, !.inFlight = 0]

(* A success forgets the retries, a failure schedules one more if it may.  *)
CountRetry(c, ok) ==
  IF ok \/ c.retries >= MaxRetries THEN [c EXCEPT !.retries = 0]
  ELSE [c EXCEPT !.retries = @ + 1, !.timers = @ + 1]

(* The finally block of runForGroup: an idle agent keeps the slot.         *)
EndRun(c) ==
  IF c.idle /\ c.process # NoRun /\ c.run[c.process].life # "coded"
  THEN c
  ELSE [c EXCEPT !.active = FALSE, !.process = NoRun]

(* processGroupMessages settles, and runForGroup with it, unless it is a   *)
(* direct run that nobody waits for.                                       *)
Finish(c, r, ok) ==
  LET over == [c EXCEPT !.run[r] =
                 [@ EXCEPT !.phase = "serving", !.batch = {}, !.previous = 0,
                           !.sent = FALSE, !.direct = FALSE]]
  IN IF c.run[r].direct THEN over
     ELSE DrainGroup(EndRun(CountRetry(over, ok)))

-----------------------------------------------------------------------------
(* A run is over when nobody awaits it, its agent does not live, and the   *)
(* slot does not refer to it.                                              *)
Tidy(c) ==
  [c EXCEPT !.run =
     [r \in Runs |-> IF /\ c.run[r].phase = "serving"
                        /\ c.run[r].life # "live"
                        /\ c.process # r
                     THEN Unused ELSE c.run[r]]]

Step(c) == \E d \in {Tidy(c)} : ~d.runless /\ chat' = d

(* A channel stores an inbound message.                                    *)
Receive(isCommand) ==
  /\ chat.stored < MaxMessages
  /\ isCommand => chat.world.commands
  /\ Step([chat EXCEPT !.stored = @ + 1,
             !.commands = IF isCommand THEN @ \cup {chat.stored + 1} ELSE @])

(* startMessageLoop finds new messages, handles the slash commands of all  *)
(* that is pending, and holds the rest across its awaits.                  *)
Poll ==
  LET all == Since(chat, chat.cursor)
      batch == IF all # {} THEN all ELSE Since(chat, chat.seen)
      past == PastCommands(chat, batch)
  IN /\ chat.seen < chat.stored
     /\ chat.held = {}
     /\ Step([chat EXCEPT !.seen = chat.stored,
                          !.cursor = past,
                          !.held = Texts(chat, batch),
                          !.before = past])

HasContainer(c) == c.active /\ c.process # NoRun

(* Mutant: the cursor moves before it is known where the messages go.      *)
PipeEagerly(written) ==
  /\ chat.held # {}
  /\ written \/ chat.world.writesFail
  /\ LET c == [chat EXCEPT !.cursor = Max(chat.held), !.held = {}, !.before = 0]
     IN Step(IF HasContainer(chat) /\ written
             THEN Hand([c EXCEPT !.idle = FALSE, !.piped = TRUE,
                                 !.inbox = @ \cup chat.held], chat.held)
             ELSE EnqueueMessageCheck(c))

(* ... and pipes it into the agent, or asks the queue for a run; an agent  *)
(* found to have exited is cleaned up.                                     *)
Pipe(written) ==
  LET c == [chat EXCEPT !.held = {}, !.before = 0]
      gone == HasContainer(c) /\ c.run[c.process].life = "coded"
  IN /\ chat.held # {}
     /\ written \/ chat.world.writesFail
     /\ Step(IF ~HasContainer(c) THEN EnqueueMessageCheck(c)
             ELSE IF gone
             THEN EnqueueMessageCheck(
                    DrainGroup([Release(c) EXCEPT !.idle = FALSE,
                                                  !.pending = TRUE]))
             ELSE IF ~written
             THEN EnqueueMessageCheck([c EXCEPT !.idle = FALSE])
             ELSE Hand([c EXCEPT
                          !.idle = FALSE,
                          !.piped = TRUE,
                          !.inbox = @ \cup chat.held,
                          !.inFlight = IF @ = 0 THEN chat.before ELSE @,
                          !.cursor = Max(chat.held)],
                       chat.held))

(* processGroupMessages handles the slash commands of its batch and moves  *)
(* the cursor past the rest, or has nothing to do.                         *)
Prompt(r) ==
  LET batch == chat.run[r].batch
      texts == Texts(chat, batch)
      past == PastCommands(chat, batch)
  IN /\ chat.run[r].phase = "fetched"
     /\ Step(IF texts = {}
             THEN Finish([chat EXCEPT !.cursor = past], r, TRUE)
             ELSE Hand([chat EXCEPT !.cursor = Max(texts),
                                    !.run[r] =
                                      [@ EXCEPT !.phase = "prompted", !.batch = {},
                                                !.previous = past, !.query = texts],
                                    !.prompted = @ \cup texts],
                       texts))

(* The agent is spawned and registered.                                    *)
Spawn(r) ==
  /\ chat.run[r].phase = "prompted"
  /\ Step([chat EXCEPT !.run[r] = [@ EXCEPT !.phase = "query", !.life = "live"],
                       !.process = r])

(* The agent takes the files of the inbox for its next query.              *)
ReadInbox(r) ==
  /\ chat.run[r].life = "live"
  /\ chat.inbox # {}
  /\ Step([chat EXCEPT !.run[r].queued = @ \cup chat.inbox, !.inbox = {}])

(* An output with text, partial or final.                                  *)
Output(r, final) ==
  /\ chat.run[r].life = "live"
  /\ chat.run[r].query # {}
  /\ Step([chat EXCEPT
             !.piped = FALSE,
             !.hasOutput = TRUE,
             !.inFlight = 0,
             !.idle = TRUE,
             !.run[r].sent = @ \/ (final /\ chat.run[r].phase = "query"),
             !.answered = IF final THEN @ \cup chat.run[r].query ELSE @])

(* The query-complete output; the first one makes runAgent return.         *)
QueryComplete(r) ==
  /\ chat.run[r].life = "live"
  /\ chat.run[r].query # {}
  /\ Step([chat EXCEPT
             !.idle = TRUE,
             !.run[r] =
               [@ EXCEPT !.query = {},
                         !.phase = IF chat.run[r].phase = "query" THEN "returned"
                                   ELSE chat.run[r].phase],
             !.answered = @ \cup chat.run[r].query])

NextQuery(r) ==
  /\ chat.run[r].life = "live"
  /\ chat.run[r].query = {}
  /\ chat.run[r].queued # {}
  /\ Step([chat EXCEPT !.run[r] = [@ EXCEPT !.query = chat.run[r].queued,
                                            !.queued = {}]])

(* The run whose agent completed its first query settles.                  *)
Return(r) ==
  /\ chat.run[r].phase = "returned"
  /\ Step(Finish(chat, r, TRUE))

(* Mutant: the failed run leaves the cursor where it is.                   *)
FailKeepingCursor(r) ==
  /\ chat.run[r].phase = "query"
  /\ chat.run[r].life # "live"
  /\ Step(Finish(chat, r, chat.run[r].sent))

(* The agent could not be spawned, or was gone before its first query was  *)
(* complete: the cursor is rolled back, unless the user saw an answer.     *)
Fail(r) ==
  /\ \/ chat.run[r].phase = "prompted"
     \/ chat.run[r].phase = "query" /\ chat.run[r].life # "live"
  /\ chat.run[r].phase = "prompted" => chat.deaths < chat.world.deaths
  /\ LET c == [chat EXCEPT !.deaths =
                 IF chat.run[r].phase = "prompted" THEN @ + 1 ELSE @]
     IN Step(IF c.run[r].sent THEN Finish(c, r, TRUE)
             ELSE Finish(RollBack(c, chat.run[r].previous), r, FALSE))

(* The exit listener of registerProcess, with the listener of index.ts     *)
(* that rolls the cursor back.                                             *)
OnExit(c) ==
  LET hadInFlight == c.piped /\ ~c.hasOutput
      stale == c.process # NoRun /\ c.inbox # {}
      c1 == [Release(c) EXCEPT !.idle = FALSE,
                               !.inbox = IF stale THEN {} ELSE @,
                               !.pending = @ \/ stale]
  IN IF ~(c.active /\ (c.idle \/ c.piped \/ c.hasOutput)) THEN c
     ELSE DrainGroup(IF hadInFlight /\ c.inFlight # 0
                     THEN RollBack(c1, c.inFlight) ELSE c1)

(* The agent dies, with an exit code or by a signal.                       *)
Die(r, code) ==
  /\ chat.run[r].life = "live"
  /\ chat.deaths < chat.world.deaths
  /\ Step(OnExit([chat EXCEPT
             !.deaths = @ + 1,
             !.run[r] =
               [@ EXCEPT !.query = {}, !.queued = {},
                         !.life = IF code THEN "coded" ELSE "signalled"]]))

RetryTimer ==
  /\ chat.timers > 0
  /\ Step(EnqueueMessageCheck([chat EXCEPT !.timers = @ - 1]))

(* Mutant: the restarted daemon waits for new messages only.               *)
RestartUnrecovered ==
  /\ chat.restarts < chat.world.restarts
  /\ Step([Fresh(chat.world) EXCEPT !.stored = chat.stored, !.commands = chat.commands,
                        !.seen = chat.seen, !.cursor = chat.cursor,
                        !.inbox = chat.inbox, !.restarts = chat.restarts + 1,
                        !.handed = chat.handed])

(* The daemon crashes, its agents with it, and starts again: what it held  *)
(* in memory is lost, the database and the IPC files stay;                 *)
(* recoverPendingMessages.                                                 *)
Restart ==
  /\ chat.restarts < chat.world.restarts
  /\ LET c == [chat EXCEPT
                 !.restarts = @ + 1, !.held = {}, !.before = 0,
                 !.active = FALSE, !.idle = FALSE, !.pending = FALSE,
                 !.piped = FALSE, !.hasOutput = FALSE, !.inFlight = 0,
                 !.process = NoRun, !.retries = 0, !.timers = 0,
                 !.run = [r \in Runs |-> Unused]]
     IN Step(IF Since(c, c.cursor) # {} THEN EnqueueMessageCheck(c) ELSE c)

RunStep(r) ==
  Prompt(r) \/ Spawn(r) \/ ReadInbox(r) \/ QueryComplete(r) \/ NextQuery(r)
  \/ Return(r) \/ Fail(r)

Next ==
  \/ \E isCommand \in BOOLEAN : Receive(isCommand)
  \/ Poll
  \/ \E written \in BOOLEAN : Pipe(written)
  \/ \E r \in Runs : Prompt(r)
  \/ \E r \in Runs : Spawn(r)
  \/ \E r \in Runs : ReadInbox(r)
  \/ \E r \in Runs, final \in BOOLEAN : Output(r, final)
  \/ \E r \in Runs : QueryComplete(r)
  \/ \E r \in Runs : NextQuery(r)
  \/ \E r \in Runs : Return(r)
  \/ \E r \in Runs : Fail(r)
  \/ \E r \in Runs, code \in BOOLEAN : Die(r, code)
  \/ RetryTimer
  \/ Restart

Spec == Init /\ [][Next]_chat

(* The message loop and the awaited calls go on, a query ends (the runners *)
(* kill an agent that exceeds its time budget) and timers fire.            *)
FairSpec ==
  /\ Spec
  /\ WF_chat(Poll)
  /\ WF_chat(\E written \in BOOLEAN : Pipe(written))
  /\ \A r \in Runs : WF_chat(RunStep(r))
  /\ WF_chat(RetryTimer)

-----------------------------------------------------------------------------
(* Types.                                                                  *)
TypeOK == chat \in ChatStates

(* A slash command stored after message m: handling it puts the cursor     *)
(* behind it whatever became of m (see the README).  src/index.ts:1627     *)
Overtaken(m) == \E c \in chat.commands : c > m

(* The cursor passes a message only when it has been handed to an agent    *)
(* and not rolled back since, or answered: whatever the interleaving of    *)
(* the loop, the runs and their roll-backs, nothing below the cursor is    *)
(* swallowed, a message before a slash command excepted.  (A crash of the  *)
(* daemon loses what its runs had prompted: see the README.)               *)
NothingSkipped ==
  ~chat.world.overlap /\ chat.restarts = 0 => \A m \in 1..chat.cursor :
    m \in chat.handed \cup chat.answered \cup chat.commands \/ Overtaken(m)

(* Nothing fails but the daemon itself.                                    *)
OnlyRestarts ==
  chat.world.deaths = 0 /\ ~chat.world.commands /\ ~chat.world.writesFail

(* Someone still holds message m: the database beyond the cursor, the      *)
(* inbox, an agent at work, or a run that will roll back.                  *)
InCustody(m) ==
  \/ m > chat.cursor
  \/ m \in chat.inbox
  \/ \E r \in Runs :
       \/ chat.run[r].life = "live" /\ m \in chat.run[r].query \cup chat.run[r].queued
       \/ /\ chat.run[r].phase \in {"prompted", "query"}
          /\ ~chat.run[r].sent
          /\ m > chat.run[r].previous

Kept(m) == m \in chat.answered \/ InCustody(m)

(* A message that went into the prompt of a run is answered or still in    *)
(* custody, however the agent dies: processGroupMessages rolls back, a     *)
(* message before a slash command excepted.                                *)
PromptsKept ==
  ~chat.world.overlap /\ chat.restarts = 0 =>
    \A m \in chat.prompted : Kept(m) \/ Overtaken(m)

(* Every message that arrives is eventually handed to an agent.            *)
EventuallyHanded ==
  \A m \in Messages : (OnlyRestarts /\ m <= chat.stored) ~> (m \in chat.handed)
=============================================================================
