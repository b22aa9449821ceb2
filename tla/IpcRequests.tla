----------------------------- MODULE IpcRequests -----------------------------
(***************************************************************************)
(* What an agent asks of the host through files: its tools in              *)
(* container/agent-runner-ghc/src/ipc-mcp-stdio.ts write requests into the *)
(* folder of their group, the watcher of src/ipc.ts carries them out, one  *)
(* by one, and a plugin request is answered in a response file.            *)
(*                                                                         *)
(* Requests are numbered as they are written: that is the order of their   *)
(* names, which readdirSync sorts.  The watcher works on one file from its *)
(* reading to its unlinking without yielding, except where it awaits a     *)
(* channel or a plugin operation; the process can go down anywhere.        *)
(***************************************************************************)
EXTENDS Integers, Sequences

CONSTANTS
  NFolders,      \* group folders, 1..NFolders in the order of their names
  Default,       \* the folder of the default agent
  MaxRequests,   \* bound
  MaxFaults      \* bound: crashes, and calls that throw

ASSUME IpcAssumption ==
  /\ {NFolders, MaxRequests} \subseteq Nat \ {0}
  /\ MaxFaults \in Nat
  /\ Default \in 1..NFolders

VARIABLES
  request,   \* what was asked, in order
  disk,      \* requests whose file is in its directory
  errors,    \* ... in the directory of errors
  rows,      \* scheduled_tasks, each by the request that asks for it
  reply,     \* the response file of a request
  asker,     \* whether the tool that asked still polls for it
  watcher,
  past,      \* what became of each request
  faults

vars == <<request, disk, errors, rows, reply, asker, watcher, past, faults>>

Requests == 1..MaxRequests
Folders == 1..NFolders
Boxes == 2 * NFolders     \* messages and tasks of each folder, in that order

Asking == {"list", "install"}                     \* nanoclaw_plugin
Messages == {"send", "restart"} \cup Asking
Tasks == {"schedule", "cancel", "react"}
Kinds == Messages \cup Tasks

Kind(r) == request[r].kind
FromDefault(r) == request[r].folder = Default
BoxOf(r) == 2 * request[r].folder - (IF Kind(r) \in Messages THEN 1 ELSE 0)

WatcherStates ==
  [ at     : {"down", "rest", "listing", "taking", "awaiting", "unlinking", "failing"},
    box    : 1..Boxes,
    files  : SUBSET Requests, \* messageFiles or taskFiles, from the one in hand on
    landed : BOOLEAN,         \* what is awaited has taken effect
    armed  : BOOLEAN ]        \* the timer of a restart

TypeOK ==
  /\ request \in Seq([folder : Folders, kind : Kinds, task : 0..MaxRequests])
  /\ disk \cup errors \cup rows \subseteq 1..Len(request)
  /\ disk \cap errors = {}
  /\ reply \in [Requests -> {"none", "fresh", "old"}]
  /\ asker \in [Requests -> {"none", "waits", "over"}]
  /\ watcher \in WatcherStates
  /\ past \in [Requests -> [done : Nat, cut : Nat, dropped : BOOLEAN]]
  /\ faults \in 0..MaxFaults

Init ==
  /\ request = <<>>
  /\ disk = {} /\ errors = {} /\ rows = {}
  /\ reply = [r \in Requests |-> "none"]
  /\ asker = [r \in Requests |-> "none"]
  /\ watcher = [at |-> "down", box |-> 1, files |-> {}, landed |-> FALSE, armed |-> FALSE]
  /\ past = [r \in Requests |-> [done |-> 0, cut |-> 0, dropped |-> FALSE]]
  /\ faults = 0

Fault == faults < MaxFaults /\ faults' = faults + 1

(***************************************************************************)
(* The agent's tools                                                       *)
(***************************************************************************)

\* The tool of a control refuses outside the default agent's chat; the task
\* of a cancel is one the same agent was told it had scheduled.
MayAsk(f, k, t) ==
  /\ k = "restart" => f = Default
  /\ IF k = "cancel"
       THEN t \in 1..Len(request) /\ Kind(t) = "schedule" /\ request[t].folder = f
       ELSE t = 0

WriteIpcFile(f, k, t) ==
  LET r == Len(request) + 1 IN
  /\ r \in Requests
  /\ MayAsk(f, k, t)
  /\ request' = Append(request, [folder |-> f, kind |-> k, task |-> t])
  /\ disk' = disk \cup {r}
  /\ asker' = [asker EXCEPT ![r] = IF k \in Asking THEN "waits" ELSE "none"]
  /\ UNCHANGED <<errors, rows, reply, watcher, past, faults>>

ReadResponse(r) ==
  /\ asker[r] = "waits" /\ reply[r] # "none"
  /\ asker' = [asker EXCEPT ![r] = "over"]
  /\ reply' = [reply EXCEPT ![r] = "none"]
  /\ UNCHANGED <<request, disk, errors, rows, watcher, past, faults>>

\* TIMEOUT_MS is over; the response may just have been written.
GiveUp(r) ==
  /\ asker[r] = "waits"
  /\ asker' = [asker EXCEPT ![r] = "over"]
  /\ UNCHANGED <<request, disk, errors, rows, reply, watcher, past, faults>>

(***************************************************************************)
(* The watcher: one action per step of processIpcFiles                     *)
(***************************************************************************)

At(where) == watcher.at = where
InHand == CHOOSE r \in watcher.files : \A s \in watcher.files : r <= s
Goes(where) == watcher' = [watcher EXCEPT !.at = where, !.landed = FALSE]

BeginCycle ==
  /\ At("rest")
  /\ watcher' = [watcher EXCEPT !.at = "listing", !.box = 1]
  /\ UNCHANGED <<request, disk, errors, rows, reply, asker, past, faults>>

List ==
  /\ At("listing")
  /\ watcher' = [watcher EXCEPT !.at = "taking", !.files = {r \in disk : BoxOf(r) = watcher.box}]
  /\ UNCHANGED <<request, disk, errors, rows, reply, asker, past, faults>>

NextBox ==
  /\ At("taking") /\ watcher.files = {}
  /\ watcher' = IF watcher.box < Boxes
                  THEN [watcher EXCEPT !.at = "listing", !.box = @ + 1]
                  ELSE [watcher EXCEPT !.at = "rest"]
  /\ UNCHANGED <<request, disk, errors, rows, reply, asker, past, faults>>

Taking(k) == At("taking") /\ watcher.files # {} /\ Kind(InHand) = k

Effect(r) == past' = [past EXCEPT ![r].done = @ + 1]

\* deps.sendMessage, handlePluginIpc: both are awaited.
TakeAwaited ==
  /\ \/ Taking("send") \/ Taking("list")
     \/ Taking("install") /\ FromDefault(InHand)
  /\ Goes("awaiting")
  /\ UNCHANGED <<request, disk, errors, rows, reply, asker, past, faults>>

\* Nothing is done, nobody is told, the file goes: a chat that is no longer
\* registered to the folder, a change of plugins outside the default agent's
\* chat, a task whose row is gone, and every reaction, which the tool writes
\* where only messages are looked for.
TakeDropped ==
  /\ \/ Taking("send") /\ ~FromDefault(InHand)
     \/ Taking("install") /\ ~FromDefault(InHand)
     \/ Taking("cancel") /\ request[InHand].task \notin rows
     \/ Taking("react")
  /\ Goes("unlinking")
  /\ past' = [past EXCEPT ![InHand].dropped = TRUE]
  /\ UNCHANGED <<request, disk, errors, rows, reply, asker, faults>>

TakeRestart ==
  /\ Taking("restart")
  /\ watcher' = [watcher EXCEPT !.at = "unlinking", !.armed = TRUE]
  /\ Effect(InHand)
  /\ UNCHANGED <<request, disk, errors, rows, reply, asker, faults>>

TakeScheduleReplacing ==   \* mutant: INSERT OR REPLACE
  /\ Taking("schedule")
  /\ rows' = rows \cup {InHand} /\ Effect(InHand) /\ Goes("unlinking")
  /\ UNCHANGED <<request, disk, errors, reply, asker, faults>>

\* createTask with the id the tool chose: a second INSERT of it throws.
TakeSchedule ==
  /\ Taking("schedule")
  /\ IF InHand \in rows
       THEN Goes("failing") /\ UNCHANGED <<rows, past>>
       ELSE rows' = rows \cup {InHand} /\ Effect(InHand) /\ Goes("unlinking")
  /\ UNCHANGED <<request, disk, errors, reply, asker, faults>>

TakeCancel ==
  /\ Taking("cancel") /\ request[InHand].task \in rows
  /\ rows' = rows \ {request[InHand].task}
  /\ Effect(InHand)
  /\ Goes("unlinking")
  /\ UNCHANGED <<request, disk, errors, reply, asker, faults>>

Land ==
  /\ At("awaiting") /\ ~watcher.landed
  /\ watcher' = [watcher EXCEPT !.landed = TRUE]
  /\ Effect(InHand)
  /\ UNCHANGED <<request, disk, errors, rows, reply, asker, faults>>

\* A plugin operation that throws is answered as well.
Settle ==
  /\ At("awaiting") /\ watcher.landed
  /\ Goes("unlinking")
  /\ reply' = IF Kind(InHand) \in Asking THEN [reply EXCEPT ![InHand] = "fresh"] ELSE reply
  /\ UNCHANGED <<request, disk, errors, rows, asker, past, faults>>

SendFails ==
  /\ At("awaiting") /\ Kind(InHand) = "send"
  /\ Fault
  /\ Goes("failing")
  /\ UNCHANGED <<request, disk, errors, rows, reply, asker, past>>

DoneWith == watcher' = [watcher EXCEPT !.at = "taking", !.files = @ \ {InHand}]

Unlink ==
  /\ At("unlinking")
  /\ disk' = disk \ {InHand}
  /\ DoneWith
  /\ UNCHANGED <<request, errors, rows, reply, asker, past, faults>>

UnlinkFails ==
  /\ At("unlinking")
  /\ Fault
  /\ Goes("failing")
  /\ UNCHANGED <<request, disk, errors, rows, reply, asker, past>>

Rename ==
  /\ At("failing")
  /\ disk' = disk \ {InHand} /\ errors' = errors \cup {InHand}
  /\ DoneWith
  /\ UNCHANGED <<request, rows, reply, asker, past, faults>>

Cut(r) == past' = [past EXCEPT ![r].cut = @ + 1]

RenameFailsContinuing ==   \* mutant: the catch is inside the loop
  /\ At("failing")
  /\ Fault
  /\ Cut(InHand)
  /\ DoneWith
  /\ UNCHANGED <<request, disk, errors, rows, reply, asker>>

\* The throw of the catch block ends the loop over the directory.
RenameFails ==
  /\ At("failing")
  /\ Fault
  /\ Cut(InHand)
  /\ watcher' = [watcher EXCEPT !.at = "taking", !.files = {}]
  /\ UNCHANGED <<request, disk, errors, rows, reply, asker>>

(***************************************************************************)
(* The process, and its timers                                             *)
(***************************************************************************)

GoDown ==
  /\ watcher' = [watcher EXCEPT !.at = "down", !.box = 1, !.files = {},
                                !.landed = FALSE, !.armed = FALSE]
  /\ IF watcher.at \in {"awaiting", "unlinking", "failing"} THEN Cut(InHand) ELSE UNCHANGED past
  /\ UNCHANGED <<request, disk, errors, rows, reply, asker>>

Crash == ~At("down") /\ Fault /\ GoDown

\* The timer of handleControlIpc: it runs where the watcher yields.  In this
\* build its require throws and the process exits; the service starts it again.
RestartHost ==
  /\ watcher.armed /\ (At("rest") \/ At("awaiting"))
  /\ GoDown /\ UNCHANGED faults

Swept == [r \in Requests |-> IF reply[r] = "old" THEN "none" ELSE reply[r]]

StartIpcWatcher ==
  /\ At("down")
  /\ watcher' = [watcher EXCEPT !.at = "listing"]
  /\ reply' = Swept
  /\ UNCHANGED <<request, disk, errors, rows, asker, past, faults>>

SweepFresh ==   \* mutant: the comparison with the cutoff turned around
  /\ ~At("down") /\ \E r \in Requests : reply[r] = "fresh"
  /\ reply' = [r \in Requests |-> IF reply[r] = "fresh" THEN "none" ELSE reply[r]]
  /\ UNCHANGED <<request, disk, errors, rows, asker, watcher, past, faults>>

\* Hourly.  The steps of the watcher do not read response files, so the sweep
\* is left free to fall between any two of them.
SweepOrphanResponses ==
  /\ ~At("down") /\ Swept # reply
  /\ reply' = Swept
  /\ UNCHANGED <<request, disk, errors, rows, asker, watcher, past, faults>>

\* 5 minutes, long after the 30 s in which the tool polls.
Age(r) ==
  /\ reply[r] = "fresh" /\ asker[r] = "over"
  /\ reply' = [reply EXCEPT ![r] = "old"]
  /\ UNCHANGED <<request, disk, errors, rows, asker, watcher, past, faults>>

Watch ==
  \/ BeginCycle \/ List \/ NextBox
  \/ TakeAwaited \/ TakeDropped \/ TakeRestart \/ TakeSchedule \/ TakeCancel
  \/ Land \/ Settle \/ Unlink \/ Rename
  \/ StartIpcWatcher

Poll(r) == ReadResponse(r) \/ GiveUp(r)

Next ==
  \/ \E f \in Folders, k \in Kinds, t \in 0..MaxRequests : WriteIpcFile(f, k, t)
  \/ Watch
  \/ SendFails \/ UnlinkFails \/ RenameFails \/ Crash
  \/ RestartHost \/ SweepOrphanResponses
  \/ \E r \in Requests : Poll(r) \/ Age(r)

\* The loop and what it awaits go on, a stopped host is started again, time
\* passes; what the agents ask and what fails is left open.
Fairness ==
  /\ WF_vars(Watch)
  /\ WF_vars(SweepOrphanResponses)
  /\ \A r \in Requests : WF_vars(Poll(r)) /\ WF_vars(Age(r))

Spec == Init /\ [][Next]_vars /\ Fairness

(***************************************************************************)
(* Properties                                                              *)
(***************************************************************************)

\* A request is carried out once: again only if the process went down, or the
\* file could not be moved, while it was in hand, and a task is created once
\* even then.  One whose file is gone was carried out, dropped as not allowed,
\* or is kept among the errors.
HandledOnce ==
  \A r \in 1..Len(request) :
    /\ past[r].done <= 1 + past[r].cut
    /\ Kind(r) = "schedule" => past[r].done <= 1
    /\ r \notin disk => past[r].done > 0 \/ past[r].dropped \/ r \in errors

\* Whatever fails, and whenever the host restarts, the requests of an agent
\* take effect in the order in which it made them: when one does, no earlier
\* one of its directory waits.  So a cancel never overtakes its schedule.
InOrder ==
  [][\A r \in 1..Len(request) : past'[r].done > past[r].done =>
       ~\E s \in disk : s < r /\ BoxOf(s) = BoxOf(r)]_vars

\* No request is left in its directory, no tool polls for ever and no response
\* file stays, also one that was written after its tool had given up, or twice
\* because of a restart.
EventuallyClean ==
  \A r \in Requests :
    /\ r \in disk ~> r \notin disk
    /\ asker[r] = "waits" ~> asker[r] = "over"
    /\ reply[r] # "none" ~> reply[r] = "none"
=============================================================================
