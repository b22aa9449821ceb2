--------------------------- MODULE TurnOutputInv ---------------------------
(***************************************************************************)
(* The inductive invariants of TurnOutput and what the proofs about it in  *)
(* ChatTurnsProof say of its steps: OutInv for FinalOnce, IdsInv for       *)
(* NeverOverwritten, FollowInv for FollowUpKept.                           *)
(***************************************************************************)
EXTENDS MCChatTurns

(* Outputs.  Where a final is on its way to the chat is told of a state S  *)
(* of TurnOutput, in the middle of a step too: then thread t moves, so     *)
(* only the threads T wait, and es are the outputs still to be handled.    *)
TextRecords == [query : Nat, nth : Nat, final : BOOLEAN]
OutputRecords ==
  [query : Nat, nth : Nat, kind : {"partial", "final", "complete", "error"}]
StreamRecords ==
  [draining : BOOLEAN, dead : BOOLEAN, ended : BOOLEAN, lost : BOOLEAN]

Finals == {x \in TextRecords : x.final}

OutFields ==
  {"channel", "sent", "attempted", "failed", "failure", "progressive", "partial",
   "last", "handle", "armed", "buffer", "boundary", "alive", "working", "query",
   "emitted", "events", "thread", "chat", "streams"}

ThreadFields == {"at", "stage", "hold", "texts", "final"}

OutShape(S) ==
  /\ OutFields \subseteq DOMAIN S
  /\ Out!Threads \subseteq DOMAIN S.thread
  /\ \A u \in Out!Threads : ThreadFields \subseteq DOMAIN S.thread[u]

OutTypes(S) ==
  /\ S.chat \in Seq(SUBSET TextRecords)
  /\ S.events \in Seq(OutputRecords)
  /\ S.streams \in Seq(StreamRecords)
  /\ S.handle \in 0..Len(S.streams)
  /\ S.buffer \subseteq TextRecords
  /\ S.failure \subseteq TextRecords
  /\ S.partial \subseteq TextRecords \ Finals
  /\ S.query \in Nat /\ S.emitted \in Nat
  /\ \A h \in DOMAIN S.streams : S.streams[h].lost => S.streams[h].ended

(* What a thread waits for: the texts of a callback are its output's,      *)
(* those of an unfinished partial are no finals, and a thread that waits   *)
(* for the end of a stream is the only one to, and the one to learn that   *)
(* it is lost.                                                             *)
TheOutput(S, u) ==
  /\ u = "chain" /\ S.events # <<>>
  /\ S.thread[u].texts = {Out!TextOf(Head(S.events))}

Waits(S, u) ==
  LET c == S.thread[u] IN
  /\ c.texts \subseteq TextRecords
  /\ u = "chain" /\ c.at # "none" => S.events # <<>>
  /\ c.at \in {"typing", "send", "edit"} => TheOutput(S, u)
  /\ c.at = "boundary" => u = "chain" /\ Head(S.events).kind \in {"partial", "final"}
  /\ c.at = "plain" => c.stage \in {"coalesced", "failure", "partial", "unfinished"}
  /\ c.at = "end" =>
       /\ \/ c.stage = "callback" /\ TheOutput(S, u)
          \/ c.stage = "unfinished" /\ c.texts \cap Finals = {}
       /\ c.hold \in DOMAIN S.streams
       /\ S.streams[c.hold].ended /\ ~S.streams[c.hold].lost

ApartAt(S) ==
  \A u, v \in Out!Threads :
    S.thread[u].at = "end" /\ S.thread[v].at = "end" /\ u # v =>
      S.thread[u].hold # S.thread[v].hold

(* Final x is in the queue es, in the chat, being sent plain, or in a      *)
(* buffer.                                                                 *)
DueAt(es, i, x) == es[i].kind = "final" /\ Out!TextOf(es[i]) = x
Due(es, x) == \E i \in DOMAIN es : DueAt(es, i, x)
InChat(S, x) == \E b \in DOMAIN S.chat : x \in S.chat[b]
Sending(S, u, x) == S.thread[u].at = "plain" /\ x \in S.thread[u].texts
Buffered(S, x) == x \in S.buffer \cup S.failure
Old(S, x) == x.query < S.query \/ (x.query = S.query /\ x.nth <= S.emitted)

(* It is in one place; what is buffered has been sent at most if the one   *)
(* attempt of the turn is spent; and only what was emitted is anywhere.    *)
OnePlace(S, es, T, x) ==
  /\ \A i, j \in DOMAIN es : DueAt(es, i, x) /\ DueAt(es, j, x) => i = j
  /\ \A b, c \in DOMAIN S.chat : x \in S.chat[b] /\ x \in S.chat[c] => b = c
  /\ \A u, v \in T : Sending(S, u, x) /\ Sending(S, v, x) => u = v
  /\ \A u \in T : Sending(S, u, x) =>
       /\ ~InChat(S, x) /\ ~Due(es, x) /\ (Buffered(S, x) => S.attempted) /\ Old(S, x)
  /\ InChat(S, x) => ~Due(es, x) /\ (Buffered(S, x) => S.attempted) /\ Old(S, x)
  /\ Buffered(S, x) => ~Due(es, x) /\ Old(S, x)
  /\ Due(es, x) => Old(S, x)

Left(S, t) ==
  IF t # "chain" /\ S.thread["chain"].at = "interim" THEN Tail(S.events) ELSE S.events

(* The invariant between two steps, and while thread t moves.              *)
Moving(S, t, es) ==
  /\ OutShape(S) /\ OutTypes(S)
  /\ t = "chain" => S.events # <<>>
  /\ \A u \in Out!Threads \ {t} : Waits(S, u)
  /\ \A x \in Finals : OnePlace(S, es, Out!Threads \ {t}, x)

OutInv(S) ==
  /\ OutShape(S) /\ OutTypes(S) /\ ApartAt(S)
  /\ \A u \in Out!Threads : Waits(S, u)
  /\ \A x \in Finals : OnePlace(S, Left(S, "none"), Out!Threads, x)

(* What a step leaves alone, the threads apart.                            *)
Alike(S, R) ==
  /\ OutFields \subseteq DOMAIN R
  /\ R.chat = S.chat /\ R.events = S.events /\ R.streams = S.streams
  /\ R.handle = S.handle /\ R.buffer = S.buffer /\ R.failure = S.failure
  /\ R.partial = S.partial /\ R.query = S.query /\ R.emitted = S.emitted
  /\ R.channel = S.channel /\ R.attempted = S.attempted

(* Thread t of S now waits as R says, and nothing else has changed.        *)
OnlyMoves(S, R, t) ==
  /\ Alike(S, R)
  /\ Out!Threads \subseteq DOMAIN R.thread
  /\ ThreadFields \subseteq DOMAIN R.thread[t]
  /\ \A u \in Out!Threads : u # t => R.thread[u] = S.thread[u]

WaitsThus(S, R, t, where, held, what) ==
  /\ OnlyMoves(S, R, t)
  /\ R.thread[t].at = where
  /\ R.thread[t].hold = held
  /\ R.thread[t].texts = what
  /\ R.thread[t].stage = S.thread[t].stage

Pops(S, R) ==
  /\ OutFields \subseteq DOMAIN R
  /\ R.chat = S.chat /\ R.events = Tail(S.events) /\ R.streams = S.streams
  /\ R.handle = S.handle /\ R.buffer = S.buffer /\ R.failure = S.failure
  /\ R.partial = S.partial /\ R.query = S.query /\ R.emitted = S.emitted
  /\ R.channel = S.channel /\ R.attempted = S.attempted
  /\ Out!Threads \subseteq DOMAIN R.thread
  /\ ThreadFields \subseteq DOMAIN R.thread["chain"]
  /\ R.thread["tail"] = S.thread["tail"]
  /\ R.thread["chain"].at = "none" /\ R.thread["chain"].texts = {}

(* What loosens the invariant: buffers are emptied or take no finals, the  *)
(* attempt of the turn is forgotten with them, streams end or open.        *)
SlackStreams(S, R) ==
  /\ R.streams \in Seq(StreamRecords)
  /\ R.handle \in 0..Len(R.streams)
  /\ \A h \in DOMAIN R.streams : R.streams[h].lost => R.streams[h].ended
  /\ \A h \in DOMAIN S.streams :
       /\ h \in DOMAIN R.streams
       /\ S.streams[h].ended => R.streams[h].ended
       /\ R.streams[h].lost => S.streams[h].lost

SlackBuffers(S, R) ==
  /\ R.buffer \subseteq TextRecords /\ R.failure \subseteq TextRecords
  /\ R.partial \subseteq TextRecords \ Finals
  /\ (R.buffer \cup R.failure) \cap Finals \subseteq S.buffer \cup S.failure
  /\ \/ R.attempted = S.attempted
     \/ (R.buffer \cup R.failure) \cap Finals = {}

Slack(S, R) ==
  /\ OutFields \subseteq DOMAIN R
  /\ R.chat = S.chat /\ R.events = S.events /\ R.thread = S.thread
  /\ R.query = S.query /\ R.emitted = S.emitted /\ R.channel = S.channel
  /\ SlackStreams(S, R) /\ SlackBuffers(S, R)

EndedStream(st, ns, h, b) ==
  /\ ns \in Seq(StreamRecords) /\ Len(ns) = Len(st) /\ DOMAIN ns = DOMAIN st
  /\ \A g \in DOMAIN st : ns[g].lost = st[g].lost /\ ns[g].draining = st[g].draining
  /\ \A g \in DOMAIN st : g # h => ns[g] = st[g]
  /\ h \in DOMAIN st => ns[h].ended = b

(* A thread ends a stream nobody has ended: it alone will learn whether    *)
(* the stream is lost.                                                     *)
EndsStream(S, R, t, h) ==
  /\ OutFields \subseteq DOMAIN R
  /\ R.chat = S.chat /\ R.events = S.events
  /\ R.streams = [S.streams EXCEPT ![h].ended = TRUE]
  /\ R.handle \in {0, S.handle} /\ R.buffer = S.buffer /\ R.failure = S.failure
  /\ R.partial = S.partial /\ R.query = S.query /\ R.emitted = S.emitted
  /\ R.channel = S.channel /\ R.attempted = S.attempted
  /\ Out!Threads \subseteq DOMAIN R.thread
  /\ ThreadFields \subseteq DOMAIN R.thread[t]
  /\ \A u \in Out!Threads : u # t => R.thread[u] = S.thread[u]
  /\ R.thread[t].at = "end" /\ R.thread[t].hold = h

(* It is kept for later, ...                                               *)
Holds(S, R, what) ==
  /\ OutFields \subseteq DOMAIN R
  /\ R.chat = S.chat /\ R.events = S.events /\ R.thread = S.thread
  /\ R.query = S.query /\ R.emitted = S.emitted /\ R.channel = S.channel
  /\ R.attempted = S.attempted
  /\ R.streams = S.streams /\ R.handle \in {0, S.handle}
  /\ R.buffer \in {S.buffer, S.buffer \cup what}
  /\ R.failure \in {S.failure, what}
  /\ R.partial \in {S.partial, {}}

(* ... or it is shown: in bubble k, new or not.                            *)
Places(S, R, what, k) ==
  /\ OutFields \subseteq DOMAIN R
  /\ R.events = S.events /\ R.thread = S.thread
  /\ R.query = S.query /\ R.emitted = S.emitted /\ R.channel = S.channel
  /\ R.attempted = S.attempted /\ R.streams = S.streams /\ R.handle = S.handle
  /\ R.buffer = S.buffer /\ R.failure = S.failure /\ R.partial = S.partial
  /\ R.chat \in Seq(SUBSET TextRecords)
  /\ \A b \in DOMAIN R.chat : \A x \in R.chat[b] :
       \/ b \in DOMAIN S.chat /\ x \in S.chat[b]
       \/ b = k /\ x \in what

(* Bubble k of the chat becomes what, or is added.                         *)
Appends(S, what) == Append(S.chat, what)
Replaces(S, what, k) == [S.chat EXCEPT ![k] = what]

(* R is S but for its chat and for what no clause is about.                *)
SameButChat(S, R) ==
  /\ OutFields \subseteq DOMAIN R
  /\ R.events = S.events /\ R.thread = S.thread
  /\ R.query = S.query /\ R.emitted = S.emitted /\ R.channel = S.channel
  /\ R.attempted = S.attempted /\ R.streams = S.streams /\ R.handle = S.handle
  /\ R.buffer = S.buffer /\ R.failure = S.failure /\ R.partial = S.partial

Emits(S, R, o) ==
  /\ OutFields \subseteq DOMAIN R
  /\ R.chat = S.chat /\ R.events = Append(S.events, o) /\ R.thread = S.thread
  /\ R.query = S.query /\ R.emitted \in {S.emitted, S.emitted + 1} /\ R.channel = S.channel
  /\ R.attempted = S.attempted /\ R.streams = S.streams /\ R.handle = S.handle
  /\ R.buffer = S.buffer /\ R.failure = S.failure /\ R.partial = S.partial
  /\ o \in OutputRecords
  /\ o.kind = "final" => o.query = S.query /\ o.nth = S.emitted + 1 /\ R.emitted = S.emitted + 1

(* The frames of stream h are out, or it is dead: r is stream h then.      *)
StreamChanges(S, R, h, r) ==
  /\ OutFields \subseteq DOMAIN R
  /\ R.chat = S.chat /\ R.events = S.events /\ R.thread = S.thread
  /\ R.query = S.query /\ R.emitted = S.emitted /\ R.channel = S.channel
  /\ R.buffer = S.buffer /\ R.failure = S.failure /\ R.partial = S.partial
  /\ R.attempted = S.attempted /\ R.handle = S.handle
  /\ R.streams = [S.streams EXCEPT ![h] = r]
  /\ r \in StreamRecords
  /\ r.lost = S.streams[h].lost /\ r.ended = S.streams[h].ended

-----------------------------------------------------------------------------
(* Whose message an id is.  A channel that does not edit is never asked    *)
(* to.  The one that edits has no streams, so nothing is left to finalize; *)
(* and between the outputs of two queries there is the query-complete of   *)
(* the first, which has the next output forget both ids.                   *)
IsOutput(o) == o.kind \in {"partial", "final"}
InCallback == {"typing", "send", "edit", "interim"}

NoEdits(S) ==
  /\ S.progressive = 0 /\ S.thread["chain"].at # "edit"
  /\ S.thread["chain"].at \in {"typing", "send"} => Head(S.events).kind = "final"

NoStreams(S) ==
  /\ S.handle = 0 /\ S.armed = FALSE /\ S.failed = FALSE
  /\ S.thread["chain"].at \in {"none"} \cup InCallback
  /\ S.thread["tail"].at \in {"none", "turn-end", "over"}

(* The outputs of a query are queued in a row, and a query that is being   *)
(* worked on is the last of them.                                          *)
InRuns(S) ==
  /\ \A i \in DOMAIN S.events : i + 1 \in DOMAIN S.events /\ IsOutput(S.events[i]) =>
       S.events[i + 1].query = S.events[i].query
  /\ S.events # <<>> /\ S.alive /\ IsOutput(S.events[Len(S.events)]) =>
       S.working /\ S.query = S.events[Len(S.events)].query

(* What is handled next, a query-complete included, is of query q.         *)
Current(S, q) ==
  IF S.events # <<>> THEN S.events[1].query = q
  ELSE S.alive => S.working /\ S.query = q

FinalsIn(S, b) == {x \in S.chat[b] : x.final}

Ids(S) ==
  /\ S.progressive \in 0..Len(S.chat)
  /\ S.progressive # 0 => FinalsIn(S, S.progressive) = {}
  /\ S.last \in 0..Len(S.chat)
  /\ S.last # 0 /\ ~S.boundary => \A x \in FinalsIn(S, S.last) : Current(S, x.query)

InHand(S) ==
  LET c == S.thread["chain"] IN
  /\ c.at \in InCallback => S.events # <<>> /\ IsOutput(S.events[1]) /\ ~S.boundary
  /\ c.at = "typing" => S.events[1].kind = "final"
  /\ c.at = "edit" =>
       /\ c.hold \in DOMAIN S.chat
       /\ \A x \in FinalsIn(S, c.hold) : x.query = S.events[1].query

EditsInv(S) == NoStreams(S) /\ InRuns(S) /\ Ids(S) /\ InHand(S)

IdsInv(S) ==
  /\ OutInv(S)
  /\ S.channel # "edits" => NoEdits(S)
  /\ S.channel = "edits" => EditsInv(S)

(* No final in the chat of S makes way, in R, for one of another query.    *)
KeepsFinals(S, R) ==
  \A b \in DOMAIN S.chat :
    \A x \in S.chat[b] \ R.chat[b] :
      x.final => \A y \in R.chat[b] : y.query = x.query

Longer(S, R) == R.chat = S.chat \/ \E what : R.chat = Append(S.chat, what)

(* How a turn is finalized makes no difference to the ids, or to where     *)
(* the chain edits.                                                        *)
Onward(S, M) ==
  /\ OutShape(M)
  /\ M.channel = S.channel /\ M.progressive = S.progressive
  /\ M.chat = S.chat /\ M.events = S.events

Ends(S, R, t) ==
  /\ R.channel = S.channel /\ R.progressive = S.progressive
  /\ R.chat = S.chat
  /\ t = "tail" => R.events = S.events /\ R.thread["chain"] = S.thread["chain"]
  /\ t = "chain" => R.thread["chain"].at \in {"none", "cancel", "settle", "end", "plain"}

(* A channel that does not edit: the steps of the chain.                   *)
Unedited(S, R) == R.channel = S.channel /\ NoEdits(R) /\ Longer(S, R)

Native(S) == OutInv(S) /\ S.channel # "edits" /\ NoEdits(S)

(* The agent, the user and the wire: what they change of an output's way.  *)
Unheard(S, R) ==
  /\ R.channel = S.channel /\ R.progressive = S.progressive /\ R.last = S.last
  /\ R.handle = S.handle /\ R.armed = S.armed /\ R.failed = S.failed
  /\ R.boundary = S.boundary /\ R.chat = S.chat /\ R.thread = S.thread

Queues(S, R, o) ==
  /\ R.events = Append(S.events, o) /\ o \in OutputRecords
  /\ S.alive /\ S.working /\ o.query = S.query /\ R.query = S.query
  /\ IsOutput(o) => R.alive = S.alive /\ R.working = S.working

Idles(S, R) ==
  /\ R.events = S.events
  /\ \/ R.alive = S.alive /\ R.working = S.working /\ R.query = S.query
     \/ ~R.alive
     \/ S.alive /\ ~S.working

AgentStep(S, R) == Unheard(S, R) /\ (Idles(S, R) \/ \E o : Queues(S, R, o))

(* The chat and a stream before a thread goes on.                          *)
Onshow(S, M) ==
  /\ OutShape(M) /\ Longer(S, M)
  /\ M.channel = S.channel /\ M.progressive = S.progressive
  /\ M.events = S.events /\ M.thread = S.thread

(* Nothing the ids depend on, but where the threads are, the queue and the *)
(* boundary.                                                               *)
SameIds(S, R) ==
  /\ OutShape(R)
  /\ R.channel = S.channel /\ R.progressive = S.progressive /\ R.last = S.last
  /\ R.handle = S.handle /\ R.armed = S.armed /\ R.failed = S.failed
  /\ R.chat = S.chat /\ R.alive = S.alive /\ R.working = S.working /\ R.query = S.query

Quiet(S, R) ==
  /\ SameIds(S, R)
  /\ R.events = S.events /\ R.boundary = S.boundary /\ R.thread = S.thread

(* A callback, or a query-complete, is over.                               *)
Popping(S, R) ==
  /\ SameIds(S, R) /\ R.events = Tail(S.events)
  /\ R.thread["tail"] = S.thread["tail"] /\ R.thread["chain"].at = "none"

Queued(S) ==
  /\ S.chat \in Seq(SUBSET TextRecords)
  /\ S.events \in Seq(OutputRecords) /\ S.events # <<>>

(* The chain waits in the callback of an output.                           *)
Handling(S) ==
  /\ OutShape(S) /\ Queued(S) /\ S.channel = "edits"
  /\ NoStreams(S) /\ InRuns(S) /\ Ids(S)
  /\ IsOutput(S.events[1]) /\ ~S.boundary

Edits(S, R) == R.channel = S.channel /\ R.chat = S.chat /\ EditsInv(R)

(* The boundary between turns, before an output.                           *)
Bound(S) ==
  /\ OutShape(S) /\ Queued(S) /\ S.channel = "edits"
  /\ NoStreams(S) /\ InRuns(S) /\ Ids(S) /\ IsOutput(S.events[1])

Rebound(S, R) ==
  /\ OutShape(R) /\ R.channel = S.channel /\ R.chat = S.chat /\ R.events = S.events
  /\ R.thread = S.thread /\ R.handle = S.handle
  /\ R.armed = S.armed \/ R.armed = FALSE
  /\ R.failed = S.failed \/ R.failed = FALSE
  /\ R.alive = S.alive /\ R.working = S.working /\ R.query = S.query

(* An output in hand lands in a bubble, a new one or one that is edited.   *)
Lands(S, M, bubble, what) ==
  /\ OutShape(M) /\ M.chat \in Seq(SUBSET TextRecords)
  /\ M.channel = S.channel /\ M.events = S.events /\ M.thread = S.thread
  /\ M.handle = S.handle /\ M.armed = S.armed /\ M.failed = S.failed
  /\ M.boundary = S.boundary /\ M.progressive = S.progressive /\ M.last = S.last
  /\ M.alive = S.alive /\ M.working = S.working /\ M.query = S.query
  /\ Len(M.chat) >= Len(S.chat) /\ bubble \in 1..Len(M.chat) /\ M.chat[bubble] = what
  /\ \A b \in 1..Len(S.chat) : b # bubble => M.chat[b] = S.chat[b]

-----------------------------------------------------------------------------
(* Follow-ups.  A query is clean if nothing was written to the agent from  *)
(* before it was asked until its query-complete was handled: then nothing  *)
(* was left to handle when its messages were written, the tail was over,   *)
(* and the flags of the turn are its own.                                  *)
FollowFields ==
  OutFields \cup {"hadError", "delivered", "handled", "seen", "stateSeq", "seq",
    "turnCursor", "turnText", "cursor", "inbox", "asked", "resolved", "answer",
    "over", "mixed"}

FollowShape(S) == OutShape(S) /\ FollowFields \subseteq DOMAIN S

Clean(S) == {q \in 2..S.query : q \notin S.mixed}
Opened(S) == Clean(S) \ S.over
Nobody(S) == (1..S.query) \subseteq S.over

LastText(S, q) == [query |-> q, nth |-> S.answer[q], final |-> TRUE]

(* The chain is in finalizeNativeStreamTerminal.                           *)
Finalizing(S) ==
  LET c == S.thread["chain"] IN
  c.at \in {"cancel", "settle", "plain"} \/ (c.at = "end" /\ c.stage = "unfinished")

FollowTypes(S) ==
  /\ S.cursor \in Nat /\ S.turnCursor \in Nat \cup {-1}
  /\ S.seq \in Nat /\ S.stateSeq \in Nat /\ S.stateSeq >= 1 /\ S.stateSeq <= S.seq
  /\ S.query \in 1..MaxQueries
  /\ S.turnText \subseteq Nat /\ S.inbox \subseteq Nat
  /\ DOMAIN S.asked = 1..MaxQueries /\ DOMAIN S.answer = 1..MaxQueries
  /\ \A q \in 1..MaxQueries : S.asked[q] \subseteq Nat /\ S.answer[q] \in Nat
  /\ \A q \in 1..MaxQueries : q > S.query => S.answer[q] = 0 /\ S.asked[q] = {}

(* The queue holds what has not been handled; a query-complete is the last *)
(* of its query, and an error of its agent; the last final of a query in   *)
(* the queue is its answer.                                                *)
QueueInv(S) ==
  /\ S.over \subseteq 1..S.query
  /\ \A i \in DOMAIN S.events : S.events[i].query \in (1..S.query) \ S.over
  /\ \A i, j \in DOMAIN S.events : i < j /\ ~IsOutput(S.events[i]) =>
       S.events[j].query # S.events[i].query
  /\ S.working =>
       /\ S.query \notin S.over
       /\ \A i \in DOMAIN S.events : ~IsOutput(S.events[i]) => S.events[i].query # S.query
  /\ \A i \in DOMAIN S.events : S.events[i].kind = "error" => ~S.alive

Answers(S) ==
  \A i \in DOMAIN S.events : S.events[i].kind = "final" =>
    \E j \in DOMAIN S.events :
      j >= i /\ DueAt(S.events, j, LastText(S, S.events[i].query))

(* While the tail is not over, all that is written is mixed.               *)
TailFirst(S) ==
  S.thread["tail"].at # "over" =>
    /\ Clean(S) = {}
    /\ S.inbox # {} => S.query + 1 \notin (1..MaxQueries) \ S.mixed

(* What the next clean query will be asked.                                *)
NextClean(S) ==
  S.inbox # {} /\ S.query + 1 \in (1..MaxQueries) \ S.mixed =>
    /\ Nobody(S) /\ S.inbox \subseteq S.turnText
    /\ S.turnCursor # -1 /\ S.stateSeq < S.seq

(* A clean query that is not over is the only one, and its messages are    *)
(* those of the turn.                                                      *)
OneOpen(S) ==
  \A q \in Opened(S) :
    /\ q = S.query /\ S.inbox = {} /\ 1..(q - 1) \subseteq S.over
    /\ S.turnCursor # -1 /\ S.asked[q] \subseteq S.turnText /\ S.asked[q] # {}
    /\ S.seq > 1
    /\ S.stateSeq = S.seq => ~S.handled

(* The cursor is rolled back, not forward.                                 *)
RollsBack(S) ==
  /\ S.turnCursor = -1 => S.turnText = {}
  /\ S.turnCursor # -1 /\ (S.alive \/ Clean(S) # {}) =>
       S.turnCursor <= S.cursor /\ \A m \in S.turnText : m > S.turnCursor

(* Before the first follow-up: the tail puts the cursor to 0 only if it    *)
(* has not moved, or the agent is dead.                                    *)
FirstTurn(S) ==
  /\ S.seq = 1 => S.query = 1 /\ S.seen = 1 /\ S.inbox = {} /\ (S.boundary => 1 \in S.over)
  /\ S.stateSeq = 1 => (S.turnCursor = 0 \/ S.sent) /\ (S.delivered => S.sent)
  /\ S.alive /\ S.hadError => S.stateSeq = 1
  /\ S.resolved = "error" => ~S.alive

AnsweredIn(S, q) == S.answer[q] = 0 \/ InChat(S, LastText(S, q))
KeptIn(S, q) ==
  \A m \in S.asked[q] :
    \/ m > S.cursor \/ m \in S.inbox
    \/ \E p \in 1..MaxQueries : p > q /\ m \in S.asked[p]

OverKept(S) == \A q \in Clean(S) \cap S.over : AnsweredIn(S, q) \/ KeptIn(S, q)

(* What does not depend on where the chain is.                             *)
Ledger(S) ==
  /\ FollowTypes(S) /\ QueueInv(S) /\ Answers(S) /\ TailFirst(S) /\ NextClean(S)
  /\ OneOpen(S) /\ RollsBack(S) /\ FirstTurn(S) /\ OverKept(S)

(* What is delivered of a clean query that is not over: text x is due, in  *)
(* the chat, or in one of the two places the query-complete sends from;    *)
(* and then it is in the chat, or an attempt to send it has failed.        *)
InFailure(S, x) == S.failed /\ S.failure = {x} /\ (S.buffer = {} \/ ~S.armed)
Saved(S, x) == InChat(S, x) \/ (S.armed /\ x \in S.buffer) \/ InFailure(S, x)
Tried(S, x) == InChat(S, x) \/ (S.attempted /\ ~S.delivered)

Delivering(S, x) ==
  IF Finalizing(S)
  THEN /\ S.stateSeq = S.seq
       /\ IF S.thread["chain"].at = "plain" THEN InChat(S, x) \/ x \in S.thread["chain"].texts
          ELSE Tried(S, x)
  ELSE Due(Left(S, "none"), x) \/ (S.stateSeq = S.seq /\ Saved(S, x))

OwnFlags(S) ==
  LET at == S.thread["chain"].at IN
  \A q \in Opened(S) :
    /\ ~Finalizing(S) /\ S.stateSeq = S.seq => ~S.attempted /\ ~S.delivered
    /\ ~Finalizing(S) /\ at # "none" => S.stateSeq = S.seq
    /\ ~Finalizing(S) /\ at \in {"send", "end"} => ~S.armed
    /\ at = "plain" => S.attempted /\ ~S.delivered
    /\ S.answer[q] # 0 => Delivering(S, LastText(S, q))

(* Where the chain is; a stream that has been ended is let go of.          *)
ChainAt(S) ==
  LET c == S.thread["chain"] IN
  /\ c.at # "none" =>
       S.events # <<>> /\ (Finalizing(S) <=> ~IsOutput(Head(S.events)))
  /\ c.at = "open" => Head(S.events).kind # "final"
  /\ c.at = "end" /\ ~Finalizing(S) => Head(S.events).kind = "final"
  /\ S.handle # 0 /\ S.streams[S.handle].ended => c.at = "end" /\ ~Finalizing(S)

KeptInv(S) == FollowShape(S) /\ Ledger(S) /\ OwnFlags(S) /\ ChainAt(S)

(* What a thread leaves alone while it finalizes or delivers.              *)
Books(S, R) ==
  /\ FollowShape(R)
  /\ R.cursor = S.cursor /\ R.turnCursor = S.turnCursor /\ R.seq = S.seq
  /\ R.query = S.query /\ R.turnText = S.turnText /\ R.inbox = S.inbox
  /\ R.asked = S.asked /\ R.answer = S.answer /\ R.over = S.over /\ R.mixed = S.mixed
  /\ R.events = S.events /\ R.working = S.working /\ R.alive = S.alive
  /\ R.resolved = S.resolved /\ R.channel = S.channel
  /\ \A x : InChat(S, x) => InChat(R, x)
  /\ R.thread["tail"].at = "over" <=> S.thread["tail"].at = "over"

(* The flags of the turn.                                                  *)
Flags(S, R) ==
  /\ R.stateSeq = S.stateSeq /\ R.seen = S.seen /\ R.boundary = S.boundary
  /\ R.hadError = S.hadError /\ R.handled = S.handled

(* A stage of finalizeNativeStreamTerminal, of thread t.                   *)
Path(S, M, t) ==
  /\ Books(S, M) /\ Flags(S, M)
  /\ M.chat = S.chat /\ M.delivered = S.delivered
  /\ S.sent => M.sent
  /\ S.attempted => M.attempted
  /\ \A u \in Out!Threads : u # t => M.thread[u] = S.thread[u]
  /\ M.handle = 0 \/ (M.handle = S.handle /\ M.streams = S.streams)

AtRest(S, M, t) ==
  LET c == M.thread[t] IN
  /\ c.at \in {"cancel", "settle", "plain"} \/ (c.at = "end" /\ c.stage = "unfinished")
  /\ c.at = "plain" => ~S.attempted /\ M.attempted /\ ~M.delivered

Stops(S, R, t) ==
  \E M : Path(S, M, t) /\ (R = Out!Verdict(M, t) \/ (R = M /\ AtRest(S, M, t)))

(* The tail is not over while it moves.                                    *)
Moves(S, t) ==
  /\ FollowShape(S) /\ t \in Out!Threads
  /\ t = "tail" => S.thread["tail"].at # "over"

(* What thread t counts on in finalizeNativeStreamTerminal; the answer of  *)
(* a clean query is in the chat, or an attempt to send it has failed.      *)
Base(S, t) ==
  /\ FollowShape(S) /\ S.events \in Seq(OutputRecords) /\ Ledger(S)
  /\ t = "chain" =>
       /\ S.events # <<>> /\ ~IsOutput(Head(S.events))
       /\ S.handle # 0 => ~S.streams[S.handle].ended
  /\ t = "tail" => S.thread["tail"].at # "over" /\ ChainAt(S)

Attempted(S, t) ==
  t = "chain" => \A q \in Opened(S) :
    S.answer[q] # 0 => S.stateSeq = S.seq /\ Tried(S, LastText(S, q))

(* The verdict, but for the return of thread t.                            *)
Asked(V, others) ==
  V.inbox # {} /\ V.query + 1 \in (1..MaxQueries) \ V.mixed =>
    /\ others /\ V.inbox \subseteq V.turnText
    /\ V.turnCursor # -1 /\ V.stateSeq < V.seq

Judged(V, t) ==
  /\ FollowShape(V) /\ V.events \in Seq(OutputRecords)
  /\ FollowTypes(V) /\ QueueInv(V) /\ Answers(V) /\ TailFirst(V)
  /\ RollsBack(V) /\ FirstTurn(V) /\ OverKept(V)
  /\ t = "chain" =>
       /\ V.events # <<>> /\ ~IsOutput(Head(V.events))
       /\ V.handle # 0 => ~V.streams[V.handle].ended
       /\ \A q \in Opened(V) :
            q = Head(V.events).query /\ (AnsweredIn(V, q) \/ KeptIn(V, q))
       /\ Asked(V, (1..V.query) \ {Head(V.events).query} \subseteq V.over)
  /\ t = "tail" =>
       /\ V.thread["tail"].at # "over" /\ ChainAt(V)

Fails(S) == (S.failed \/ (S.attempted /\ ~S.delivered)) /\ ~S.handled

(* requestDeliveryRetry: the cursor is rolled back, and the messages of    *)
(* the turn are written again if an agent is there to read them.           *)
Retries(S, V, others) ==
  /\ FollowShape(V) /\ V.thread = S.thread /\ V.chat = S.chat
  /\ V.cursor = IF S.turnCursor = -1 THEN S.cursor ELSE S.turnCursor
  /\ V.turnCursor = S.turnCursor /\ V.turnText = S.turnText
  /\ V.stateSeq = S.stateSeq /\ V.seen = S.seen /\ V.query = S.query
  /\ V.asked = S.asked /\ V.answer = S.answer /\ V.over = S.over /\ V.events = S.events
  /\ V.working = S.working /\ V.alive = S.alive /\ V.resolved = S.resolved
  /\ V.boundary = S.boundary /\ V.hadError = S.hadError
  /\ V.sent = S.sent /\ V.delivered = S.delivered
  /\ V.handle = S.handle /\ V.streams = S.streams
  /\ \/ V.inbox = S.inbox /\ V.seq = S.seq /\ V.mixed = S.mixed
     \/ /\ S.turnCursor # -1
        /\ V.inbox = S.inbox \cup S.turnText /\ V.seq = S.seq + 1
        /\ V.mixed = IF others = {} /\ S.thread["tail"].at = "over" THEN S.mixed
                     ELSE S.mixed \cup others \cup ({S.query + 1} \cap 1..MaxQueries)

(* The world has moved on: a message is in the chat, or something failed.  *)
Onwards(S, D) ==
  /\ Books(S, D) /\ Flags(S, D) /\ D.thread = S.thread
  /\ (S.sent => D.sent) /\ (D.delivered => D.sent \/ S.delivered)
  /\ (S.attempted => D.attempted)
  /\ D.handle = S.handle
  /\ S.handle # 0 => D.streams[S.handle].ended = S.streams[S.handle].ended

(* The callback of an output: es are the outputs it has not delivered yet. *)
Handing(S, es) ==
  /\ FollowShape(S) /\ S.channel = "native"
  /\ S.events \in Seq(OutputRecords) /\ S.events # <<>> /\ IsOutput(Head(S.events))
  /\ Ledger(S)
  /\ \A q \in Opened(S) :
       /\ S.stateSeq = S.seq /\ ~S.attempted /\ ~S.delivered
       /\ S.answer[q] # 0 => Due(es, LastText(S, q)) \/ Saved(S, LastText(S, q))

HandleOpen(S) ==
  S.handle # 0 => /\ S.handle \in DOMAIN S.streams
                  /\ S.streams[S.handle] \in StreamRecords
                  /\ ~S.streams[S.handle].ended

Carries(S, D) ==
  /\ Books(S, D) /\ Flags(S, D)
  /\ (S.sent => D.sent) /\ D.delivered = S.delivered /\ D.attempted = S.attempted

(* The agent queues an output.                                             *)
Enqueues(S, R, o) ==
  /\ FollowShape(R) /\ R.events = Append(S.events, o) /\ o \in OutputRecords
  /\ S.alive /\ S.working /\ o.query = S.query
  /\ R.cursor = S.cursor /\ R.turnCursor = S.turnCursor /\ R.seq = S.seq
  /\ R.query = S.query /\ R.turnText = S.turnText /\ R.inbox = S.inbox
  /\ R.asked = S.asked /\ R.over = S.over /\ R.mixed = S.mixed
  /\ R.stateSeq = S.stateSeq /\ R.seen = S.seen /\ R.boundary = S.boundary
  /\ R.hadError = S.hadError /\ R.handled = S.handled
  /\ R.sent = S.sent /\ R.delivered = S.delivered /\ R.attempted = S.attempted
  /\ R.armed = S.armed /\ R.buffer = S.buffer
  /\ R.failed = S.failed /\ R.failure = S.failure
  /\ R.chat = S.chat /\ R.thread = S.thread
  /\ R.handle = S.handle /\ R.streams = S.streams
  /\ (R.alive => S.alive) /\ (R.working => IsOutput(o))
  /\ (o.kind = "error" => ~R.alive) /\ (R.resolved = "error" => ~R.alive)
  /\ DOMAIN R.answer = DOMAIN S.answer
  /\ R.answer[S.query] = IF o.kind = "final" THEN o.nth ELSE S.answer[S.query]
  /\ \A q \in DOMAIN S.answer : q # S.query => R.answer[q] = S.answer[q]

(* The agent dies, or a stream changes: nothing else does.                 *)
Still(S, R) ==
  /\ FollowShape(R) /\ R.chat = S.chat /\ R.thread = S.thread
  /\ R.cursor = S.cursor /\ R.turnCursor = S.turnCursor /\ R.seq = S.seq
  /\ R.query = S.query /\ R.turnText = S.turnText /\ R.inbox = S.inbox
  /\ R.asked = S.asked /\ R.answer = S.answer /\ R.over = S.over /\ R.mixed = S.mixed
  /\ R.events = S.events
  /\ R.stateSeq = S.stateSeq /\ R.seen = S.seen /\ R.boundary = S.boundary
  /\ R.hadError = S.hadError /\ R.handled = S.handled
  /\ R.delivered = S.delivered /\ R.sent = S.sent /\ R.attempted = S.attempted
  /\ R.armed = S.armed /\ R.buffer = S.buffer
  /\ R.failed = S.failed /\ R.failure = S.failure
  /\ R.handle = S.handle
  /\ S.handle # 0 => R.streams[S.handle].ended = S.streams[S.handle].ended
  /\ (R.alive => S.alive) /\ (R.working => S.working)
  /\ R.resolved = "error" => ~R.alive

(* A message is piped: every query that is not over is mixed from now on.  *)
Pipes(S, R, m) ==
  /\ FollowShape(R) /\ R.chat = S.chat /\ R.thread = S.thread
  /\ R.inbox = S.inbox \cup (S.cursor + 1)..m /\ R.seq = S.seq + 1
  /\ R.turnText = S.turnText \cup (S.cursor + 1)..m
  /\ R.mixed = IF Out!Unhandled(S) = {} /\ S.thread["tail"].at = "over" THEN S.mixed
               ELSE S.mixed \cup Out!Unhandled(S) \cup ({S.query + 1} \cap 1..MaxQueries)
  /\ R.turnCursor = IF S.turnCursor = -1 THEN S.cursor ELSE S.turnCursor
  /\ R.cursor = m
  /\ R.query = S.query /\ R.asked = S.asked /\ R.answer = S.answer /\ R.over = S.over
  /\ R.events = S.events /\ R.alive = S.alive /\ R.working = S.working
  /\ R.resolved = S.resolved
  /\ R.stateSeq = S.stateSeq /\ R.seen = S.seen /\ R.boundary = S.boundary
  /\ R.hadError = S.hadError /\ R.delivered = S.delivered /\ R.sent = S.sent
  /\ R.handle = S.handle /\ R.streams = S.streams

FollowInv(S) == IdsInv(S) /\ (S.channel = "native" => KeptInv(S))
=============================================================================
