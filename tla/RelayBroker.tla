----------------------------- MODULE RelayBroker -----------------------------
(***************************************************************************)
(* The broker of the Teams relay, relay/src/broker.ts, with the life of a  *)
(* stream of relay/src/grpc-server.ts: activities that arrive for a bot go *)
(* to the stream attached for it, or wait in a buffer with a capacity and  *)
(* a time to live; drops are announced to the next stream.                 *)
(*                                                                         *)
(* Streams are numbered in the order they attach (the session id).  All    *)
(* items of a buffer have the same time to live, so those that expired are *)
(* the first `expired' of it.  Pushing is writing to the stream: what the  *)
(* connection then loses is lost (delivery is at most once).               *)
(***************************************************************************)
EXTENDS Integers, Sequences, FiniteSets

CONSTANTS
  Bots,
  MaxPerBot,     \* bufferMaxPerBot
  MaxArrivals,   \* bound: activities per bot
  MaxStreams     \* bound: streams that attach

ASSUME BrokerAssumption ==
  /\ MaxPerBot \in Nat \ {0}
  /\ MaxArrivals \in Nat
  /\ MaxStreams \in Nat

VARIABLES
  box,       \* the maps streamsByBot, buffers and pendingOverflow, by bot
  serves,    \* streamsBySession: the bots of each stream that is attached
  attached   \* how many streams have attached so far

vars == <<box, serves, attached>>

Streams == 1..MaxStreams
NoStream == 0

Boxes ==
  [ stream  : Streams \cup {NoStream},
    buffer  : Seq(Nat),
    expired : Nat,
    pending : Nat,             \* pendingOverflow
    latest  : Streams \cup {NoStream},  \* ghost: the last to attach
    arrived : Nat,             \* ghost: activities accepted
    pushed  : Seq(Nat),        \* ghost: activities written to a stream
    told    : Nat ]            \* ghost: drops announced to a stream

EmptyBox ==
  [ stream |-> NoStream, buffer |-> << >>, expired |-> 0, pending |-> 0,
    latest |-> NoStream, arrived |-> 0, pushed |-> << >>, told |-> 0 ]

Init ==
  /\ box = [b \in Bots |-> EmptyBox]
  /\ serves = [s \in Streams |-> {}]
  /\ attached = 0

-----------------------------------------------------------------------------
(* notifyOverflowLater                                                     *)
NotifyOverflowLater(x, count) ==
  IF x.stream # NoStream THEN [x EXCEPT !.told = @ + count]
  ELSE [x EXCEPT !.pending = @ + count]

Pushed(x) ==
  [x EXCEPT !.arrived = @ + 1, !.pushed = Append(@, x.arrived + 1)]

Put(x) ==
  [x EXCEPT !.arrived = @ + 1, !.buffer = Append(@, x.arrived + 1)]

(* The oldest item gives way, whether or not it has expired.               *)
Shifted(x) ==
  LET e == IF x.expired > 0 THEN x.expired - 1 ELSE 0 IN
  NotifyOverflowLater([x EXCEPT !.buffer = Tail(@), !.expired = e], 1)

(* An activity for the bot of box x.                                       *)
Enqueued(x) ==
  IF x.stream # NoStream THEN Pushed(x)
  ELSE IF Len(x.buffer) >= MaxPerBot THEN Put(Shifted(x)) ELSE Put(x)

Unexpired(x) == SubSeq(x.buffer, x.expired + 1, Len(x.buffer))

(* Mutant: what has expired is flushed too.                                *)
FlushedAll(x, s) ==
  [x EXCEPT !.stream = s, !.latest = s, !.buffer = << >>, !.expired = 0,
            !.pending = 0, !.pushed = @ \o x.buffer,
            !.told = @ + x.pending + x.expired]

Emptied(x) ==
  [x EXCEPT !.buffer = << >>, !.expired = 0, !.pending = 0,
            !.pushed = @ \o Unexpired(x), !.told = @ + x.pending]

(* Stream s takes the bot of box x over.                                   *)
Flushed(x, s) ==
  Emptied(NotifyOverflowLater([x EXCEPT !.stream = s, !.latest = s],
                              x.expired))

(* Mutant: the swept items are not counted.                                *)
SweptSilently(x) == [x EXCEPT !.buffer = Unexpired(x), !.expired = 0]

Swept(x) ==
  NotifyOverflowLater([x EXCEPT !.buffer = Unexpired(x), !.expired = 0],
                      x.expired)

-----------------------------------------------------------------------------
EnqueueInbound(b) ==
  /\ box[b].arrived < MaxArrivals
  /\ box' = [box EXCEPT ![b] = Enqueued(@)]
  /\ UNCHANGED <<serves, attached>>

(* A stream says Hello for the bots B, of which it may serve at least one. *)
AttachStream(B) ==
  /\ attached < MaxStreams
  /\ B # {}
  /\ attached' = attached + 1
  /\ serves' = [serves EXCEPT ![attached + 1] = B]
  /\ box' = [b \in Bots |->
               IF b \in B THEN Flushed(box[b], attached + 1) ELSE box[b]]

(* Mutant: detaching forgets who has replaced the stream.                  *)
DetachAnybody(s) ==
  /\ serves[s] # {}
  /\ serves' = [serves EXCEPT ![s] = {}]
  /\ box' = [b \in Bots |->
               IF b \in serves[s] THEN [box[b] EXCEPT !.stream = NoStream]
               ELSE box[b]]
  /\ UNCHANGED attached

(* Stream s ends, fails or is cancelled.                                   *)
DetachStream(s) ==
  /\ serves[s] # {}
  /\ serves' = [serves EXCEPT ![s] = {}]
  /\ box' = [b \in Bots |->
               IF b \in serves[s] /\ box[b].stream = s
               THEN [box[b] EXCEPT !.stream = NoStream]
               ELSE box[b]]
  /\ UNCHANGED attached

(* The interval timer.                                                     *)
Sweep ==
  /\ \E b \in Bots : box[b].expired > 0
  /\ box' = [b \in Bots |-> Swept(box[b])]
  /\ UNCHANGED <<serves, attached>>

(* Time passes: the oldest unexpired item of a buffer expires.             *)
Expire(b) ==
  /\ box[b].expired < Len(box[b].buffer)
  /\ box' = [box EXCEPT ![b].expired = @ + 1]
  /\ UNCHANGED <<serves, attached>>

Next ==
  \/ \E b \in Bots : EnqueueInbound(b)
  \/ \E B \in SUBSET Bots : AttachStream(B)
  \/ \E s \in Streams : DetachStream(s)
  \/ Sweep
  \/ \E b \in Bots : Expire(b)

Spec == Init /\ [][Next]_vars

-----------------------------------------------------------------------------
(* Types, and the capacity of a buffer.                                    *)
TypeOK ==
  /\ box \in [Bots -> Boxes]
  /\ serves \in [Streams -> SUBSET Bots]
  /\ attached \in 0..MaxStreams
  /\ \A b \in Bots : /\ box[b].expired <= Len(box[b].buffer)
                     /\ Len(box[b].buffer) <= MaxPerBot

(* Every accepted activity is accounted for: pushed once, waiting, or in   *)
(* the count of a notice, given or still owed.                             *)
Accounted ==
  \A b \in Bots :
    LET x == box[b] IN
    x.arrived = Len(x.pushed) + Len(x.buffer) + x.pending + x.told

(* While a stream is there for a bot nothing of it waits, no notice is     *)
(* owed, and the stream is attached and serves the bot: a stream that is   *)
(* gone is never pushed to, however attaching and detaching interleave.    *)
StreamIsLive ==
  \A b \in Bots :
    box[b].stream # NoStream =>
      /\ b \in serves[box[b].stream]
      /\ box[b].buffer = << >>
      /\ box[b].pending = 0

(* The stream that attached last for a bot has it until it detaches: the   *)
(* late detach of a stream it replaced does not unplug it.                 *)
LastWriterWins ==
  \A b \in Bots :
    LET s == box[b].latest IN
    s # NoStream /\ b \in serves[s] => box[b].stream = s

(* The registry of streams is right: no bot has a stream that is gone, and *)
(* none is without the stream that attached last and is still there.       *)
StreamsRight == StreamIsLive /\ LastWriterWins

MailOf(x) ==
  [ arrived |-> x.arrived, waiting |-> x.buffer, out |-> x.pushed,
    missed |-> x.pending, told |-> x.told ]

Promise ==
  INSTANCE Mailbox WITH
    Owners <- Bots, Capacity <- MaxPerBot,
    mail <- [b \in Bots |-> MailOf(box[b])]

(* The broker implements a mailbox for every bot: at most once, in order,  *)
(* and every drop announced.                                               *)
ImplementsMailbox == Promise!Spec
=============================================================================
