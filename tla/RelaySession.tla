---------------------------- MODULE RelaySession ----------------------------
(***************************************************************************)
(* The daemon's end of the Teams relay, src/channels/teams-relay-client.ts *)
(* and teams-outbound-sender.ts, joined over gRPC calls with the relay's   *)
(* end, relay/src/grpc-server.ts, and with its broker (RelayBroker).       *)
(*                                                                         *)
(* The daemon serves one bot.  A call has a queue of frames either way; it *)
(* can break, losing what is under way, and each side learns of that in    *)
(* its own time.  Frames that only report (acks of activities, results of  *)
(* replies, heartbeats, overflow notices) change nothing on either side:   *)
(* both handlers log them.                                                 *)
(***************************************************************************)
EXTENDS Integers, Sequences, FiniteSets

CONSTANTS
  MaxPerBot,     \* the relay's buffer
  MaxArrivals,   \* bound: activities
  MaxReplies,    \* bound: replies
  MaxCalls,      \* bound: calls of the daemon
  MaxFaults,     \* bound: what fails in the network, the relay or Teams
  MaxBackoff     \* doublings from backoffMinMs to backoffMaxMs

VARIABLES
  box, serves, attached,  \* the broker's
  calls,      \* every call, as the network and the relay have it
  posting,    \* replies whose deliverOutbound is running
  posted,     \* replies that reached Teams, in that order
  daemon,     \* the TeamsRelayClient, and what its users saw
  faults

broker == <<box, serves, attached>>
vars == <<box, serves, attached, calls, posting, posted, daemon, faults>>

Bot == "bot"
Calls == 1..MaxCalls
NoCall == 0
Hello == 0     \* a frame: the Hello and its AttachAck, or a number

Broker == INSTANCE RelayBroker WITH Bots <- {Bot}, MaxStreams <- MaxCalls

CallStates ==
  [ wire    : {"none", "up", "cut", "ended"},
    server  : {"none", "validating", "open", "attached", "closed"},
    session : 0..MaxCalls,
    up      : Seq(Hello..MaxReplies),
    down    : Seq(Hello..MaxArrivals) ]

DaemonStates ==
  [ call     : Calls \cup {NoCall},
    timer    : BOOLEAN,                \* reconnectTimer
    stopped  : BOOLEAN,
    attached : BOOLEAN,                \* the AttachAck has been read
    backoff  : 0..MaxBackoff,
    dials    : 0..MaxCalls,
    sent     : 0..MaxReplies,          \* replies the sender is done with
    refused  : SUBSET (1..MaxReplies), \* ... of which it rejected
    handled  : Seq(1..MaxArrivals) ]   \* ghost: activities given to onInbound

NotDialled ==
  [wire |-> "none", server |-> "none", session |-> 0, up |-> <<>>, down |-> <<>>]

Init ==
  /\ Broker!Init
  /\ calls = [k \in Calls |-> NotDialled]
  /\ posting = {} /\ posted = <<>> /\ faults = 0
  /\ daemon = [call |-> NoCall, timer |-> TRUE, stopped |-> FALSE,
               attached |-> FALSE, backoff |-> 0, dials |-> 0, sent |-> 0,
               refused |-> {}, handled |-> <<>>]

Fault == faults < MaxFaults /\ faults' = faults + 1

-----------------------------------------------------------------------------
(* The relay.                                                              *)
Mail == box[Bot]

(* What the broker's step has pushed, and the call it is written to.       *)
Pushed == SubSeq(Mail'.pushed, Len(Mail.pushed) + 1, Len(Mail'.pushed))

Written(c, frames) == IF c.wire = "up" THEN [c EXCEPT !.down = @ \o frames] ELSE c

(* An activity comes in at the north edge.                                 *)
EnqueueInbound ==
  /\ Broker!EnqueueInbound(Bot)
  /\ calls' = [k \in Calls |->
                 IF calls[k].server = "attached" /\ calls[k].session = Mail.stream
                 THEN Written(calls[k], Pushed) ELSE calls[k]]
  /\ UNCHANGED <<posting, posted, daemon, faults>>

Age ==
  /\ Broker!Expire(Bot) \/ Broker!Sweep
  /\ UNCHANGED <<calls, posting, posted, daemon, faults>>

(* validateSouthToken has answered.  Until then nobody listens to the call. *)
Validated(k) ==
  /\ calls[k].server = "validating"
  /\ \/ calls' = [calls EXCEPT ![k].server = "open"] /\ UNCHANGED faults
     \/ calls' = [calls EXCEPT ![k].server = "closed"] /\ Fault
  /\ UNCHANGED <<broker, posting, posted, daemon>>

(* The broker flushes into the stream before the AttachAck is written.     *)
ReadHello(k) ==
  /\ calls[k].server = "open" /\ calls[k].up # <<>>
  /\ Broker!AttachStream({Bot})
  /\ calls' = [calls EXCEPT ![k] =
       Written([@ EXCEPT !.server = "attached", !.session = attached',
                         !.up = Tail(calls[k].up)], Append(Pushed, Hello))]
  /\ UNCHANGED <<posting, posted, daemon, faults>>

(* A reply is posted while the next frames are read.                       *)
ReadReply(k) ==
  /\ calls[k].server = "attached" /\ calls[k].up # <<>>
  /\ posting' = posting \cup {Head(calls[k].up)}
  /\ calls' = [calls EXCEPT ![k].up = Tail(@)]
  /\ UNCHANGED <<broker, posted, daemon, faults>>

(* deliverOutbound: the Connector takes the reply, or something fails.     *)
DeliverOutbound(n) ==
  /\ n \in posting
  /\ posting' = posting \ {n}
  /\ \/ posted' = Append(posted, n) /\ UNCHANGED faults
     \/ UNCHANGED posted /\ Fault
  /\ UNCHANGED <<broker, calls, daemon>>

(* Mutant: a stream is forgotten only when its call breaks.                *)
CloseStreamIfCut(k) ==
  /\ calls[k].server \in {"validating", "open", "attached"}
  /\ \/ calls[k].wire = "cut"
     \/ calls[k].wire = "ended" /\ calls[k].up = <<>> /\ calls[k].server # "validating"
  /\ IF calls[k].server = "attached" /\ calls[k].wire = "cut"
     THEN Broker!DetachStream(calls[k].session)
     ELSE UNCHANGED broker
  /\ calls' = [calls EXCEPT ![k].server = "closed", ![k].up = <<>>]
  /\ UNCHANGED <<posting, posted, daemon, faults>>

(* The relay learns that the call is over.  A call that breaks while its   *)
(* token is validated is destroyed, its Hello with it.                     *)
CloseStream(k) ==
  /\ calls[k].server \in {"validating", "open", "attached"}
  /\ \/ calls[k].wire = "cut"
     \/ calls[k].wire = "ended" /\ calls[k].up = <<>> /\ calls[k].server # "validating"
  /\ IF calls[k].server = "attached"
     THEN Broker!DetachStream(calls[k].session)
     ELSE UNCHANGED broker
  /\ calls' = [calls EXCEPT ![k].server = "closed", ![k].up = <<>>]
  /\ UNCHANGED <<posting, posted, daemon, faults>>

-----------------------------------------------------------------------------
(* The network and the machines.                                           *)
(* A call breaks: the first i and j frames have arrived, the others are    *)
(* lost.                                                                   *)
Broken(c, i, j) ==
  [c EXCEPT !.wire = "cut", !.up = SubSeq(@, 1, i), !.down = SubSeq(@, 1, j)]

Break ==
  /\ Fault
  /\ \E k \in Calls :
       /\ calls[k].wire = "up"
       /\ \E i \in 0..Len(calls[k].up), j \in 0..Len(calls[k].down) :
            calls' = [calls EXCEPT ![k] = Broken(@, i, j)]
  /\ UNCHANGED <<broker, posting, posted, daemon>>

(* The relay is deployed anew: its buffer and its streams are gone.        *)
RestartRelay ==
  /\ Fault
  /\ box' = [box EXCEPT ![Bot] =
       [Broker!EmptyBox EXCEPT !.arrived = Mail.arrived, !.pushed = Mail.pushed,
                               !.told = Mail.told]]
  /\ serves' = [s \in Calls |-> {}]
  /\ calls' = [k \in Calls |->
       IF calls[k].server \in {"none", "closed"} THEN calls[k]
       ELSE [Broken(calls[k], 0, Len(calls[k].down)) EXCEPT !.server = "closed"]]
  /\ posting' = {}
  /\ UNCHANGED <<attached, posted, daemon>>

-----------------------------------------------------------------------------
(* The daemon.                                                             *)
(* connect, by the reconnect timer or at the start.  The Hello is the      *)
(* first frame; the relay may be out of reach.                             *)
Connect ==
  /\ daemon.timer /\ daemon.dials < MaxCalls
  /\ LET k == daemon.dials + 1 IN
     /\ daemon' = [daemon EXCEPT !.timer = FALSE, !.call = k, !.dials = k]
     /\ \/ /\ calls' = [calls EXCEPT ![k].wire = "up", ![k].server = "validating",
                                     ![k].up = <<Hello>>]
           /\ UNCHANGED faults
        \/ /\ calls' = [calls EXCEPT ![k].wire = "cut", ![k].server = "closed"]
           /\ Fault
  /\ UNCHANGED <<broker, posting, posted>>

(* Mutant: a call that is over still has its listeners.                    *)
OnToNclOfAny(k) ==
  /\ daemon.call # NoCall /\ calls[k].down # <<>>
  /\ calls' = [calls EXCEPT ![k].down = Tail(@)]
  /\ daemon' = IF Head(calls[k].down) = Hello
               THEN [daemon EXCEPT !.attached = TRUE, !.backoff = 0]
               ELSE [daemon EXCEPT !.handled = Append(@, Head(calls[k].down))]
  /\ UNCHANGED <<broker, posting, posted, faults>>

(* onToNcl, with handleInbound                                             *)
OnToNcl(k) ==
  /\ daemon.call = k /\ calls[k].down # <<>>
  /\ calls' = [calls EXCEPT ![k].down = Tail(@)]
  /\ daemon' = IF Head(calls[k].down) = Hello
               THEN [daemon EXCEPT !.attached = TRUE, !.backoff = 0]
               ELSE [daemon EXCEPT !.handled = Append(@, Head(calls[k].down))]
  /\ UNCHANGED <<broker, posting, posted, faults>>

(* The error or the end of the call: teardownCall and scheduleReconnect.   *)
CallOver(k) ==
  /\ daemon.call = k
  /\ calls[k].wire = "cut" \/ calls[k].server = "closed"
  /\ daemon' = [daemon EXCEPT !.call = NoCall, !.attached = FALSE, !.timer = TRUE,
                  !.backoff = IF @ < MaxBackoff THEN @ + 1 ELSE @]
  /\ UNCHANGED <<broker, calls, posting, posted, faults>>

Stop ==
  /\ ~daemon.stopped
  /\ daemon' = [daemon EXCEPT !.stopped = TRUE, !.timer = FALSE, !.call = NoCall,
                              !.attached = FALSE]
  /\ calls' = [k \in Calls |->
                 IF k = daemon.call /\ calls[k].wire = "up"
                 THEN [calls[k] EXCEPT !.wire = "ended"] ELSE calls[k]]
  /\ UNCHANGED <<broker, posting, posted, faults>>

(* The sender of makeRelaySender: a reply is done with once it is written, *)
(* attached or not, and whether or not the call is still whole; without a  *)
(* call it is tried again, and given up in the end.                        *)
SendReply ==
  /\ daemon.sent < MaxReplies
  /\ LET n == daemon.sent + 1  k == daemon.call IN
     \/ /\ k # NoCall
        /\ daemon' = [daemon EXCEPT !.sent = n]
        /\ calls' = IF calls[k].wire = "up"
                    THEN [calls EXCEPT ![k].up = Append(@, n)] ELSE calls
     \/ /\ k = NoCall
        /\ daemon' = [daemon EXCEPT !.sent = n, !.refused = @ \cup {n}]
        /\ UNCHANGED calls
  /\ UNCHANGED <<broker, posting, posted, faults>>

Relay ==
  \/ EnqueueInbound \/ Age
  \/ \E k \in Calls : Validated(k) \/ ReadHello(k) \/ ReadReply(k) \/ CloseStream(k)
  \/ \E n \in posting : DeliverOutbound(n)

Daemon ==
  \/ Connect \/ Stop \/ SendReply
  \/ \E k \in Calls : OnToNcl(k) \/ CallOver(k)

Next == Relay \/ Daemon \/ Break \/ RestartRelay

Spec == Init /\ [][Next]_vars

(* Timers fire, frames that are there are read, and a call that is over is *)
(* noticed on both sides; nothing says that messages come or are sent.     *)
FairSpec ==
  /\ Spec
  /\ WF_vars(Connect)
  /\ \A k \in Calls :
       /\ WF_vars(Validated(k)) /\ WF_vars(ReadHello(k)) /\ WF_vars(ReadReply(k))
       /\ WF_vars(CloseStream(k)) /\ WF_vars(OnToNcl(k)) /\ WF_vars(CallOver(k))

-----------------------------------------------------------------------------
(* Types.                                                                  *)
TypeOK ==
  /\ Broker!TypeOK
  /\ calls \in [Calls -> CallStates]
  /\ posting \subseteq 1..MaxReplies
  /\ posted \in Seq(1..MaxReplies)
  /\ daemon \in DaemonStates
  /\ faults \in 0..MaxFaults

(* The client has a call, or a timer for the next one, or has been         *)
(* stopped: never two of these, never none.                                *)
OneCall ==
  <<daemon.call # NoCall, daemon.timer, daemon.stopped>> \in
    {<<TRUE, FALSE, FALSE>>, <<FALSE, TRUE, FALSE>>, <<FALSE, FALSE, TRUE>>}

Landed == {posted[i] : i \in DOMAIN posted}

Increasing(seq) == \A i, j \in DOMAIN seq : i < j => seq[i] < seq[j]

(* Over all its calls the daemon, which has one call at a time, is given   *)
(* every activity at most once and in the order in which they arrived: a   *)
(* stream the relay still holds, a flushed buffer and a call that breaks   *)
(* half-way repeat and overtake nothing.  A reply is posted once at most,  *)
(* and one that the sender rejected, so that its caller sends it another   *)
(* way, is not posted.                                                     *)
(* src/channels/teams-relay-client.ts, relay/src/broker.ts                 *)
InOrderOnce ==
  /\ OneCall
  /\ Increasing(daemon.handled)
  /\ Cardinality(Landed) = Len(posted)
  /\ Landed \cap daemon.refused = {}

(* Once the faults are over the daemon ends up attached and stays so; and  *)
(* if it has been stopped, the broker ends up with no stream for its bot,  *)
(* so that activities wait in the buffer and are not written to a call     *)
(* nobody reads.                                                           *)
Settles ==
  <>[](IF daemon.stopped THEN Mail.stream = 0 ELSE daemon.attached)
=============================================================================
