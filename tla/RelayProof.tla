------------------------------ MODULE RelayProof ------------------------------
(***************************************************************************)
(* Proofs about the relay.  RelayBroker: for any bots, any capacity and    *)
(* any number of streams and activities; the invariant has a part about    *)
(* each box, kept by the operators on boxes, and a part about the registry *)
(* of streams.  RelaySession: for any capacity and any number of calls,    *)
(* activities, replies and faults.                                         *)
(***************************************************************************)
EXTENDS MCRelay, SequenceTheorems, FiniteSetTheorems, TLAPS

(* How many activities a box holds and has handed on.                      *)
Held(x) == Len(x.buffer)
Out(x) == Len(x.pushed)

(* One box: types, bounds, accounting, and nothing held beside a stream.   *)
BoxInv(x) ==
  /\ x \in Boxes
  /\ x.expired <= Held(x)
  /\ Held(x) <= MaxPerBot
  /\ x.arrived = Out(x) + Held(x) + x.pending + x.told
  /\ x.stream # NoStream => x.buffer = << >> /\ x.pending = 0

(* The registry: streams beyond the counter do not serve, the stream of a  *)
(* bot serves it, and the last one to attach has the bot while it does.    *)
RegistryInv ==
  /\ serves \in [Streams -> SUBSET Bots]
  /\ attached \in 0..MaxStreams
  /\ \A s \in Streams : s > attached => serves[s] = {}
  /\ \A b \in Bots :
       /\ box[b].latest <= attached
       /\ box[b].stream # NoStream => b \in serves[box[b].stream]
       /\ box[b].latest # NoStream /\ b \in serves[box[b].latest]
            => box[b].stream = box[b].latest

IInv ==
  /\ box \in [Bots -> Boxes]
  /\ \A b \in Bots : BoxInv(box[b])
  /\ RegistryInv

-----------------------------------------------------------------------------
(* Dropping a prefix of a sequence of naturals leaves such a sequence, as  *)
(* long as the prefix is short.                                            *)
LEMMA Suffix ==
  ASSUME NEW q \in Seq(Nat), NEW k \in 0..Len(q)
  PROVE  /\ SubSeq(q, k + 1, Len(q)) \in Seq(Nat)
         /\ Len(SubSeq(q, k + 1, Len(q))) = Len(q) - k
<1>1. \A i \in (k + 1)..Len(q) : q[i] \in Nat
  OBVIOUS
<1>2. SubSeq(q, k + 1, Len(q)) \in Seq(Nat)
  BY <1>1, SubSeqProperties
<1>3. Len(SubSeq(q, k + 1, Len(q))) = Len(q) - k
  BY SubSeqProperties
<1> QED
  BY <1>2, <1>3

(* Concatenation adds lengths.                                             *)
LEMMA Joined ==
  ASSUME NEW p \in Seq(Nat), NEW q \in Seq(Nat)
  PROVE  p \o q \in Seq(Nat) /\ Len(p \o q) = Len(p) + Len(q)
BY ConcatProperties

(* Appending a number adds one to the length.                              *)
LEMMA Appended ==
  ASSUME NEW q \in Seq(Nat), NEW n \in Nat
  PROVE  Append(q, n) \in Seq(Nat) /\ Len(Append(q, n)) = Len(q) + 1
BY AppendProperties

(* The numbers of a box.                                                   *)
LEMMA BoxTypes ==
  ASSUME NEW x \in Boxes
  PROVE  /\ x.buffer \in Seq(Nat) /\ x.pushed \in Seq(Nat)
         /\ Held(x) \in Nat /\ Out(x) \in Nat
         /\ x.expired \in Nat /\ x.pending \in Nat
         /\ x.told \in Nat /\ x.arrived \in Nat
<1>1. x.buffer \in Seq(Nat) /\ x.pushed \in Seq(Nat)
  BY DEF Boxes
<1>2. Held(x) \in Nat /\ Out(x) \in Nat
  BY <1>1, LenProperties DEF Held, Out
<1> QED
  BY <1>1, <1>2 DEF Boxes

(* The empty sequence.                                                     *)
LEMMA Nothing == << >> \in Seq(Nat) /\ Len(<< >>) = 0
OBVIOUS

(* A notice is given or owed: it changes nothing else, and owes nothing    *)
(* while a stream is there.                                                *)
LEMMA Notified ==
  ASSUME NEW x \in Boxes, NEW c \in Nat
  PROVE  LET y == NotifyOverflowLater(x, c) IN
         /\ y \in Boxes
         /\ y.stream = x.stream /\ y.latest = x.latest
         /\ y.buffer = x.buffer /\ y.expired = x.expired
         /\ y.arrived = x.arrived /\ y.pushed = x.pushed
         /\ Held(y) = Held(x) /\ Out(y) = Out(x)
         /\ y.pending + y.told = x.pending + x.told + c
         /\ x.stream # NoStream => y.pending = x.pending
         /\ x.stream = NoStream => y.told = x.told
<1>t. x.told \in Nat /\ x.pending \in Nat
  BY BoxTypes
<1> DEFINE more == x.told + c
           owed == x.pending + c
<1>1. more \in Nat /\ owed \in Nat
  BY <1>t
<1>2. more = x.told + c /\ owed = x.pending + c
  OBVIOUS
<1> HIDE DEF more, owed
<1>3. CASE x.stream # NoStream
  <2> DEFINE y == [x EXCEPT !.told = more]
  <2>1. NotifyOverflowLater(x, c) = y
    BY <1>2, <1>3 DEF NotifyOverflowLater
  <2>2. y \in Boxes
    BY <1>1 DEF Boxes
  <2>3. /\ y.stream = x.stream /\ y.latest = x.latest
        /\ y.buffer = x.buffer /\ y.expired = x.expired
        /\ y.arrived = x.arrived /\ y.pushed = x.pushed
        /\ y.pending = x.pending /\ y.told = more
    BY DEF Boxes
  <2> HIDE DEF y
  <2> QED
    BY <1>t, <1>1, <1>2, <1>3, <2>1, <2>2, <2>3 DEF Held, Out
<1>4. CASE x.stream = NoStream
  <2> DEFINE y == [x EXCEPT !.pending = owed]
  <2>1. NotifyOverflowLater(x, c) = y
    BY <1>2, <1>4 DEF NotifyOverflowLater
  <2>2. y \in Boxes
    BY <1>1 DEF Boxes
  <2>3. /\ y.stream = x.stream /\ y.latest = x.latest
        /\ y.buffer = x.buffer /\ y.expired = x.expired
        /\ y.arrived = x.arrived /\ y.pushed = x.pushed
        /\ y.pending = owed /\ y.told = x.told
    BY DEF Boxes
  <2> HIDE DEF y
  <2> QED
    BY <1>t, <1>1, <1>2, <1>4, <2>1, <2>2, <2>3 DEF Held, Out
<1> QED
  BY <1>3, <1>4

(* Replacing the buffer of a box changes nothing else.                     *)
LEMMA Shrunk ==
  ASSUME NEW x \in Boxes, NEW q \in Seq(Nat), NEW e \in Nat
  PROVE  LET y == [x EXCEPT !.buffer = q, !.expired = e] IN
         /\ y \in Boxes
         /\ y.stream = x.stream /\ y.latest = x.latest
         /\ y.buffer = q /\ y.expired = e
         /\ y.arrived = x.arrived /\ y.pushed = x.pushed
         /\ Held(y) = Len(q) /\ Out(y) = Out(x)
         /\ y.pending = x.pending /\ y.told = x.told
BY DEF Boxes, Held, Out

(* A live activity is appended to what was pushed.                         *)
LEMMA PushedFields ==
  ASSUME NEW x \in Boxes
  PROVE  LET y == Pushed(x) IN
         /\ y \in Boxes
         /\ y.stream = x.stream /\ y.latest = x.latest
         /\ y.buffer = x.buffer /\ y.expired = x.expired
         /\ Held(y) = Held(x) /\ Out(y) = Out(x) + 1
         /\ y.arrived = x.arrived + 1
         /\ y.pushed = Append(x.pushed, x.arrived + 1)
         /\ y.pending = x.pending /\ y.told = x.told
<1> DEFINE id == x.arrived + 1
           q == Append(x.pushed, id)
<1>1. id \in Nat /\ id = x.arrived + 1
  BY BoxTypes
<1> HIDE DEF id
<1>2. q \in Seq(Nat) /\ Len(q) = Out(x) + 1
  BY <1>1, BoxTypes, Appended DEF Out
<1>3. q = Append(x.pushed, id)
  OBVIOUS
<1> HIDE DEF q
<1>4. Pushed(x) = [x EXCEPT !.arrived = id, !.pushed = q]
  BY <1>1, <1>3 DEF Pushed, Boxes
<1> QED
  BY <1>1, <1>2, <1>3, <1>4 DEF Boxes, Held, Out

(* A buffered activity is appended to the buffer.                          *)
LEMMA PutFields ==
  ASSUME NEW x \in Boxes
  PROVE  LET y == Put(x) IN
         /\ y \in Boxes
         /\ y.stream = x.stream /\ y.latest = x.latest
         /\ Held(y) = Held(x) + 1 /\ Out(y) = Out(x)
         /\ y.expired = x.expired /\ y.arrived = x.arrived + 1
         /\ y.buffer = Append(x.buffer, x.arrived + 1) /\ y.pushed = x.pushed
         /\ y.pending = x.pending /\ y.told = x.told
<1> DEFINE id == x.arrived + 1
           q == Append(x.buffer, id)
<1>1. id \in Nat /\ id = x.arrived + 1
  BY BoxTypes
<1> HIDE DEF id
<1>2. q \in Seq(Nat) /\ Len(q) = Held(x) + 1
  BY <1>1, BoxTypes, Appended DEF Held
<1>3. q = Append(x.buffer, id)
  OBVIOUS
<1> HIDE DEF q
<1>4. Put(x) = [x EXCEPT !.arrived = id, !.buffer = q]
  BY <1>1, <1>3 DEF Put, Boxes
<1> QED
  BY <1>1, <1>2, <1>3, <1>4 DEF Boxes, Held, Out

(* The oldest item of a buffer gives way and is counted.                   *)
LEMMA ShiftedFields ==
  ASSUME NEW x \in Boxes, x.buffer # << >>, x.expired <= Held(x)
  PROVE  LET y == Shifted(x) IN
         /\ y \in Boxes
         /\ y.stream = x.stream /\ y.latest = x.latest
         /\ Held(y) = Held(x) - 1
         /\ y.expired <= Held(y)
         /\ y.arrived = x.arrived /\ Out(y) = Out(x)
         /\ y.buffer = Tail(x.buffer) /\ y.pushed = x.pushed
         /\ y.pending + y.told = x.pending + x.told + 1
         /\ x.stream = NoStream => y.told = x.told
<1> DEFINE e == IF x.expired > 0 THEN x.expired - 1 ELSE 0
           q == Tail(x.buffer)
           z == [x EXCEPT !.buffer = q, !.expired = e]
<1>1. q \in Seq(Nat) /\ Len(q) = Held(x) - 1 /\ Len(q) \in Nat
  BY BoxTypes, HeadTailProperties, LenProperties DEF Held
<1>2. e \in Nat /\ e <= Len(q)
  BY <1>1, BoxTypes
<1>3. Shifted(x) = NotifyOverflowLater(z, 1) /\ q = Tail(x.buffer)
  BY DEF Shifted
<1> HIDE DEF e, q
<1>4. /\ z \in Boxes
      /\ z.stream = x.stream /\ z.latest = x.latest
      /\ Held(z) = Len(q) /\ Out(z) = Out(x)
      /\ z.expired = e /\ z.arrived = x.arrived
      /\ z.buffer = q /\ z.pushed = x.pushed
      /\ z.pending = x.pending /\ z.told = x.told
  BY <1>1, <1>2 DEF Boxes, Held, Out
<1> HIDE DEF z
<1> DEFINE y == NotifyOverflowLater(z, 1)
<1>5. /\ y \in Boxes
      /\ y.stream = z.stream /\ y.latest = z.latest
      /\ Held(y) = Held(z) /\ Out(y) = Out(z)
      /\ y.expired = z.expired /\ y.arrived = z.arrived
      /\ y.buffer = z.buffer /\ y.pushed = z.pushed
      /\ y.pending + y.told = z.pending + z.told + 1
      /\ z.stream = NoStream => y.told = z.told
  BY <1>4, Notified
<1> QED
  BY <1>1, <1>2, <1>3, <1>4, <1>5

(* The live part of a buffer.                                              *)
LEMMA UnexpiredLength ==
  ASSUME NEW x \in Boxes, x.expired <= Held(x)
  PROVE  /\ Unexpired(x) \in Seq(Nat)
         /\ Len(Unexpired(x)) = Held(x) - x.expired
<1>1. x.expired \in 0..Len(x.buffer) /\ x.buffer \in Seq(Nat)
  BY BoxTypes DEF Held
<1> QED
  BY <1>1, Suffix DEF Unexpired, Held

(* A flush leaves nothing waiting and nothing owed.                        *)
LEMMA EmptiedFields ==
  ASSUME NEW x \in Boxes, x.expired <= Held(x)
  PROVE  LET y == Emptied(x) IN
         /\ y \in Boxes
         /\ y.stream = x.stream /\ y.latest = x.latest
         /\ y.buffer = << >> /\ y.expired = 0 /\ y.pending = 0
         /\ y.arrived = x.arrived /\ Held(y) = 0
         /\ Out(y) = Out(x) + Held(x) - x.expired
         /\ y.told = x.told + x.pending
         /\ y.pushed = x.pushed \o Unexpired(x)
<1> DEFINE rest == Unexpired(x)
           q == x.pushed \o rest
           n == x.told + x.pending
<1>1. rest \in Seq(Nat) /\ Len(rest) = Held(x) - x.expired
  BY UnexpiredLength
<1>2. q \in Seq(Nat) /\ Len(q) = Out(x) + Len(rest)
  BY <1>1, BoxTypes, Joined DEF Out
<1>3. n \in Nat /\ n = x.told + x.pending
  BY BoxTypes
<1>4. Len(q) = Out(x) + Held(x) - x.expired
  BY <1>1, <1>2, BoxTypes
<1>5. Emptied(x) = [x EXCEPT !.buffer = << >>, !.expired = 0, !.pending = 0,
                             !.pushed = q, !.told = n]
  BY DEF Emptied, Boxes
<1>9. q = x.pushed \o Unexpired(x)
  OBVIOUS
<1> HIDE DEF rest, q, n
<1> DEFINE y == [x EXCEPT !.buffer = << >>, !.expired = 0, !.pending = 0,
                          !.pushed = q, !.told = n]
<1>6. y \in Boxes
  BY <1>2, <1>3, Nothing DEF Boxes
<1>7. /\ y.stream = x.stream /\ y.latest = x.latest
      /\ y.buffer = << >> /\ y.expired = 0 /\ y.pending = 0
      /\ y.arrived = x.arrived /\ Out(y) = Len(q) /\ y.told = n
      /\ y.pushed = q
      /\ Held(y) = 0
  BY Nothing DEF Boxes, Held, Out
<1>8. Emptied(x) = y
  BY <1>5
<1> HIDE DEF y
<1> QED
  BY <1>3, <1>4, <1>6, <1>7, <1>8, <1>9

-----------------------------------------------------------------------------
(* Arrival of an activity keeps the invariant of the box and its stream.   *)
LEMMA EnqueuedKeeps ==
  ASSUME NEW x, BoxInv(x)
  PROVE  /\ BoxInv(Enqueued(x))
         /\ Enqueued(x).stream = x.stream
         /\ Enqueued(x).latest = x.latest
<1>1. x \in Boxes
  BY DEF BoxInv
<1>2. CASE x.stream # NoStream
  <2> DEFINE y == Pushed(x)
  <2>1. Enqueued(x) = y
    BY <1>2 DEF Enqueued
  <2>2. /\ y \in Boxes
        /\ y.stream = x.stream /\ y.latest = x.latest
        /\ y.buffer = x.buffer /\ y.expired = x.expired
        /\ Held(y) = Held(x) /\ Out(y) = Out(x) + 1
        /\ y.arrived = x.arrived + 1
        /\ y.pending = x.pending /\ y.told = x.told
    BY <1>1, PushedFields
  <2> HIDE DEF y
  <2>3. /\ x.expired \in Nat /\ x.pending \in Nat /\ x.told \in Nat
        /\ x.arrived \in Nat /\ Held(x) \in Nat /\ Out(x) \in Nat
    BY <1>1, BoxTypes
  <2>4. BoxInv(y)
    BY <1>2, <2>2, <2>3 DEF BoxInv
  <2> QED
    BY <2>1, <2>2, <2>4
<1>3. CASE x.stream = NoStream /\ Held(x) < MaxPerBot
  <2> DEFINE y == Put(x)
  <2>1. Enqueued(x) = y
    BY <1>1, <1>3, BoxTypes, BrokerAssumption DEF Enqueued, Held
  <2>2. /\ y \in Boxes
        /\ y.stream = x.stream /\ y.latest = x.latest
        /\ Held(y) = Held(x) + 1 /\ Out(y) = Out(x)
        /\ y.expired = x.expired /\ y.arrived = x.arrived + 1
        /\ y.pending = x.pending /\ y.told = x.told
    BY <1>1, PutFields
  <2> HIDE DEF y
  <2>3. /\ x.expired \in Nat /\ x.pending \in Nat /\ x.told \in Nat
        /\ x.arrived \in Nat /\ Held(x) \in Nat /\ Out(x) \in Nat
    BY <1>1, BoxTypes
  <2>4. BoxInv(y)
    BY <1>3, <2>2, <2>3, BrokerAssumption DEF BoxInv
  <2> QED
    BY <2>1, <2>2, <2>4
<1>4. CASE x.stream = NoStream /\ ~(Held(x) < MaxPerBot)
  <2> DEFINE z == Shifted(x)
             y == Put(z)
  <2>1. Held(x) = MaxPerBot
    BY <1>1, <1>4, BoxTypes, BrokerAssumption DEF BoxInv, Held
  <2>0. x.buffer # << >>
    BY <2>1, Nothing, BrokerAssumption DEF Held
  <2>2. Enqueued(x) = y
    BY <1>4, <2>1, BrokerAssumption DEF Enqueued, Held
  <2>3. /\ z \in Boxes
        /\ z.stream = x.stream /\ z.latest = x.latest
        /\ Held(z) = Held(x) - 1
        /\ z.expired <= Held(z)
        /\ z.arrived = x.arrived /\ Out(z) = Out(x)
        /\ z.pending + z.told = x.pending + x.told + 1
    BY <1>1, <2>0, ShiftedFields DEF BoxInv
  <2> HIDE DEF z
  <2>4. /\ y \in Boxes
        /\ y.stream = z.stream /\ y.latest = z.latest
        /\ Held(y) = Held(z) + 1 /\ Out(y) = Out(z)
        /\ y.expired = z.expired /\ y.arrived = z.arrived + 1
        /\ y.pending = z.pending /\ y.told = z.told
    BY <2>3, PutFields
  <2> HIDE DEF y
  <2>5. /\ x.expired \in Nat /\ x.pending \in Nat /\ x.told \in Nat
        /\ x.arrived \in Nat /\ Held(x) \in Nat /\ Out(x) \in Nat
    BY <1>1, BoxTypes
  <2>6. /\ z.expired \in Nat /\ z.pending \in Nat /\ z.told \in Nat
        /\ z.arrived \in Nat /\ Held(z) \in Nat /\ Out(z) \in Nat
    BY <2>3, BoxTypes
  <2>7. BoxInv(y)
    BY <1>4, <2>1, <2>3, <2>4, <2>5, <2>6, BrokerAssumption DEF BoxInv
  <2> QED
    BY <2>2, <2>3, <2>4, <2>7
<1> QED
  BY <1>2, <1>3, <1>4

(* A stream that takes a bot over keeps the invariant of the box.          *)
LEMMA FlushedKeeps ==
  ASSUME NEW x, BoxInv(x), NEW s \in Streams
  PROVE  /\ BoxInv(Flushed(x, s))
         /\ Flushed(x, s).stream = s
         /\ Flushed(x, s).latest = s
<1> DEFINE z == [x EXCEPT !.stream = s, !.latest = s]
           w == NotifyOverflowLater(z, x.expired)
           y == Emptied(w)
<1>1. x \in Boxes /\ s # NoStream
  BY BrokerAssumption DEF BoxInv, Streams, NoStream
<1>2. /\ z \in Boxes /\ z.stream = s /\ z.latest = s
      /\ Held(z) = Held(x) /\ Out(z) = Out(x)
      /\ z.expired = x.expired /\ z.arrived = x.arrived
      /\ z.pending = x.pending /\ z.told = x.told
  BY <1>1 DEF Boxes, Held, Out
<1> HIDE DEF z
<1>3. /\ w \in Boxes /\ w.stream = s /\ w.latest = s
      /\ Held(w) = Held(x) /\ Out(w) = Out(x)
      /\ w.expired = x.expired /\ w.arrived = x.arrived
      /\ w.pending + w.told = x.pending + x.told + x.expired
  <2>1. x.expired \in Nat
    BY <1>1, BoxTypes
  <2> QED
    BY <1>2, <2>1, Notified
<1> HIDE DEF w
<1>4. /\ y \in Boxes /\ y.stream = s /\ y.latest = s
      /\ y.buffer = << >> /\ y.expired = 0 /\ y.pending = 0
      /\ y.arrived = w.arrived /\ Held(y) = 0
      /\ Out(y) = Out(w) + Held(w) - w.expired
      /\ y.told = w.told + w.pending
  BY <1>3, EmptiedFields DEF BoxInv
<1> HIDE DEF y
<1>5. Flushed(x, s) = y
  BY DEF Flushed, y, w, z
<1>6. /\ x.expired \in Nat /\ x.pending \in Nat /\ x.told \in Nat
      /\ x.arrived \in Nat /\ Held(x) \in Nat /\ Out(x) \in Nat
  BY <1>1, BoxTypes
<1>7. /\ w.expired \in Nat /\ w.pending \in Nat /\ w.told \in Nat
      /\ w.arrived \in Nat /\ Held(w) \in Nat /\ Out(w) \in Nat
  BY <1>3, BoxTypes
<1>8. BoxInv(y)
  <2>1. x.arrived = Out(x) + Held(x) + (x.pending + x.told)
    BY <1>6 DEF BoxInv
  <2>2. /\ y.arrived = x.arrived
        /\ Out(y) = Out(x) + Held(x) - x.expired
    BY <1>3, <1>4
  <2>3. y.told = x.pending + x.told + x.expired
    <3>1. w.pending + w.told = x.pending + x.told + x.expired
      BY <1>3
    <3>2. y.told = w.told + w.pending
      BY <1>4
    <3>3. w.told + w.pending = w.pending + w.told
      BY <1>7
    <3> QED
      BY <3>1, <3>2, <3>3
  <2>4. y.arrived = Out(y) + y.told
    BY <1>6, <2>1, <2>2, <2>3
  <2>5. y.arrived = Out(y) + Held(y) + y.pending + y.told
    BY <1>4, <2>4, BoxTypes
  <2> QED
    BY <1>4, <2>5, BrokerAssumption DEF BoxInv
<1> QED
  BY <1>4, <1>5, <1>8

(* The sweep keeps the invariant of a box and its stream.                  *)
LEMMA SweptKeeps ==
  ASSUME NEW x, BoxInv(x)
  PROVE  /\ BoxInv(Swept(x))
         /\ Swept(x).stream = x.stream
         /\ Swept(x).latest = x.latest
<1> DEFINE rest == Unexpired(x)
           z == [x EXCEPT !.buffer = rest, !.expired = 0]
           y == NotifyOverflowLater(z, x.expired)
<1>1. x \in Boxes /\ x.expired \in Nat
  BY BoxTypes DEF BoxInv
<1>2. rest \in Seq(Nat) /\ Len(rest) = Held(x) - x.expired
  BY <1>1, UnexpiredLength DEF BoxInv
<1>3. Swept(x) = y
  BY DEF Swept
<1> HIDE DEF rest
<1>4. /\ z \in Boxes
      /\ z.stream = x.stream /\ z.latest = x.latest
      /\ z.buffer = rest /\ z.expired = 0
      /\ Held(z) = Len(rest) /\ Out(z) = Out(x)
      /\ z.arrived = x.arrived
      /\ z.pending = x.pending /\ z.told = x.told
  BY <1>1, <1>2 DEF Boxes, Held, Out
<1> HIDE DEF z
<1>5. /\ y \in Boxes
      /\ y.stream = z.stream /\ y.latest = z.latest
      /\ y.buffer = z.buffer /\ y.expired = z.expired
      /\ Held(y) = Held(z) /\ Out(y) = Out(z)
      /\ y.arrived = z.arrived
      /\ y.pending + y.told = z.pending + z.told + x.expired
      /\ z.stream # NoStream => y.pending = z.pending
  BY <1>1, <1>4, Notified
<1> HIDE DEF y
<1>6. x.stream # NoStream => rest = << >>
  <2>1. ASSUME x.stream # NoStream PROVE Len(rest) = 0
    BY <1>1, <1>2, <2>1, Nothing, BoxTypes DEF BoxInv, Held
  <2> QED
    BY <1>2, <2>1, EmptySeq
<1>7. /\ x.expired \in Nat /\ x.pending \in Nat /\ x.told \in Nat
      /\ x.arrived \in Nat /\ Held(x) \in Nat /\ Out(x) \in Nat
  BY <1>1, BoxTypes
<1>8. /\ y.expired \in Nat /\ y.pending \in Nat /\ y.told \in Nat
      /\ y.arrived \in Nat /\ Held(y) \in Nat /\ Out(y) \in Nat
  BY <1>5, BoxTypes
<1>9. BoxInv(y)
  <2>1. x.arrived = Out(x) + Held(x) + (x.pending + x.told)
    BY <1>7 DEF BoxInv
  <2>2. Held(y) = Held(x) - x.expired /\ Out(y) = Out(x) /\ y.arrived = x.arrived
    BY <1>2, <1>4, <1>5
  <2>3. y.arrived = Out(y) + Held(y) + (y.pending + y.told)
    BY <1>4, <1>5, <1>7, <1>8, <2>1, <2>2
  <2>4. y.arrived = Out(y) + Held(y) + y.pending + y.told
    BY <1>8, <2>3
  <2>5. Held(y) <= MaxPerBot /\ y.expired <= Held(y)
    BY <1>4, <1>5, <1>7, <1>8, <2>2, BrokerAssumption DEF BoxInv
  <2>6. y.stream # NoStream => y.buffer = << >> /\ y.pending = 0
    BY <1>4, <1>5, <1>6 DEF BoxInv
  <2> QED
    BY <1>5, <2>4, <2>5, <2>6 DEF BoxInv
<1> QED
  BY <1>3, <1>4, <1>5, <1>9

(* Time passing and detaching keep the invariant of a box.                 *)
LEMMA ExpiredKeeps ==
  ASSUME NEW x, BoxInv(x), x.expired < Held(x)
  PROVE  LET y == [x EXCEPT !.expired = @ + 1] IN
         BoxInv(y) /\ y.stream = x.stream /\ y.latest = x.latest
<1> DEFINE e == x.expired + 1
           y == [x EXCEPT !.expired = e]
<1>1. x \in Boxes
  BY DEF BoxInv
<1>2. e \in Nat /\ e <= Held(x)
  BY <1>1, BoxTypes
<1>3. [x EXCEPT !.expired = @ + 1] = y
  BY <1>1 DEF Boxes
<1> HIDE DEF e
<1>4. /\ y \in Boxes
      /\ y.stream = x.stream /\ y.latest = x.latest
      /\ y.buffer = x.buffer /\ y.expired = e
      /\ Held(y) = Held(x) /\ Out(y) = Out(x) /\ y.arrived = x.arrived
      /\ y.pending = x.pending /\ y.told = x.told
  BY <1>1, <1>2 DEF Boxes, Held, Out
<1> HIDE DEF y
<1>5. BoxInv(y)
  BY <1>2, <1>4 DEF BoxInv
<1> QED
  BY <1>3, <1>4, <1>5

(* A bot without its stream.                                               *)
LEMMA UnpluggedKeeps ==
  ASSUME NEW x, BoxInv(x)
  PROVE  LET y == [x EXCEPT !.stream = NoStream] IN
         BoxInv(y) /\ y.stream = NoStream /\ y.latest = x.latest
<1> DEFINE y == [x EXCEPT !.stream = NoStream]
<1>1. x \in Boxes
  BY DEF BoxInv
<1>2. /\ y \in Boxes
      /\ y.stream = NoStream /\ y.latest = x.latest
      /\ y.expired = x.expired
      /\ Held(y) = Held(x) /\ Out(y) = Out(x) /\ y.arrived = x.arrived
      /\ y.pending = x.pending /\ y.told = x.told
  BY <1>1 DEF Boxes, Held, Out
<1> HIDE DEF y
<1>3. BoxInv(y)
  BY <1>2, BrokerAssumption DEF BoxInv
<1> QED
  BY <1>2, <1>3 DEF y

-----------------------------------------------------------------------------
(* The first state satisfies the invariant.                                *)
LEMMA InitIInv == Init => IInv
<1> SUFFICES ASSUME Init PROVE IInv
  OBVIOUS
<1> DEFINE e == EmptyBox
<1>1. e \in Boxes
  BY Nothing DEF EmptyBox, Boxes
<1>2. /\ e.expired = 0 /\ e.arrived = 0 /\ e.pending = 0 /\ e.told = 0
      /\ Held(e) = 0 /\ Out(e) = 0
      /\ e.stream = NoStream /\ e.latest = NoStream
  BY Nothing DEF EmptyBox, Held, Out
<1>3. \A b \in Bots : box[b] = e
  BY DEF Init
<1>4. box \in [Bots -> Boxes]
  BY <1>1 DEF Init
<1> HIDE DEF e
<1>5. BoxInv(e)
  BY <1>1, <1>2, BrokerAssumption DEF BoxInv
<1>6. RegistryInv
  BY <1>2, <1>3, BrokerAssumption DEF Init, RegistryInv, Streams, NoStream
<1> QED
  BY <1>3, <1>4, <1>5, <1>6 DEF IInv

(* A step that changes one box, not its stream, keeps the invariant.       *)
LEMMA OneBox ==
  ASSUME IInv, NEW c \in Bots, NEW y, BoxInv(y),
         y.stream = box[c].stream, y.latest = box[c].latest,
         box' = [box EXCEPT ![c] = y], UNCHANGED <<serves, attached>>
  PROVE  IInv'
<1>1. y \in Boxes
  BY DEF BoxInv
<1>2. box' \in [Bots -> Boxes]
  BY <1>1 DEF IInv
<1>3. \A b \in Bots : BoxInv(box'[b]) /\ box'[b].stream = box[b].stream
                                     /\ box'[b].latest = box[b].latest
  BY DEF IInv
<1>4. RegistryInv'
  BY <1>3 DEF IInv, RegistryInv
<1> QED
  BY <1>2, <1>3, <1>4 DEF IInv

(* An activity arrives.                                                    *)
LEMMA EnqueueStep ==
  ASSUME IInv, NEW b \in Bots, EnqueueInbound(b)
  PROVE  IInv'
<1>1. BoxInv(box[b])
  BY DEF IInv
<1>2. /\ BoxInv(Enqueued(box[b]))
      /\ Enqueued(box[b]).stream = box[b].stream
      /\ Enqueued(box[b]).latest = box[b].latest
  BY <1>1, EnqueuedKeeps
<1>3. /\ box' = [box EXCEPT ![b] = Enqueued(box[b])]
      /\ UNCHANGED <<serves, attached>>
  BY DEF EnqueueInbound
<1> QED
  BY <1>2, <1>3, OneBox

(* Time passes for a buffer.                                               *)
LEMMA ExpireStep ==
  ASSUME IInv, NEW b \in Bots, Expire(b)
  PROVE  IInv'
<1> DEFINE y == [box[b] EXCEPT !.expired = @ + 1]
<1>1. BoxInv(box[b]) /\ box[b].expired < Held(box[b])
  BY DEF IInv, Expire, Held
<1>2. BoxInv(y) /\ y.stream = box[b].stream /\ y.latest = box[b].latest
  BY <1>1, ExpiredKeeps
<1>3. /\ box' = [box EXCEPT ![b] = y]
      /\ UNCHANGED <<serves, attached>>
  BY DEF Expire
<1> HIDE DEF y
<1> QED
  BY <1>2, <1>3, OneBox

(* The timer fires.                                                        *)
LEMMA SweepStep ==
  ASSUME IInv, Sweep
  PROVE  IInv'
<1>1. box' = [b \in Bots |-> Swept(box[b])] /\ UNCHANGED <<serves, attached>>
  BY DEF Sweep
<1>2. \A b \in Bots : /\ BoxInv(box'[b])
                      /\ box'[b].stream = box[b].stream
                      /\ box'[b].latest = box[b].latest
  BY <1>1, SweptKeeps DEF IInv
<1>3. box' \in [Bots -> Boxes]
  BY <1>1, SweptKeeps DEF IInv, BoxInv
<1>4. RegistryInv'
  BY <1>1, <1>2 DEF IInv, RegistryInv
<1> QED
  BY <1>2, <1>3, <1>4 DEF IInv

(* A stream attaches: it is newer than every stream there has been.        *)
LEMMA AttachStep ==
  ASSUME IInv, NEW B \in SUBSET Bots, AttachStream(B)
  PROVE  IInv'
<1> DEFINE n == attached + 1
<1>1. /\ attached \in Nat /\ n \in Streams /\ n # NoStream
      /\ attached' = n /\ n \in 0..MaxStreams
  BY BrokerAssumption DEF IInv, RegistryInv, AttachStream, Streams, NoStream
<1>2. /\ serves' = [serves EXCEPT ![n] = B]
      /\ box' = [b \in Bots |-> IF b \in B THEN Flushed(box[b], n) ELSE box[b]]
  BY DEF AttachStream
<1>3. n > attached
  BY <1>1
<1> HIDE DEF n
<1>4. \A b \in B : /\ BoxInv(box'[b])
                   /\ box'[b].stream = n /\ box'[b].latest = n
  BY <1>1, <1>2, FlushedKeeps DEF IInv
<1>5. \A b \in Bots \ B : box'[b] = box[b]
  BY <1>2
<1>6. \A b \in Bots : BoxInv(box'[b])
  BY <1>4, <1>5 DEF IInv
<1>7. box' \in [Bots -> Boxes]
  BY <1>2, <1>6 DEF BoxInv
<1>8. \A b \in Bots : /\ box[b].latest \in Nat /\ box[b].latest <= attached
                      /\ box[b].stream \in Streams \cup {NoStream}
  BY BrokerAssumption DEF IInv, RegistryInv, Boxes, Streams, NoStream
<1>9. /\ serves' \in [Streams -> SUBSET Bots]
      /\ serves'[n] = B
      /\ \A s \in Streams : s # n => serves'[s] = serves[s]
  BY <1>1, <1>2 DEF IInv, RegistryInv
<1>10. serves[n] = {}
  BY <1>1, <1>3 DEF IInv, RegistryInv
<1>11. \A s \in Streams : s > attached' => serves'[s] = {}
  <2> SUFFICES ASSUME NEW s \in Streams, s > attached' PROVE serves'[s] = {}
    OBVIOUS
  <2>1. s \in Nat /\ n \in Nat
    BY <1>1 DEF Streams
  <2>2. s # n /\ s > attached
    BY <1>1, <1>3, <2>1
  <2> QED
    BY <1>9, <2>2 DEF IInv, RegistryInv
<1>12. ASSUME NEW b \in Bots
       PROVE  /\ box'[b].latest <= attached'
              /\ box'[b].stream # NoStream => b \in serves'[box'[b].stream]
              /\ box'[b].latest # NoStream /\ b \in serves'[box'[b].latest]
                   => box'[b].stream = box'[b].latest
  <2>1. CASE b \in B
    <3>1. n <= n
      BY <1>1
    <3> QED
      BY <1>1, <1>4, <1>9, <2>1, <3>1
  <2>2. CASE b \notin B
    <3> DEFINE s == box[b].stream
               l == box[b].latest
    <3>1. box'[b] = box[b]
      BY <1>5, <2>2
    <3>2. l <= attached' /\ l # n
      BY <1>1, <1>3, <1>8
    <3>3. s # NoStream => b \in serves'[s]
      <4> SUFFICES ASSUME s # NoStream PROVE b \in serves'[s]
        OBVIOUS
      <4>1. s \in Streams /\ b \in serves[s]
        BY <1>8 DEF IInv, RegistryInv
      <4>2. s # n
        BY <1>10, <4>1
      <4> QED
        BY <1>9, <4>1, <4>2
    <3>4. l # NoStream /\ b \in serves'[l] => s = l
      <4> SUFFICES ASSUME l # NoStream, b \in serves'[l] PROVE s = l
        OBVIOUS
      <4>1. l \in Streams
        BY <1>1, <1>8, BrokerAssumption DEF Streams, NoStream, IInv, RegistryInv
      <4>2. b \in serves[l]
        BY <1>9, <3>2, <4>1
      <4> QED
        BY <4>2 DEF IInv, RegistryInv
    <3> QED
      BY <3>1, <3>2, <3>3, <3>4
  <2> QED
    BY <2>1, <2>2
<1>13. RegistryInv'
  BY <1>1, <1>9, <1>11, <1>12 DEF RegistryInv
<1> QED
  BY <1>6, <1>7, <1>13 DEF IInv

(* A stream detaches: only the bots it still has lose their stream.        *)
LEMMA DetachStep ==
  ASSUME IInv, NEW s \in Streams, DetachStream(s)
  PROVE  IInv'
<1> DEFINE Loses(b) == b \in serves[s] /\ box[b].stream = s
<1>1. /\ serves' = [serves EXCEPT ![s] = {}]
      /\ attached' = attached
      /\ box' = [b \in Bots |-> IF Loses(b)
                                THEN [box[b] EXCEPT !.stream = NoStream]
                                ELSE box[b]]
  BY DEF DetachStream
<1>2. \A b \in Bots : Loses(b) => /\ BoxInv(box'[b])
                                  /\ box'[b].stream = NoStream
                                  /\ box'[b].latest = box[b].latest
  <2> SUFFICES ASSUME NEW b \in Bots, Loses(b)
               PROVE  /\ BoxInv(box'[b])
                      /\ box'[b].stream = NoStream
                      /\ box'[b].latest = box[b].latest
    OBVIOUS
  <2>1. BoxInv(box[b])
    BY DEF IInv
  <2>2. box'[b] = [box[b] EXCEPT !.stream = NoStream]
    BY <1>1
  <2> QED
    BY <2>1, <2>2, UnpluggedKeeps
<1>3. \A b \in Bots : ~Loses(b) => box'[b] = box[b]
  BY <1>1
<1>4. \A b \in Bots : BoxInv(box'[b])
  BY <1>2, <1>3 DEF IInv
<1>5. box' \in [Bots -> Boxes]
  BY <1>1, <1>4 DEF BoxInv
<1>6. /\ serves' \in [Streams -> SUBSET Bots]
      /\ serves'[s] = {}
      /\ \A t \in Streams : t # s => serves'[t] = serves[t]
  BY <1>1 DEF IInv, RegistryInv
<1>7. \A b \in Bots : /\ box[b].latest \in Streams \cup {NoStream}
                      /\ box[b].stream \in Streams \cup {NoStream}
  BY DEF IInv, Boxes
<1>8. ASSUME NEW b \in Bots
      PROVE  /\ box'[b].latest <= attached'
             /\ box'[b].stream # NoStream => b \in serves'[box'[b].stream]
             /\ box'[b].latest # NoStream /\ b \in serves'[box'[b].latest]
                  => box'[b].stream = box'[b].latest
  <2>1. box'[b].latest = box[b].latest
    BY <1>2, <1>3
  <2>2. box'[b].latest <= attached'
    BY <1>1, <2>1 DEF IInv, RegistryInv
  <2>3. ASSUME box'[b].stream # NoStream
        PROVE  b \in serves'[box'[b].stream]
    <3>1. ~Loses(b) /\ box'[b] = box[b]
      BY <1>2, <1>3, <2>3
    <3>2. b \in serves[box[b].stream] /\ box[b].stream \in Streams
      BY <1>7, <2>3, <3>1 DEF IInv, RegistryInv
    <3>3. box[b].stream # s
      BY <3>1, <3>2
    <3> QED
      BY <1>6, <3>1, <3>2, <3>3
  <2>4. ASSUME box'[b].latest # NoStream, b \in serves'[box'[b].latest]
        PROVE  box'[b].stream = box'[b].latest
    <3>1. box[b].latest \in Streams /\ box[b].latest # s
      BY <1>6, <1>7, <2>1, <2>4
    <3>2. b \in serves[box[b].latest]
      BY <1>6, <2>1, <2>4, <3>1
    <3>3. box[b].stream = box[b].latest
      BY <2>1, <2>4, <3>2 DEF IInv, RegistryInv
    <3> QED
      BY <1>3, <2>1, <3>1, <3>3
  <2> QED
    BY <2>2, <2>3, <2>4
<1>9. RegistryInv'
  BY <1>1, <1>6, <1>8 DEF IInv, RegistryInv
<1> QED
  BY <1>4, <1>5, <1>9 DEF IInv

(* Every step of the broker keeps the invariant.                           *)
LEMMA NextIInv == IInv /\ [Next]_vars => IInv'
<1> SUFFICES ASSUME IInv, [Next]_vars PROVE IInv'
  OBVIOUS
<1>1. ASSUME NEW b \in Bots, EnqueueInbound(b) PROVE IInv'
  BY <1>1, EnqueueStep
<1>2. ASSUME NEW B \in SUBSET Bots, AttachStream(B) PROVE IInv'
  BY <1>2, AttachStep
<1>3. ASSUME NEW s \in Streams, DetachStream(s) PROVE IInv'
  BY <1>3, DetachStep
<1>4. CASE Sweep
  BY <1>4, SweepStep
<1>5. ASSUME NEW b \in Bots, Expire(b) PROVE IInv'
  BY <1>5, ExpireStep
<1>6. CASE UNCHANGED vars
  BY <1>6 DEF IInv, RegistryInv, vars
<1> QED
  BY <1>1, <1>2, <1>3, <1>4, <1>5, <1>6 DEF Next

(* The invariant always holds, for any number of bots, streams, activities *)
(* and any capacity.                                                       *)
THEOREM BrokerInvariance == Spec => []IInv
BY InitIInv, NextIInv, PTL DEF Spec

(* No buffer outgrows its capacity (the shift in enqueueInbound), nor has  *)
(* more expired items than items.                                          *)
THEOREM BufferBounded == Spec => []TypeOK
<1>1. IInv => TypeOK
  BY DEF IInv, RegistryInv, BoxInv, TypeOK, Held
<1> QED
  BY <1>1, BrokerInvariance, PTL

(* No activity vanishes unannounced (notifyOverflowLater).                 *)
THEOREM NothingUnaccounted == Spec => []Accounted
<1>1. IInv => Accounted
  <2> SUFFICES ASSUME IInv, NEW b \in Bots
               PROVE  LET x == box[b] IN
                      x.arrived = Len(x.pushed) + Len(x.buffer) + x.pending + x.told
    BY DEF Accounted
  <2> QED
    BY DEF IInv, BoxInv, Held, Out
<1> QED
  BY <1>1, BrokerInvariance, PTL

(* The broker pushes only to streams that are attached, and with a stream  *)
(* there nothing of the bot waits (attachStream, detachStream).            *)
THEOREM PushesToLiveStreams == Spec => []StreamIsLive
<1>1. IInv => StreamIsLive
  BY DEF IInv, RegistryInv, BoxInv, StreamIsLive
<1> QED
  BY <1>1, BrokerInvariance, PTL

(* ... and a bot stays with the stream that took it over last, whatever    *)
(* detaches (detachStream).                                                *)
THEOREM StreamsServeLast == Spec => []StreamsRight
<1>1. IInv => StreamIsLive
  BY DEF IInv, RegistryInv, BoxInv, StreamIsLive
<1>2. IInv => LastWriterWins
  BY DEF IInv, RegistryInv, LastWriterWins
<1>3. IInv => StreamsRight
  BY <1>1, <1>2 DEF StreamsRight
<1> QED
  BY <1>3, BrokerInvariance, PTL

-----------------------------------------------------------------------------
(* The broker implements a mailbox for every bot.  First, what the steps   *)
(* of a mailbox come to.                                                   *)
Mails == [ arrived : Nat, waiting : Seq(Nat), out : Seq(Nat),
           missed : Nat, told : Nat ]

LEMMA MailFields ==
  ASSUME NEW x \in Boxes
  PROVE  /\ MailOf(x) \in Mails
         /\ MailOf(x).arrived = x.arrived /\ MailOf(x).waiting = x.buffer
         /\ MailOf(x).out = x.pushed /\ MailOf(x).missed = x.pending
         /\ MailOf(x).told = x.told
BY BoxTypes DEF MailOf, Mails

LEMMA MailPassed ==
  ASSUME NEW m \in Mails, NEW n \in Mails,
         m.waiting = << >>, n.waiting = m.waiting,
         n.arrived = m.arrived + 1,
         n.out = Append(m.out, m.arrived + 1),
         n.missed = m.missed, n.told = m.told
  PROVE  Promise!Evolves(m, n)
<1>1. n = Promise!Passed(m)
  BY DEF Mails, Promise!Passed
<1> QED
  BY <1>1 DEF Promise!Evolves

LEMMA MailKept ==
  ASSUME NEW m \in Mails, NEW n \in Mails, NEW k \in 0..Len(m.waiting),
         Len(m.waiting) - k < MaxPerBot,
         n.arrived = m.arrived + 1,
         n.waiting = Append(Promise!Rest(m, k), m.arrived + 1),
         n.out = m.out,
         n.missed = m.missed + k, n.told = m.told
  PROVE  Promise!Evolves(m, n)
<1>1. n = Promise!Kept(m, k)
  BY DEF Mails, Promise!Kept
<1> QED
  BY <1>1 DEF Promise!Evolves

LEMMA MailDropped ==
  ASSUME NEW m \in Mails, NEW n \in Mails, NEW k \in 0..Len(m.waiting),
         n.arrived = m.arrived,
         n.waiting = Promise!Rest(m, k),
         n.out = m.out,
         n.missed = m.missed + k, n.told = m.told
  PROVE  Promise!Evolves(m, n)
<1>1. n = Promise!Dropped(m, k)
  BY DEF Mails, Promise!Dropped
<1> QED
  BY <1>1 DEF Promise!Evolves

LEMMA MailServed ==
  ASSUME NEW m \in Mails, NEW n \in Mails, NEW k \in 0..Len(m.waiting),
         n.arrived = m.arrived, n.waiting = << >>,
         n.out = m.out \o Promise!Rest(m, k),
         n.missed = 0, n.told = m.told + m.missed + k
  PROVE  Promise!Evolves(m, n)
<1>1. n = Promise!Served(m, k)
  BY DEF Mails, Promise!Served
<1> QED
  BY <1>1 DEF Promise!Evolves

LEMMA MailSame ==
  ASSUME NEW x, NEW y,
         y.arrived = x.arrived, y.buffer = x.buffer, y.pushed = x.pushed,
         y.pending = x.pending, y.told = x.told
  PROVE  MailOf(y) = MailOf(x)
BY DEF MailOf

(* What a step may make of a box, as the mailbox sees it.                  *)
Moves(x, y) ==
  MailOf(y) = MailOf(x) \/ Promise!Evolves(MailOf(x), MailOf(y))

(* None, or the oldest, is dropped.                                        *)
LEMMA RestOfNone ==
  ASSUME NEW q \in Seq(Nat)
  PROVE  SubSeq(q, 0 + 1, Len(q)) = q
<1>1. Len(q) \in Nat
  BY LenProperties
<1> QED
  BY <1>1, SubSeqFull

LEMMA RestOfOne ==
  ASSUME NEW q \in Seq(Nat), q # << >>
  PROVE  SubSeq(q, 1 + 1, Len(q)) = Tail(q)
OBVIOUS

(* An activity that arrives is passed on, or kept.                         *)
LEMMA EnqueuedMoves ==
  ASSUME NEW x, BoxInv(x)
  PROVE  Moves(x, Enqueued(x))
<1> DEFINE m == MailOf(x)
<1>1. x \in Boxes /\ Enqueued(x) \in Boxes
  BY EnqueuedKeeps DEF BoxInv
<1>2. /\ m \in Mails
      /\ m.arrived = x.arrived /\ m.waiting = x.buffer
      /\ m.out = x.pushed /\ m.missed = x.pending /\ m.told = x.told
  BY <1>1, MailFields
<1> HIDE DEF m
<1>3. /\ x.buffer \in Seq(Nat) /\ Len(x.buffer) \in Nat
      /\ x.pending \in Nat /\ x.told \in Nat
  BY <1>1, BoxTypes DEF Held
<1>4. CASE x.stream # NoStream
  <2> DEFINE y == Pushed(x)
             n == MailOf(y)
  <2>1. Enqueued(x) = y
    BY <1>4 DEF Enqueued
  <2>2. /\ y \in Boxes /\ y.buffer = x.buffer
        /\ y.arrived = x.arrived + 1
        /\ y.pushed = Append(x.pushed, x.arrived + 1)
        /\ y.pending = x.pending /\ y.told = x.told
    BY <1>1, PushedFields
  <2> HIDE DEF y
  <2>3. /\ n \in Mails
        /\ n.arrived = y.arrived /\ n.waiting = y.buffer
        /\ n.out = y.pushed /\ n.missed = y.pending /\ n.told = y.told
    BY <2>2, MailFields
  <2> HIDE DEF n
  <2>4. m.waiting = << >>
    BY <1>2, <1>4 DEF BoxInv
  <2>5. Promise!Evolves(m, n)
    BY <1>2, <2>2, <2>3, <2>4, MailPassed
  <2> QED
    BY <2>1, <2>5 DEF Moves, m, n
<1>5. CASE x.stream = NoStream /\ Len(x.buffer) < MaxPerBot
  <2> DEFINE y == Put(x)
             n == MailOf(y)
  <2>1. Enqueued(x) = y
    BY <1>3, <1>5, BrokerAssumption DEF Enqueued
  <2>2. /\ y \in Boxes
        /\ y.arrived = x.arrived + 1
        /\ y.buffer = Append(x.buffer, x.arrived + 1) /\ y.pushed = x.pushed
        /\ y.pending = x.pending /\ y.told = x.told
    BY <1>1, PutFields
  <2> HIDE DEF y
  <2>3. /\ n \in Mails
        /\ n.arrived = y.arrived /\ n.waiting = y.buffer
        /\ n.out = y.pushed /\ n.missed = y.pending /\ n.told = y.told
    BY <2>2, MailFields
  <2> HIDE DEF n
  <2>4. Promise!Rest(m, 0) = x.buffer
    BY <1>2, <1>3, RestOfNone DEF Promise!Rest
  <2>5. /\ 0 \in 0..Len(m.waiting) /\ Len(m.waiting) - 0 < MaxPerBot
        /\ m.missed + 0 = m.missed
    BY <1>2, <1>3, <1>5
  <2>6. Promise!Evolves(m, n)
    BY <1>2, <2>2, <2>3, <2>4, <2>5, MailKept
  <2> QED
    BY <2>1, <2>6 DEF Moves, m, n
<1>6. CASE x.stream = NoStream /\ ~(Len(x.buffer) < MaxPerBot)
  <2> DEFINE z == Shifted(x)
             y == Put(z)
             n == MailOf(y)
  <2>1. Enqueued(x) = y
    BY <1>3, <1>6, BrokerAssumption DEF Enqueued
  <2>2. x.buffer # << >> /\ Len(x.buffer) = MaxPerBot /\ x.expired <= Held(x)
    BY <1>3, <1>6, BrokerAssumption, Nothing DEF BoxInv, Held
  <2>3. /\ z \in Boxes
        /\ z.arrived = x.arrived
        /\ z.buffer = Tail(x.buffer) /\ z.pushed = x.pushed
        /\ z.pending + z.told = x.pending + x.told + 1
        /\ z.told = x.told
    BY <1>1, <1>6, <2>2, ShiftedFields
  <2>4. z.pending = x.pending + 1
    <3>1. z.pending \in Nat /\ z.told \in Nat
      BY <2>3, BoxTypes
    <3> QED
      BY <1>3, <2>3, <3>1
  <2> HIDE DEF z
  <2>5. /\ y \in Boxes
        /\ y.arrived = z.arrived + 1
        /\ y.buffer = Append(z.buffer, z.arrived + 1) /\ y.pushed = z.pushed
        /\ y.pending = z.pending /\ y.told = z.told
    BY <2>3, PutFields
  <2> HIDE DEF y
  <2>6. /\ n \in Mails
        /\ n.arrived = y.arrived /\ n.waiting = y.buffer
        /\ n.out = y.pushed /\ n.missed = y.pending /\ n.told = y.told
    BY <2>5, MailFields
  <2> HIDE DEF n
  <2>7. Promise!Rest(m, 1) = Tail(x.buffer)
    BY <1>2, <1>3, <2>2, RestOfOne DEF Promise!Rest
  <2>8. 1 \in 0..Len(m.waiting) /\ Len(m.waiting) - 1 < MaxPerBot
    BY <1>2, <1>3, <2>2, BrokerAssumption
  <2>9. Promise!Evolves(m, n)
    BY <1>2, <2>3, <2>4, <2>5, <2>6, <2>7, <2>8, MailKept
  <2> QED
    BY <2>1, <2>9 DEF Moves, m, n
<1> QED
  BY <1>4, <1>5, <1>6

(* A stream that takes a bot over is given what has not expired, and told  *)
(* of what has.                                                            *)
LEMMA FlushedMoves ==
  ASSUME NEW x, BoxInv(x), NEW s \in Streams
  PROVE  Moves(x, Flushed(x, s))
<1> DEFINE m == MailOf(x)
           z == [x EXCEPT !.stream = s, !.latest = s]
           w == NotifyOverflowLater(z, x.expired)
           y == Emptied(w)
           n == MailOf(y)
<1>1. x \in Boxes /\ s # NoStream
  BY BrokerAssumption DEF BoxInv, Streams, NoStream
<1>2. /\ m \in Mails
      /\ m.arrived = x.arrived /\ m.waiting = x.buffer
      /\ m.out = x.pushed /\ m.missed = x.pending /\ m.told = x.told
  BY <1>1, MailFields
<1> HIDE DEF m
<1>3. /\ x.buffer \in Seq(Nat) /\ Len(x.buffer) \in Nat
      /\ x.pending \in Nat /\ x.told \in Nat
      /\ x.expired \in Nat /\ x.expired \in 0..Len(x.buffer)
  BY <1>1, BoxTypes DEF Held, BoxInv
<1>4. /\ z \in Boxes /\ z.stream = s
      /\ z.buffer = x.buffer /\ z.expired = x.expired
      /\ z.arrived = x.arrived /\ z.pushed = x.pushed
      /\ z.pending = x.pending /\ z.told = x.told
  BY <1>1 DEF Boxes
<1>5. Flushed(x, s) = y
  BY DEF Flushed
<1> HIDE DEF z
<1>6. /\ w \in Boxes
      /\ w.buffer = x.buffer /\ w.expired = x.expired
      /\ w.arrived = x.arrived /\ w.pushed = x.pushed
      /\ w.pending + w.told = x.pending + x.told + x.expired
      /\ w.pending = x.pending
  <2>1. x.expired \in Nat
    BY <1>3
  <2>2. z.stream # NoStream
    BY <1>1, <1>4
  <2>3. /\ w \in Boxes
        /\ w.buffer = z.buffer /\ w.expired = z.expired
        /\ w.arrived = z.arrived /\ w.pushed = z.pushed
        /\ w.pending + w.told = z.pending + z.told + x.expired
        /\ w.pending = z.pending
    BY <1>4, <2>1, <2>2, Notified
  <2> QED
    BY <1>4, <2>3
<1> HIDE DEF w
<1>7. /\ y \in Boxes
      /\ y.buffer = << >> /\ y.pending = 0
      /\ y.arrived = w.arrived
      /\ y.told = w.told + w.pending
      /\ y.pushed = w.pushed \o Unexpired(w)
  <2>1. w.expired <= Held(w)
    BY <1>3, <1>6 DEF Held
  <2> QED
    BY <1>6, <2>1, EmptiedFields
<1>8. w.told \in Nat
  BY <1>6, BoxTypes
<1> HIDE DEF y
<1>9. /\ n \in Mails
      /\ n.arrived = y.arrived /\ n.waiting = y.buffer
      /\ n.out = y.pushed /\ n.missed = y.pending /\ n.told = y.told
  BY <1>7, MailFields
<1> HIDE DEF n
<1>10. Unexpired(w) = Promise!Rest(m, x.expired)
  BY <1>2, <1>6 DEF Unexpired, Promise!Rest
<1>11. n.told = m.told + m.missed + x.expired
  BY <1>2, <1>3, <1>6, <1>7, <1>8, <1>9
<1>12. Promise!Evolves(m, n)
  BY <1>2, <1>3, <1>6, <1>7, <1>9, <1>10, <1>11, MailServed
<1> QED
  BY <1>5, <1>12 DEF Moves, m, n

(* The sweep drops what has expired.                                       *)
LEMMA SweptMoves ==
  ASSUME NEW x, BoxInv(x)
  PROVE  Moves(x, Swept(x))
<1> DEFINE m == MailOf(x)
           rest == Unexpired(x)
           z == [x EXCEPT !.buffer = rest, !.expired = 0]
           y == NotifyOverflowLater(z, x.expired)
           n == MailOf(y)
<1>1. x \in Boxes
  BY DEF BoxInv
<1>2. /\ m \in Mails
      /\ m.arrived = x.arrived /\ m.waiting = x.buffer
      /\ m.out = x.pushed /\ m.missed = x.pending /\ m.told = x.told
  BY <1>1, MailFields
<1> HIDE DEF m
<1>3. /\ x.buffer \in Seq(Nat) /\ Len(x.buffer) \in Nat
      /\ x.pending \in Nat /\ x.told \in Nat
      /\ x.expired \in Nat /\ x.expired \in 0..Len(x.buffer)
  BY <1>1, BoxTypes DEF Held, BoxInv
<1>4. rest \in Seq(Nat) /\ rest = Promise!Rest(m, x.expired)
      /\ Len(rest) = Len(x.buffer) - x.expired
  BY <1>1, <1>2, <1>3, UnexpiredLength DEF Held, Unexpired, Promise!Rest
<1>5. Swept(x) = y
  BY DEF Swept
<1> HIDE DEF rest
<1>6. /\ z \in Boxes /\ z.stream = x.stream
      /\ z.buffer = rest /\ z.pushed = x.pushed
      /\ z.arrived = x.arrived
      /\ z.pending = x.pending /\ z.told = x.told
  BY <1>1, <1>4 DEF Boxes
<1> HIDE DEF z
<1>7. /\ y \in Boxes
      /\ y.buffer = rest /\ y.pushed = x.pushed
      /\ y.arrived = x.arrived
      /\ y.pending + y.told = x.pending + x.told + x.expired
      /\ x.stream # NoStream => y.pending = x.pending
      /\ x.stream = NoStream => y.told = x.told
  <2>1. x.expired \in Nat
    BY <1>3
  <2>2. /\ y \in Boxes
        /\ y.buffer = z.buffer /\ y.pushed = z.pushed
        /\ y.arrived = z.arrived
        /\ y.pending + y.told = z.pending + z.told + x.expired
        /\ z.stream # NoStream => y.pending = z.pending
        /\ z.stream = NoStream => y.told = z.told
    BY <1>6, <2>1, Notified
  <2> QED
    BY <1>6, <2>2
<1>8. y.pending \in Nat /\ y.told \in Nat
  BY <1>7, BoxTypes
<1> HIDE DEF y
<1>9. CASE x.stream # NoStream
  <2>1. x.buffer = << >> /\ x.expired = 0
    BY <1>3, <1>9, Nothing DEF BoxInv
  <2>2. rest = x.buffer
    BY <1>4, <2>1, Nothing, EmptySeq
  <2>3. y.told = x.told /\ y.pending = x.pending
    BY <1>3, <1>7, <1>8, <1>9, <2>1
  <2>4. n = m
    BY <1>7, <2>2, <2>3, MailSame DEF m
  <2> QED
    BY <1>5, <2>4 DEF Moves, m
<1>10. CASE x.stream = NoStream
  <2>1. y.told = x.told /\ y.pending = x.pending + x.expired
    BY <1>3, <1>7, <1>8, <1>10
  <2>2. /\ n \in Mails
        /\ n.arrived = y.arrived /\ n.waiting = y.buffer
        /\ n.out = y.pushed /\ n.missed = y.pending /\ n.told = y.told
    BY <1>7, MailFields
  <2> HIDE DEF n
  <2>3. Promise!Evolves(m, n)
    BY <1>2, <1>3, <1>4, <1>7, <2>1, <2>2, MailDropped
  <2> QED
    BY <1>5, <2>3 DEF Moves, m, n
<1> QED
  BY <1>9, <1>10

(* The clock and a detach are none of the mailbox's business.              *)
LEMMA OthersStay ==
  ASSUME NEW x \in Boxes
  PROVE  /\ Moves(x, x)
         /\ Moves(x, [x EXCEPT !.stream = NoStream])
         /\ Moves(x, [x EXCEPT !.expired = @ + 1])
<1>1. \A e : LET y == [x EXCEPT !.expired = e] IN
             /\ y.arrived = x.arrived /\ y.buffer = x.buffer
             /\ y.pushed = x.pushed /\ y.pending = x.pending /\ y.told = x.told
  BY DEF Boxes
<1>2. LET y == [x EXCEPT !.stream = NoStream] IN
      /\ y.arrived = x.arrived /\ y.buffer = x.buffer
      /\ y.pushed = x.pushed /\ y.pending = x.pending /\ y.told = x.told
  BY DEF Boxes
<1> QED
  BY <1>1, <1>2, MailSame DEF Moves

(* The mailboxes of all bots.                                              *)
Mailboxes == [b \in Bots |-> MailOf(box[b])]

LEMMA InitMaps == Init => Promise!Init
<1>1. MailOf(EmptyBox) = Promise!Empty
  BY DEF MailOf, EmptyBox, Promise!Empty
<1> QED
  BY <1>1 DEF Init, Promise!Init

LEMMA StepMaps == IInv /\ [Next]_vars => [Promise!Next]_Mailboxes
<1> SUFFICES ASSUME IInv, [Next]_vars
             PROVE  \A c \in Bots : Moves(box[c], box'[c])
  BY DEF Moves, Promise!Next, Mailboxes
<1>1. \A c \in Bots : BoxInv(box[c]) /\ box[c] \in Boxes
  BY DEF IInv, BoxInv
<1>2. ASSUME NEW b \in Bots, EnqueueInbound(b)
      PROVE  \A c \in Bots : Moves(box[c], box'[c])
  <2>1. \A c \in Bots : box'[c] = IF c = b THEN Enqueued(box[c]) ELSE box[c]
    BY <1>2 DEF EnqueueInbound, IInv
  <2> QED
    BY <1>1, <2>1, EnqueuedMoves, OthersStay
<1>3. ASSUME NEW B \in SUBSET Bots, AttachStream(B)
      PROVE  \A c \in Bots : Moves(box[c], box'[c])
  <2>1. \A c \in Bots : box'[c] = IF c \in B THEN Flushed(box[c], attached + 1)
                                  ELSE box[c]
    BY <1>3 DEF AttachStream
  <2>2. attached + 1 \in Streams
    BY <1>3, BrokerAssumption DEF AttachStream, IInv, RegistryInv, Streams
  <2>3. \A c \in B : Moves(box[c], Flushed(box[c], attached + 1))
    BY <1>1, <2>2, FlushedMoves
  <2>4. \A c \in Bots : Moves(box[c], box[c])
    BY <1>1, OthersStay
  <2> QED
    BY <2>1, <2>3, <2>4
<1>4. ASSUME NEW s \in Streams, DetachStream(s)
      PROVE  \A c \in Bots : Moves(box[c], box'[c])
  <2>1. \A c \in Bots : \/ box'[c] = [box[c] EXCEPT !.stream = NoStream]
                        \/ box'[c] = box[c]
    BY <1>4 DEF DetachStream
  <2> QED
    BY <1>1, <2>1, OthersStay
<1>5. CASE Sweep
  <2>1. \A c \in Bots : box'[c] = Swept(box[c])
    BY <1>5 DEF Sweep
  <2> QED
    BY <1>1, <2>1, SweptMoves
<1>6. ASSUME NEW b \in Bots, Expire(b)
      PROVE  \A c \in Bots : Moves(box[c], box'[c])
  <2>1. \A c \in Bots : \/ box'[c] = [box[c] EXCEPT !.expired = @ + 1]
                        \/ box'[c] = box[c]
    BY <1>6 DEF Expire, IInv
  <2> QED
    BY <1>1, <2>1, OthersStay
<1>7. CASE UNCHANGED vars
  BY <1>1, <1>7, OthersStay DEF vars
<1> QED
  BY <1>2, <1>3, <1>4, <1>5, <1>6, <1>7 DEF Next

(* The broker keeps the promise of a mailbox to every bot: what it accepts *)
(* is handed on at most once and in order of arrival, or is dropped, the   *)
(* oldest first, and announced (enqueueInbound, attachStream, sweep).      *)
THEOREM BrokerIsMailbox == Spec => ImplementsMailbox
<1>1. Mailboxes = [b \in Bots |-> MailOf(box[b])]
  BY DEF Mailboxes
<1> QED
  BY InitMaps, StepMaps, BrokerInvariance, PTL
     DEF Spec, ImplementsMailbox, Promise!Spec, Mailboxes

-----------------------------------------------------------------------------
(* The daemon's calls.  A queue of frames: a Hello or an AttachAck, which  *)
(* is 0, does not count.                                                   *)
Frame == 0
Queues == Seq(Nat)

(* The numbers of p rise; those of p are below those of q; none is above   *)
(* n; there are numbers only.                                              *)
Rising(p) ==
  \A i, j \in DOMAIN p : i < j /\ p[i] # Frame /\ p[j] # Frame => p[i] < p[j]

Before(p, q) ==
  \A i \in DOMAIN p, j \in DOMAIN q : p[i] # Frame /\ q[j] # Frame => p[i] < q[j]

UpTo(p, n) == \A i \in DOMAIN p : p[i] <= n

NumbersOnly(p) == \A i \in DOMAIN p : p[i] # Frame

Numbers(p) == {p[i] : i \in DOMAIN p} \ {Frame}

(* p is q without its first k items and without some at the end.           *)
PieceOf(p, q, k) ==
  /\ p \in Queues /\ q \in Queues /\ k \in Nat
  /\ Len(p) + k <= Len(q)
  /\ \A i \in 1..Len(p) : p[i] = q[i + k]

-----------------------------------------------------------------------------
(* The frames of a piece.                                                  *)
LEMMA PieceAt ==
  ASSUME NEW p, NEW q, NEW k, PieceOf(p, q, k)
  PROVE  \A i \in DOMAIN p : i \in Nat \ {0} /\ i + k \in DOMAIN q /\ p[i] = q[i + k]
<1>1. /\ DOMAIN p = 1..Len(p) /\ DOMAIN q = 1..Len(q)
      /\ Len(p) \in Nat /\ Len(q) \in Nat /\ k \in Nat
  BY LenProperties DEF PieceOf, Queues
<1> QED
  BY <1>1 DEF PieceOf

(* What holds of a queue holds of a piece of it.                           *)
LEMMA Pieces ==
  ASSUME NEW p, NEW q, NEW k, PieceOf(p, q, k)
  PROVE  /\ Rising(q) => Rising(p)
         /\ \A n \in Nat : UpTo(q, n) => UpTo(p, n)
         /\ NumbersOnly(q) => NumbersOnly(p)
         /\ \A r \in Queues : /\ Before(q, r) => Before(p, r)
                              /\ Before(r, q) => Before(r, p)
         /\ Numbers(p) \subseteq Numbers(q)
<1>1. k \in Nat
  BY DEF PieceOf
<1>2. \A i \in DOMAIN p : i \in Nat /\ i + k \in DOMAIN q /\ p[i] = q[i + k]
  BY PieceAt
<1>3. Rising(q) => Rising(p)
  <2> SUFFICES ASSUME Rising(q), NEW i \in DOMAIN p, NEW j \in DOMAIN p, i < j,
                      p[i] # Frame, p[j] # Frame
               PROVE  p[i] < p[j]
    BY DEF Rising
  <2>1. i + k < j + k
    BY <1>1, <1>2
  <2> QED
    BY <1>2, <2>1 DEF Rising
<1>4. /\ \A n \in Nat : UpTo(q, n) => UpTo(p, n)
      /\ NumbersOnly(q) => NumbersOnly(p)
  BY <1>2 DEF UpTo, NumbersOnly
<1>5. \A r \in Queues : /\ Before(q, r) => Before(p, r)
                        /\ Before(r, q) => Before(r, p)
  BY <1>2 DEF Before
<1>6. Numbers(p) \subseteq Numbers(q)
  BY <1>2 DEF Numbers
<1> QED
  BY <1>3, <1>4, <1>5, <1>6

(* The tail of a queue, and what is between two places of it.              *)
LEMMA TailPiece ==
  ASSUME NEW q \in Queues, q # <<>>
  PROVE  PieceOf(Tail(q), q, 1)
BY HeadTailProperties DEF Queues, PieceOf

LEMMA MiddlePiece ==
  ASSUME NEW q \in Queues, NEW i \in 0..Len(q), NEW j \in 0..Len(q)
  PROVE  PieceOf(SubSeq(q, i + 1, j), q, i)
<1>1. Len(q) \in Nat /\ i \in Nat /\ j \in Nat /\ j <= Len(q)
  BY LenProperties DEF Queues
<1>2. \A h \in (i + 1)..j : q[h] \in Nat
  BY <1>1, ElementOfSeq DEF Queues
<1>3. /\ SubSeq(q, i + 1, j) \in Queues
      /\ Len(SubSeq(q, i + 1, j)) = IF i + 1 <= j THEN j - (i + 1) + 1 ELSE 0
      /\ \A h \in 1..(j - (i + 1) + 1) : SubSeq(q, i + 1, j)[h] = q[i + 1 + h - 1]
  <2> DEFINE m == i + 1
  <2>1. m \in Int /\ j \in Int /\ \A h \in m..j : q[h] \in Nat
    BY <1>1, <1>2
  <2> HIDE DEF m
  <2>2. /\ SubSeq(q, m, j) \in Seq(Nat)
        /\ Len(SubSeq(q, m, j)) = IF m <= j THEN j - m + 1 ELSE 0
        /\ \A h \in 1..(j - m + 1) : SubSeq(q, m, j)[h] = q[m + h - 1]
    BY <2>1, SubSeqProperties
  <2> QED
    BY <2>2 DEF m, Queues
<1>4. CASE i + 1 <= j
  BY <1>1, <1>3, <1>4 DEF PieceOf
<1>5. CASE ~(i + 1 <= j)
  BY <1>1, <1>3, <1>5 DEF PieceOf
<1> QED
  BY <1>4, <1>5

(* Nothing holds numbers of no queue.                                      *)
LEMMA NoFrames ==
  /\ <<>> \in Queues /\ Len(<<>>) = 0 /\ Numbers(<<>>) = {}
  /\ Rising(<<>>) /\ NumbersOnly(<<>>)
  /\ \A n \in Nat : UpTo(<<>>, n)
  /\ \A q \in Queues : Before(<<>>, q) /\ Before(q, <<>>)
BY DEF Queues, Numbers, Rising, NumbersOnly, UpTo, Before

(* One frame.                                                              *)
LEMMA OneFrame ==
  ASSUME NEW n \in Nat
  PROVE  /\ <<n>> \in Queues /\ Rising(<<n>>) /\ Numbers(<<n>>) = {n} \ {Frame}
         /\ \A m \in Nat : n <= m => UpTo(<<n>>, m)
         /\ n # Frame => NumbersOnly(<<n>>)
         /\ \A p \in Queues, m \in Nat :
              UpTo(p, m) /\ (m < n \/ n = Frame) => Before(p, <<n>>)
<1>1. <<n>> \in Queues /\ DOMAIN <<n>> = {1} /\ <<n>>[1] = n
  BY DEF Queues
<1>2. Rising(<<n>>) /\ Numbers(<<n>>) = {n} \ {Frame}
  BY <1>1 DEF Rising, Numbers
<1>3. /\ \A m \in Nat : n <= m => UpTo(<<n>>, m)
      /\ n # Frame => NumbersOnly(<<n>>)
  BY <1>1 DEF UpTo, NumbersOnly
<1>4. \A p \in Queues, m \in Nat :
        UpTo(p, m) /\ (m < n \/ n = Frame) => Before(p, <<n>>)
  <2> SUFFICES ASSUME NEW p \in Queues, NEW m \in Nat, UpTo(p, m),
                      m < n \/ n = Frame, NEW i \in DOMAIN p,
                      n # Frame
               PROVE  p[i] < n
    BY <1>1 DEF Before
  <2>1. p[i] \in Nat
    BY ElementOfSeq, LenProperties DEF Queues
  <2> QED
    BY <2>1 DEF UpTo
<1> QED
  BY <1>1, <1>2, <1>3, <1>4

(* Two queues in a row.                                                    *)
LEMMA InARow ==
  ASSUME NEW p \in Queues, NEW q \in Queues
  PROVE  /\ p \o q \in Queues
         /\ Rising(p) /\ Rising(q) /\ Before(p, q) => Rising(p \o q)
         /\ \A n \in Nat : UpTo(p, n) /\ UpTo(q, n) => UpTo(p \o q, n)
         /\ NumbersOnly(p) /\ NumbersOnly(q) => NumbersOnly(p \o q)
         /\ \A r \in Queues :
              /\ Before(p, r) /\ Before(q, r) => Before(p \o q, r)
              /\ Before(r, p) /\ Before(r, q) => Before(r, p \o q)
         /\ Numbers(p \o q) = Numbers(p) \cup Numbers(q)
<1> DEFINE s == p \o q
<1>1. /\ s \in Queues /\ Len(s) = Len(p) + Len(q)
      /\ \A i \in 1..(Len(p) + Len(q)) :
           s[i] = IF i <= Len(p) THEN p[i] ELSE q[i - Len(p)]
  BY ConcatProperties DEF Queues
<1>2. /\ DOMAIN p = 1..Len(p) /\ DOMAIN q = 1..Len(q) /\ DOMAIN s = 1..Len(s)
      /\ Len(p) \in Nat /\ Len(q) \in Nat
  BY <1>1, LenProperties DEF Queues
<1> HIDE DEF s
<1>3. \A i \in DOMAIN s :
        \/ i \in DOMAIN p /\ s[i] = p[i]
        \/ i > Len(p) /\ i - Len(p) \in DOMAIN q /\ s[i] = q[i - Len(p)]
  BY <1>1, <1>2
<1>4. /\ \A i \in DOMAIN p : i \in DOMAIN s /\ s[i] = p[i]
      /\ \A i \in DOMAIN q : i + Len(p) \in DOMAIN s /\ s[i + Len(p)] = q[i]
  BY <1>1, <1>2
<1>5. ASSUME Rising(p), Rising(q), Before(p, q)
      PROVE  Rising(s)
  <2> SUFFICES ASSUME NEW i \in DOMAIN s, NEW j \in DOMAIN s, i < j,
                      s[i] # Frame, s[j] # Frame
               PROVE  s[i] < s[j]
    BY DEF Rising
  <2>1. CASE i \in DOMAIN p /\ s[i] = p[i] /\ j \in DOMAIN p /\ s[j] = p[j]
    BY <1>5, <2>1 DEF Rising
  <2>2. CASE /\ i \in DOMAIN p /\ s[i] = p[i]
             /\ j - Len(p) \in DOMAIN q /\ s[j] = q[j - Len(p)]
    BY <1>5, <2>2 DEF Before
  <2>3. CASE /\ i - Len(p) \in DOMAIN q /\ s[i] = q[i - Len(p)]
             /\ j - Len(p) \in DOMAIN q /\ s[j] = q[j - Len(p)]
    <3>1. i - Len(p) < j - Len(p)
      BY <1>2, <2>3
    <3> QED
      BY <1>5, <2>3, <3>1 DEF Rising
  <2>4. CASE i > Len(p) /\ j \in DOMAIN p
    BY <1>2, <2>4
  <2> QED
    BY <1>3, <2>1, <2>2, <2>3, <2>4
<1>6. /\ \A n \in Nat : UpTo(p, n) /\ UpTo(q, n) => UpTo(s, n)
      /\ NumbersOnly(p) /\ NumbersOnly(q) => NumbersOnly(s)
  BY <1>3 DEF UpTo, NumbersOnly
<1>7. \A r \in Queues :
        /\ Before(p, r) /\ Before(q, r) => Before(s, r)
        /\ Before(r, p) /\ Before(r, q) => Before(r, s)
  BY <1>3 DEF Before
<1>8. Numbers(s) = Numbers(p) \cup Numbers(q)
  BY <1>3, <1>4 DEF Numbers
<1> QED
  BY <1>1, <1>5, <1>6, <1>7, <1>8 DEF s

(* To append a frame is to have one in a row.                              *)
LEMMA AppendInARow ==
  ASSUME NEW q \in Queues, NEW n \in Nat
  PROVE  Append(q, n) = q \o <<n>>
BY AppendIsConcat DEF Queues

(* The first frame of a rising queue is not in what follows it.            *)
LEMMA FirstOut ==
  ASSUME NEW q \in Queues, q # <<>>, Rising(q)
  PROVE  /\ Head(q) \in Nat
         /\ Head(q) # Frame => Head(q) \in Numbers(q) \ Numbers(Tail(q))
         /\ \A n \in Nat : UpTo(q, n) => Head(q) <= n
         /\ Head(q) # Frame => Before(<<Head(q)>>, Tail(q))
<1>1. /\ Len(q) \in Nat \ {0} /\ DOMAIN q = 1..Len(q) /\ Head(q) = q[1]
      /\ q[1] \in Nat /\ 1 \in DOMAIN q
  BY LenProperties, EmptySeq, HeadTailProperties, ElementOfSeq DEF Queues
<1>2. /\ Tail(q) \in Queues
      /\ \A i \in DOMAIN Tail(q) :
           i \in Nat \ {0} /\ i + 1 \in DOMAIN q /\ Tail(q)[i] = q[i + 1]
  BY <1>1, HeadTailProperties, LenProperties DEF Queues
<1>3. \A i \in DOMAIN Tail(q) :
        q[1] # Frame /\ Tail(q)[i] # Frame => q[1] < Tail(q)[i]
  BY <1>1, <1>2 DEF Rising
<1>4. Before(<<Head(q)>>, Tail(q))
  BY <1>1, <1>3 DEF Before
<1>5. ASSUME Head(q) # Frame
      PROVE  Head(q) \in Numbers(q) \ Numbers(Tail(q))
  <2>1. Head(q) \in Numbers(q)
    BY <1>1, <1>5 DEF Numbers
  <2>2. ASSUME Head(q) \in Numbers(Tail(q)) PROVE FALSE
    <3>1. PICK i \in DOMAIN Tail(q) : Tail(q)[i] = Head(q)
      BY <2>2 DEF Numbers
    <3> QED
      BY <1>1, <1>3, <1>5, <3>1
  <2> QED
    BY <2>1, <2>2
<1>6. \A n \in Nat : UpTo(q, n) => Head(q) <= n
  BY <1>1 DEF UpTo
<1> QED
  BY <1>1, <1>4, <1>5, <1>6
-----------------------------------------------------------------------------
(* The buffer for the daemon's bot.                                        *)
DaemonBoxes == Session!Broker!Boxes

(* The activities that wait rise, up to the last that arrived; and none    *)
(* waits beside a stream.                                                  *)
MailInv(x) ==
  /\ x \in DaemonBoxes
  /\ x.arrived <= MaxActivities
  /\ x.expired <= Len(x.buffer)
  /\ Rising(x.buffer) /\ NumbersOnly(x.buffer) /\ UpTo(x.buffer, x.arrived)
  /\ x.stream # 0 => x.buffer = <<>>

(* What x becomes has written to its stream.                               *)
Sent(x, y) == SubSeq(y.pushed, Len(x.pushed) + 1, Len(y.pushed))

(* Frames that were written before all that waits in x.                    *)
Passed(p, x) == p \in Queues /\ UpTo(p, x.arrived) /\ Before(p, x.buffer)

(* A step of the broker for the bot, from x to y: what it writes comes     *)
(* after all that was written before, and before what waits then.          *)
Onward(x, y) ==
  /\ MailInv(y)
  /\ Rising(Sent(x, y)) /\ NumbersOnly(Sent(x, y)) /\ Passed(Sent(x, y), y)
  /\ \A p : Passed(p, x) => Passed(p, y) /\ Before(p, Sent(x, y))

(* The fields of a box.                                                    *)
LEMMA MailTypes ==
  ASSUME NEW x \in DaemonBoxes
  PROVE  /\ x.buffer \in Queues /\ x.pushed \in Queues
         /\ Len(x.buffer) \in Nat /\ Len(x.pushed) \in Nat
         /\ x.expired \in Nat /\ x.pending \in Nat /\ x.told \in Nat
         /\ x.arrived \in Nat
<1>1. x.buffer \in Seq(Nat) /\ x.pushed \in Seq(Nat)
  BY DEF DaemonBoxes, Session!Broker!Boxes
<1>2. Len(x.buffer) \in Nat /\ Len(x.pushed) \in Nat
  BY <1>1, LenProperties
<1> QED
  BY <1>1, <1>2 DEF DaemonBoxes, Session!Broker!Boxes, Queues

(* A step that leaves the list of what was pushed writes nothing.          *)
LEMMA SentNothing ==
  ASSUME NEW x \in DaemonBoxes, NEW y, y.pushed = x.pushed
  PROVE  Sent(x, y) = <<>>
BY MailTypes, SubSeqEmpty DEF Sent

(* A step that adds q to it writes q.                                      *)
LEMMA SentAll ==
  ASSUME NEW x \in DaemonBoxes, NEW q \in Queues, NEW y,
         y.pushed = x.pushed \o q
  PROVE  Sent(x, y) = q
<1> DEFINE p == x.pushed
           s == p \o q
<1>1. p \in Seq(Nat) /\ q \in Seq(Nat) /\ Len(p) \in Nat /\ Len(q) \in Nat
  BY MailTypes, LenProperties DEF Queues
<1>2. s \in Seq(Nat) /\ Len(s) = Len(p) + Len(q)
  BY <1>1, ConcatProperties
<1>3. \A i \in 1..(Len(p) + Len(q)) :
        s[i] = IF i <= Len(p) THEN p[i] ELSE q[i - Len(p)]
  BY <1>1, ConcatProperties
<1> DEFINE w == SubSeq(s, Len(p) + 1, Len(s))
<1>4. \A i \in (Len(p) + 1)..Len(s) : s[i] \in Nat
  BY <1>1, <1>2, ElementOfSeq
<1>5. w = Sent(x, y)
  BY DEF Sent
<1> HIDE DEF p, s
<1>6. /\ w \in Seq(Nat)
      /\ Len(w) = IF Len(p) + 1 <= Len(s) THEN Len(s) - (Len(p) + 1) + 1 ELSE 0
      /\ \A i \in 1..(Len(s) - (Len(p) + 1) + 1) : w[i] = s[Len(p) + 1 + i - 1]
  BY <1>1, <1>2, <1>4, SubSeqProperties
<1> HIDE DEF w
<1>7. Len(w) = Len(q)
  BY <1>1, <1>2, <1>6
<1>8. ASSUME NEW i \in 1..Len(q) PROVE w[i] = q[i]
  <2>1. w[i] = s[Len(p) + 1 + i - 1]
    BY <1>1, <1>2, <1>6
  <2>2. Len(p) + 1 + i - 1 = Len(p) + i /\ Len(p) + i \in 1..(Len(p) + Len(q))
    BY <1>1
  <2>3. s[Len(p) + i] = q[Len(p) + i - Len(p)]
    BY <1>1, <1>3, <2>2
  <2>4. Len(p) + i - Len(p) = i
    BY <1>1
  <2> QED
    BY <2>1, <2>2, <2>3, <2>4
<1>9. w = q
  BY <1>1, <1>6, <1>7, <1>8, SeqEqual
<1> QED
  BY <1>5, <1>9

(* A step after which a piece of what waited waits, and that writes        *)
(* nothing.                                                                *)
LEMMA Waits ==
  ASSUME NEW x, MailInv(x), NEW y \in DaemonBoxes, NEW k,
         PieceOf(y.buffer, x.buffer, k),
         y.pushed = x.pushed, y.arrived = x.arrived,
         y.expired <= Len(y.buffer), y.stream # 0 => y.buffer = <<>>
  PROVE  Onward(x, y)
<1>1. x \in DaemonBoxes /\ x.arrived \in Nat /\ x.buffer \in Queues
  BY MailTypes DEF MailInv
<1>2. MailInv(y)
  BY <1>1, Pieces DEF MailInv
<1>3. Sent(x, y) = <<>>
  BY <1>1, SentNothing
<1>4. y.buffer \in Queues /\ y.arrived \in Nat
  BY MailTypes
<1>5. ASSUME NEW p, Passed(p, x) PROVE Passed(p, y) /\ Before(p, <<>>)
  <2>1. p \in Queues /\ UpTo(p, y.arrived) /\ Before(p, x.buffer)
    BY <1>5 DEF Passed
  <2>2. Before(p, y.buffer)
    BY <2>1, Pieces
  <2> QED
    BY <2>1, <2>2, NoFrames DEF Passed
<1>6. Passed(<<>>, y)
  BY <1>4, NoFrames DEF Passed
<1> QED
  BY <1>2, <1>3, <1>5, <1>6, NoFrames DEF Onward

(* Writing nothing, and then something.                                    *)
LEMMA MovesThen ==
  ASSUME NEW x \in DaemonBoxes, NEW z, NEW y, Onward(x, z), Onward(z, y),
         z.pushed = x.pushed
  PROVE  Onward(x, y)
<1>1. Sent(x, y) = Sent(z, y)
  BY DEF Sent
<1> QED
  BY <1>1 DEF Onward

(* A notice changes nothing but counters.                                  *)
LEMMA NoticeMoves ==
  ASSUME NEW x \in DaemonBoxes, NEW c \in Nat
  PROVE  LET y == Session!Broker!NotifyOverflowLater(x, c) IN
         /\ y \in DaemonBoxes
         /\ y.stream = x.stream /\ y.buffer = x.buffer
         /\ y.expired = x.expired /\ y.arrived = x.arrived
         /\ y.pushed = x.pushed
<1> DEFINE more == x.told + c
           owed == x.pending + c
<1>1. more \in Nat /\ owed \in Nat
  BY MailTypes
<1>2. more = x.told + c /\ owed = x.pending + c
  OBVIOUS
<1> HIDE DEF more, owed
<1>3. CASE x.stream # 0
  <2>1. Session!Broker!NotifyOverflowLater(x, c) = [x EXCEPT !.told = more]
    BY <1>2, <1>3 DEF Session!Broker!NotifyOverflowLater, Session!Broker!NoStream
  <2> QED
    BY <1>1, <2>1 DEF DaemonBoxes, Session!Broker!Boxes
<1>4. CASE x.stream = 0
  <2>1. Session!Broker!NotifyOverflowLater(x, c) = [x EXCEPT !.pending = owed]
    BY <1>2, <1>4 DEF Session!Broker!NotifyOverflowLater, Session!Broker!NoStream
  <2> QED
    BY <1>1, <2>1 DEF DaemonBoxes, Session!Broker!Boxes
<1> QED
  BY <1>3, <1>4

(* An activity for a stream that is there.                                 *)
LEMMA PushedMoves ==
  ASSUME NEW x, MailInv(x), x.stream # 0, x.arrived < MaxActivities
  PROVE  /\ Onward(x, Session!Broker!Pushed(x))
         /\ Session!Broker!Pushed(x).stream = x.stream
<1> DEFINE id == x.arrived + 1
           y == [x EXCEPT !.arrived = id, !.pushed = x.pushed \o <<id>>]
<1>1. /\ x \in DaemonBoxes /\ x.arrived \in Nat /\ x.pushed \in Queues
      /\ x.buffer = <<>>
  BY MailTypes DEF MailInv
<1>2. id \in Nat \ {0} /\ id > x.arrived /\ id <= MaxActivities
  BY <1>1, SessionAssumption
<1> HIDE DEF id
<1>3. Session!Broker!Pushed(x) = y
  BY <1>1, <1>2, AppendInARow DEF Session!Broker!Pushed, id
<1>4. x.pushed \o <<id>> \in Queues
  BY <1>1, <1>2, OneFrame, InARow
<1>5. y \in DaemonBoxes /\ y.stream = x.stream /\ y.expired = x.expired
  BY <1>1, <1>2, <1>4 DEF DaemonBoxes, Session!Broker!Boxes, Queues
<1>6. y.arrived = id /\ y.buffer = <<>> /\ y.pushed = x.pushed \o <<id>>
  BY <1>1 DEF DaemonBoxes, Session!Broker!Boxes
<1> HIDE DEF y
<1>7. Sent(x, y) = <<id>>
  BY <1>1, <1>2, <1>6, OneFrame, SentAll
<1>8. MailInv(y)
  BY <1>2, <1>5, <1>6, <1>1, NoFrames DEF MailInv
<1>9. Passed(<<id>>, y)
  BY <1>2, <1>6, OneFrame, NoFrames DEF Passed
<1>10. ASSUME NEW p, Passed(p, x) PROVE Passed(p, y) /\ Before(p, <<id>>)
  <2>1. p \in Queues /\ UpTo(p, x.arrived)
    BY <1>10 DEF Passed
  <2>2. \A i \in DOMAIN p : p[i] \in Nat
    BY <2>1, ElementOfSeq, LenProperties DEF Queues
  <2>3. UpTo(p, id)
    BY <1>1, <1>2, <2>1, <2>2 DEF UpTo
  <2>4. Before(p, <<id>>)
    BY <1>1, <1>2, <2>1, OneFrame
  <2> QED
    BY <1>6, <2>1, <2>3, <2>4, NoFrames DEF Passed
<1>11. Rising(<<id>>) /\ NumbersOnly(<<id>>)
  BY <1>2, OneFrame DEF Frame
<1>12. Onward(x, y)
  BY <1>7, <1>8, <1>9, <1>10, <1>11 DEF Onward
<1> QED
  BY <1>3, <1>5, <1>12

(* An activity for the buffer.                                             *)
LEMMA PutMoves ==
  ASSUME NEW x, MailInv(x), x.stream = 0, x.arrived < MaxActivities
  PROVE  /\ Onward(x, Session!Broker!Put(x))
         /\ Session!Broker!Put(x).stream = 0
<1> DEFINE id == x.arrived + 1
           q == x.buffer \o <<id>>
           y == [x EXCEPT !.arrived = id, !.buffer = q]
<1>1. /\ x \in DaemonBoxes /\ x.arrived \in Nat /\ x.buffer \in Queues
      /\ x.expired \in Nat /\ x.expired <= Len(x.buffer) /\ Len(x.buffer) \in Nat
  BY MailTypes DEF MailInv
<1>2. id \in Nat \ {0} /\ id > x.arrived /\ id <= MaxActivities
  BY <1>1, SessionAssumption
<1> HIDE DEF id
<1>3. Session!Broker!Put(x) = y
  BY <1>1, <1>2, AppendInARow DEF Session!Broker!Put, id
<1>4. q \in Queues /\ Len(q) = Len(x.buffer) + 1
  <2>1. q \in Queues
    BY <1>1, <1>2, OneFrame, InARow
  <2>2. Len(q) = Len(x.buffer) + Len(<<id>>) /\ Len(<<id>>) = 1
    BY <1>1, <1>2, OneFrame, ConcatProperties DEF Queues
  <2> QED
    BY <2>1, <2>2
<1>5. UpTo(x.buffer, id) /\ Before(x.buffer, <<id>>)
  <2>1. \A i \in DOMAIN x.buffer : x.buffer[i] \in Nat
    BY <1>1, ElementOfSeq, LenProperties DEF Queues
  <2>2. UpTo(x.buffer, x.arrived)
    BY DEF MailInv
  <2> QED
    BY <1>1, <1>2, <2>1, <2>2, OneFrame DEF UpTo
<1>6. Rising(q) /\ NumbersOnly(q) /\ UpTo(q, id)
  <2>1. Rising(x.buffer) /\ NumbersOnly(x.buffer)
    BY DEF MailInv
  <2>2. /\ <<id>> \in Queues /\ Rising(<<id>>) /\ NumbersOnly(<<id>>)
        /\ UpTo(<<id>>, id)
    BY <1>2, OneFrame DEF Frame
  <2> QED
    BY <1>1, <1>2, <1>5, <2>1, <2>2, InARow
<1>a. \A p \in Queues : Before(p, x.buffer) /\ Before(p, <<id>>) => Before(p, q)
  BY <1>1, <1>2, OneFrame, InARow
<1> HIDE DEF q
<1>7. y \in DaemonBoxes /\ y.expired = x.expired /\ y.stream = 0
  BY <1>1, <1>2, <1>4 DEF DaemonBoxes, Session!Broker!Boxes, Queues
<1>8. y.arrived = id /\ y.buffer = q /\ y.pushed = x.pushed
  BY <1>1 DEF DaemonBoxes, Session!Broker!Boxes
<1> HIDE DEF y
<1>9. Sent(x, y) = <<>>
  BY <1>1, <1>8, SentNothing
<1>10. MailInv(y)
  BY <1>1, <1>2, <1>4, <1>6, <1>7, <1>8 DEF MailInv
<1>11. ASSUME NEW p, Passed(p, x) PROVE Passed(p, y) /\ Before(p, <<>>)
  <2>1. p \in Queues /\ UpTo(p, x.arrived) /\ Before(p, x.buffer)
    BY <1>11 DEF Passed
  <2>2. \A i \in DOMAIN p : p[i] \in Nat
    BY <2>1, ElementOfSeq, LenProperties DEF Queues
  <2>3. UpTo(p, id)
    BY <1>1, <1>2, <2>1, <2>2 DEF UpTo
  <2>4. Before(p, <<id>>)
    BY <1>1, <1>2, <2>1, OneFrame
  <2>5. Before(p, q)
    BY <1>a, <2>1, <2>4
  <2> QED
    BY <1>8, <2>1, <2>3, <2>5, NoFrames DEF Passed
<1>12. Passed(<<>>, y)
  BY <1>2, <1>4, <1>8, NoFrames DEF Passed
<1> QED
  BY <1>3, <1>7, <1>9, <1>10, <1>11, <1>12, NoFrames DEF Onward

(* The oldest item of a full buffer gives way.                             *)
LEMMA ShiftedMoves ==
  ASSUME NEW x, MailInv(x), x.stream = 0, x.buffer # <<>>
  PROVE  LET y == Session!Broker!Shifted(x) IN
         Onward(x, y) /\ y.stream = 0 /\ y.pushed = x.pushed
                     /\ y.arrived = x.arrived
<1> DEFINE e == IF x.expired > 0 THEN x.expired - 1 ELSE 0
           z == [x EXCEPT !.buffer = Tail(x.buffer), !.expired = e]
           y == Session!Broker!NotifyOverflowLater(z, 1)
<1>1. /\ x \in DaemonBoxes /\ x.buffer \in Queues
      /\ x.expired \in Nat /\ x.expired <= Len(x.buffer)
  BY MailTypes DEF MailInv
<1>2. Session!Broker!Shifted(x) = y
  BY <1>1 DEF Session!Broker!Shifted
<1>3. /\ Tail(x.buffer) \in Queues /\ Len(Tail(x.buffer)) = Len(x.buffer) - 1
      /\ Len(x.buffer) \in Nat \ {0}
  BY <1>1, EmptySeq, LenProperties, HeadTailProperties DEF Queues
<1>4. PieceOf(Tail(x.buffer), x.buffer, 1)
  BY <1>1, TailPiece
<1>5. e \in Nat /\ e <= Len(Tail(x.buffer))
  BY <1>1, <1>3
<1> HIDE DEF e
<1>6. /\ z \in DaemonBoxes /\ z.buffer = Tail(x.buffer) /\ z.expired = e
      /\ z.arrived = x.arrived /\ z.pushed = x.pushed /\ z.stream = 0
  BY <1>1, <1>3, <1>5 DEF DaemonBoxes, Session!Broker!Boxes, Queues
<1> HIDE DEF z
<1>7. /\ y \in DaemonBoxes /\ y.buffer = Tail(x.buffer) /\ y.expired = e
      /\ y.arrived = x.arrived /\ y.pushed = x.pushed /\ y.stream = 0
  BY <1>6, NoticeMoves
<1> HIDE DEF y
<1>8. Onward(x, y)
  BY <1>4, <1>5, <1>7, Waits
<1> QED
  BY <1>2, <1>7, <1>8

(* An activity comes in.                                                   *)
LEMMA EnqueuedMovesOn ==
  ASSUME NEW x, MailInv(x), x.arrived < MaxActivities
  PROVE  LET y == Session!Broker!Enqueued(x) IN
         Onward(x, y) /\ y.stream = x.stream
<1>1. x \in DaemonBoxes /\ Len(x.buffer) \in Nat
  BY MailTypes DEF MailInv
<1>2. CASE x.stream # 0
  BY <1>2, PushedMoves DEF Session!Broker!Enqueued, Session!Broker!NoStream
<1>3. CASE x.stream = 0 /\ Len(x.buffer) >= MaxSessionPerBot
  <2> DEFINE z == Session!Broker!Shifted(x)
  <2>1. x.buffer # <<>>
    BY <1>1, <1>3, SessionAssumption, NoFrames
  <2>2. Onward(x, z) /\ z.stream = 0 /\ z.pushed = x.pushed /\ z.arrived = x.arrived
    BY <1>3, <2>1, ShiftedMoves
  <2>3. Session!Broker!Enqueued(x) = Session!Broker!Put(z)
    BY <1>3 DEF Session!Broker!Enqueued, Session!Broker!NoStream
  <2> HIDE DEF z
  <2>4. Onward(z, Session!Broker!Put(z)) /\ Session!Broker!Put(z).stream = 0
    BY <2>2, PutMoves DEF Onward
  <2> QED
    BY <1>1, <1>3, <2>2, <2>3, <2>4, MovesThen
<1>4. CASE x.stream = 0 /\ ~(Len(x.buffer) >= MaxSessionPerBot)
  BY <1>4, PutMoves DEF Session!Broker!Enqueued, Session!Broker!NoStream
<1> QED
  BY <1>2, <1>3, <1>4

(* What has not expired is a piece of the buffer.                          *)
LEMMA UnexpiredPiece ==
  ASSUME NEW x, MailInv(x)
  PROVE  /\ PieceOf(Session!Broker!Unexpired(x), x.buffer, x.expired)
         /\ Session!Broker!Unexpired(x) \in Queues
<1>1. /\ x.buffer \in Queues /\ x.expired \in 0..Len(x.buffer)
      /\ Len(x.buffer) \in 0..Len(x.buffer)
  BY MailTypes DEF MailInv
<1>2. PieceOf(Session!Broker!Unexpired(x), x.buffer, x.expired)
  BY <1>1, MiddlePiece DEF Session!Broker!Unexpired
<1> QED
  BY <1>2 DEF PieceOf

(* The sweep forgets what has expired.                                     *)
LEMMA SweptMovesOn ==
  ASSUME NEW x, MailInv(x)
  PROVE  LET y == Session!Broker!Swept(x) IN
         Onward(x, y) /\ y.stream = x.stream /\ y.pushed = x.pushed
<1> DEFINE q == Session!Broker!Unexpired(x)
           z == [x EXCEPT !.buffer = q, !.expired = 0]
           y == Session!Broker!NotifyOverflowLater(z, x.expired)
<1>1. /\ x \in DaemonBoxes /\ x.expired \in Nat
  BY MailTypes DEF MailInv
<1>2. Session!Broker!Swept(x) = y
  BY DEF Session!Broker!Swept
<1>3. PieceOf(q, x.buffer, x.expired) /\ q \in Queues
  BY UnexpiredPiece
<1>4. x.stream # 0 => q = <<>>
  <2> SUFFICES ASSUME x.stream # 0 PROVE q = <<>>
    OBVIOUS
  <2>1. x.buffer = <<>> /\ Len(q) + x.expired <= 0 /\ Len(q) \in Nat
    BY <1>3, NoFrames, LenProperties DEF MailInv, PieceOf, Queues
  <2> QED
    BY <1>1, <1>3, <2>1, EmptySeq DEF Queues
<1> HIDE DEF q
<1>5. /\ z \in DaemonBoxes /\ z.buffer = q /\ z.expired = 0
      /\ z.arrived = x.arrived /\ z.pushed = x.pushed /\ z.stream = x.stream
  BY <1>1, <1>3 DEF DaemonBoxes, Session!Broker!Boxes, Queues
<1> HIDE DEF z
<1>6. /\ y \in DaemonBoxes /\ y.buffer = q /\ y.expired = 0
      /\ y.arrived = x.arrived /\ y.pushed = x.pushed /\ y.stream = x.stream
  BY <1>1, <1>5, NoticeMoves
<1> HIDE DEF y
<1>7. Len(q) \in Nat
  BY <1>3, LenProperties DEF Queues
<1>8. y.expired <= Len(y.buffer)
  BY <1>6, <1>7
<1>9. Onward(x, y)
  BY <1>3, <1>4, <1>6, <1>8, Waits
<1> QED
  BY <1>2, <1>6, <1>9

(* A stream says Hello: it gets what waits and has not expired.            *)
LEMMA FlushedMovesOn ==
  ASSUME NEW x, MailInv(x), NEW s \in 1..MaxCalls
  PROVE  LET y == Session!Broker!Flushed(x, s) IN
         Onward(x, y) /\ y.stream = s
<1> DEFINE u == [x EXCEPT !.stream = s, !.latest = s]
           v == Session!Broker!NotifyOverflowLater(u, x.expired)
           q == Session!Broker!Unexpired(x)
           told == v.told + v.pending
           y == [v EXCEPT !.buffer = <<>>, !.expired = 0, !.pending = 0,
                          !.pushed = v.pushed \o q, !.told = told]
<1>1. x \in DaemonBoxes /\ x.expired \in Nat /\ x.arrived \in Nat
  BY MailTypes DEF MailInv
<1>2. PieceOf(q, x.buffer, x.expired) /\ q \in Queues
  BY UnexpiredPiece
<1>3. /\ u \in DaemonBoxes /\ u.stream = s /\ u.buffer = x.buffer
      /\ u.expired = x.expired /\ u.arrived = x.arrived /\ u.pushed = x.pushed
  BY <1>1 DEF DaemonBoxes, Session!Broker!Boxes, Session!Broker!Streams
<1>4. Session!Broker!Flushed(x, s) = Session!Broker!Emptied(v)
  BY DEF Session!Broker!Flushed
<1> HIDE DEF u
<1>5. /\ v \in DaemonBoxes /\ v.stream = s /\ v.buffer = x.buffer
      /\ v.expired = x.expired /\ v.arrived = x.arrived /\ v.pushed = x.pushed
  BY <1>1, <1>3, NoticeMoves
<1> HIDE DEF v
<1>6. Session!Broker!Unexpired(v) = q
  BY <1>5 DEF Session!Broker!Unexpired
<1> HIDE DEF q
<1>7. Session!Broker!Emptied(v) = y
  BY <1>6 DEF Session!Broker!Emptied
<1>8. told \in Nat /\ v.pushed \o q \in Queues
  BY <1>2, <1>5, MailTypes, InARow
<1> HIDE DEF told
<1>9. y \in DaemonBoxes
  BY <1>5, <1>8, NoFrames DEF DaemonBoxes, Session!Broker!Boxes, Queues
<1>10. /\ y.stream = s /\ y.buffer = <<>> /\ y.expired = 0
       /\ y.arrived = x.arrived /\ y.pushed = x.pushed \o q
  BY <1>5 DEF DaemonBoxes, Session!Broker!Boxes
<1> HIDE DEF y
<1>11. Sent(x, y) = q
  BY <1>1, <1>2, <1>10, SentAll
<1>12. MailInv(y)
  BY <1>1, <1>9, <1>10, NoFrames DEF MailInv
<1>13. Rising(q) /\ NumbersOnly(q) /\ UpTo(q, x.arrived)
  BY <1>1, <1>2, Pieces DEF MailInv
<1>14. Passed(q, y)
  BY <1>2, <1>10, <1>13, NoFrames DEF Passed
<1>15. ASSUME NEW p, Passed(p, x) PROVE Passed(p, y) /\ Before(p, q)
  <2>1. p \in Queues /\ UpTo(p, x.arrived) /\ Before(p, x.buffer)
    BY <1>15 DEF Passed
  <2>2. Before(p, q)
    BY <1>2, <2>1, Pieces
  <2> QED
    BY <1>10, <2>1, <2>2, NoFrames DEF Passed
<1>16. Onward(x, y)
  BY <1>11, <1>12, <1>13, <1>14, <1>15 DEF Onward
<1> QED
  BY <1>4, <1>7, <1>10, <1>16

(* Time passes.                                                            *)
LEMMA ExpiredMovesOn ==
  ASSUME NEW x, MailInv(x), x.expired < Len(x.buffer)
  PROVE  Onward(x, [x EXCEPT !.expired = x.expired + 1])
<1> DEFINE e == x.expired + 1
           y == [x EXCEPT !.expired = e]
<1>1. /\ x \in DaemonBoxes /\ x.expired \in Nat /\ x.buffer \in Queues
      /\ Len(x.buffer) \in Nat
  BY MailTypes DEF MailInv
<1>2. e \in Nat /\ e <= Len(x.buffer)
  BY <1>1
<1> HIDE DEF e
<1>3. /\ y \in DaemonBoxes /\ y.stream = x.stream /\ y.buffer = x.buffer
      /\ y.arrived = x.arrived /\ y.pushed = x.pushed /\ y.expired = e
  BY <1>1, <1>2 DEF DaemonBoxes, Session!Broker!Boxes
<1>4. PieceOf(y.buffer, x.buffer, 0)
  BY <1>1, <1>3 DEF PieceOf
<1> HIDE DEF y
<1>5. Onward(x, y)
  BY <1>2, <1>3, <1>4, Waits DEF MailInv
<1> QED
  BY <1>5 DEF y, e

(* The bot loses its stream.                                               *)
LEMMA UnpluggedMovesOn ==
  ASSUME NEW x, MailInv(x)
  PROVE  Onward(x, [x EXCEPT !.stream = 0])
<1> DEFINE y == [x EXCEPT !.stream = 0]
<1>1. /\ x \in DaemonBoxes /\ x.expired \in Nat /\ x.buffer \in Queues
      /\ Len(x.buffer) \in Nat
  BY MailTypes DEF MailInv
<1>3. /\ y \in DaemonBoxes /\ y.stream = 0 /\ y.buffer = x.buffer
      /\ y.arrived = x.arrived /\ y.pushed = x.pushed /\ y.expired = x.expired
  BY <1>1 DEF DaemonBoxes, Session!Broker!Boxes, Session!Broker!NoStream
<1>4. PieceOf(y.buffer, x.buffer, 0)
  BY <1>1, <1>3 DEF PieceOf
<1> HIDE DEF y
<1>5. Onward(x, y)
  BY <1>3, <1>4, Waits DEF MailInv
<1> QED
  BY <1>5 DEF y

(* The bot stays as it is.                                                 *)
LEMMA SameMovesOn ==
  ASSUME NEW x, MailInv(x)
  PROVE  Onward(x, x)
<1>1. /\ x \in DaemonBoxes /\ x.buffer \in Queues /\ Len(x.buffer) \in Nat
  BY MailTypes DEF MailInv
<1>2. PieceOf(x.buffer, x.buffer, 0)
  BY <1>1 DEF PieceOf
<1> QED
  BY <1>1, <1>2, Waits DEF MailInv

(* The relay starts anew.                                                  *)
LEMMA AnewMovesOn ==
  ASSUME NEW x, MailInv(x)
  PROVE  Onward(x, [Session!Broker!EmptyBox EXCEPT
                     !.arrived = x.arrived, !.pushed = x.pushed, !.told = x.told])
<1> DEFINE y == [Session!Broker!EmptyBox EXCEPT
                   !.arrived = x.arrived, !.pushed = x.pushed, !.told = x.told]
<1>1. /\ x \in DaemonBoxes /\ x.buffer \in Queues /\ Len(x.buffer) \in Nat
      /\ x.arrived \in Nat /\ x.pushed \in Queues /\ x.told \in Nat
  BY MailTypes DEF MailInv
<1>2. /\ y \in DaemonBoxes /\ y.stream = 0 /\ y.buffer = <<>>
      /\ y.arrived = x.arrived /\ y.pushed = x.pushed /\ y.expired = 0
  BY <1>1, NoFrames DEF DaemonBoxes, Session!Broker!Boxes, Session!Broker!EmptyBox,
     Session!Broker!NoStream, Queues
<1>3. PieceOf(y.buffer, x.buffer, 0)
  BY <1>1, <1>2, NoFrames DEF PieceOf
<1> HIDE DEF y
<1>4. y.expired <= Len(y.buffer)
  BY <1>2, NoFrames
<1>5. Onward(x, y)
  BY <1>2, <1>3, <1>4, Waits DEF MailInv
<1> QED
  BY <1>5 DEF y
-----------------------------------------------------------------------------
(* The calls.  A reply is in one place: not sent yet, in the queue of one  *)
(* call, being posted, posted, or refused by the sender.                   *)

(* A Hello is the first frame, and the relay takes it when it attaches.    *)
HelloFirst(c) ==
  \A i \in DOMAIN c.up : c.up[i] = Frame => i = 1 /\ c.server # "attached"

CallsInv(cs, dials) ==
  /\ cs \in [1..MaxCalls -> Session!CallStates]
  /\ \A k \in 1..MaxCalls : k > dials => cs[k] = Session!NotDialled
  /\ \A k \in 1..MaxCalls : HelloFirst(cs[k])

UpInv(cs, sent, gone) ==
  /\ \A k \in 1..MaxCalls : /\ Rising(cs[k].up) /\ UpTo(cs[k].up, sent)
                            /\ Numbers(cs[k].up) \cap gone = {}
  /\ \A k, l \in 1..MaxCalls :
       k # l => Numbers(cs[k].up) \cap Numbers(cs[l].up) = {}

LandedOf(p) == {p[i] : i \in DOMAIN p}

ReplyInv(sent, running, p, refused) ==
  /\ running \cup LandedOf(p) \cup refused \subseteq 1..sent
  /\ running \cap (LandedOf(p) \cup refused) = {}
  /\ LandedOf(p) \cap refused = {}
  /\ p \in Seq(1..MaxReplies)
  /\ IsFiniteSet(LandedOf(p)) /\ Cardinality(LandedOf(p)) = Len(p)

DaemonInv(d) ==
  /\ d \in Session!DaemonStates
  /\ d.call <= d.dials
  /\ d.timer <=> d.call = 0 /\ ~d.stopped
  /\ d.stopped => d.call = 0

(* What was handled, what the call holds, and what waits is in order.      *)
LineInv(handled, x, down) ==
  /\ Rising(handled) /\ NumbersOnly(handled) /\ Passed(handled, x)
  /\ Rising(down) /\ Passed(down, x)
  /\ Before(handled, down)

DownOf(cs, d) == IF d.call = 0 THEN <<>> ELSE cs[d.call].down

GoneOf(running, p, refused) == running \cup LandedOf(p) \cup refused

SessionInv ==
  /\ mail \in [{"bot"} -> DaemonBoxes] /\ MailInv(mail["bot"])
  /\ sessions \in [1..MaxCalls -> SUBSET {"bot"}] /\ joined \in 0..MaxCalls
  /\ faults \in 0..MaxFaults
  /\ DaemonInv(daemon)
  /\ CallsInv(calls, daemon.dials)
  /\ UpInv(calls, daemon.sent, GoneOf(posting, posted, daemon.refused))
  /\ ReplyInv(daemon.sent, posting, posted, daemon.refused)
  /\ LineInv(daemon.handled, mail["bot"], DownOf(calls, daemon))

(* The queues of a call.                                                   *)
LEMMA WiderSeq ==
  ASSUME NEW M \in Nat, NEW q \in Seq(0..M)
  PROVE  q \in Queues /\ UpTo(q, M)
<1>1. \A i \in DOMAIN q : q[i] \in 0..M
  BY ElementOfSeq, LenProperties
<1>2. q \in [1..Len(q) -> Nat] /\ Len(q) \in Nat
  BY <1>1, LenProperties
<1> QED
  BY <1>1, <1>2, SeqDef DEF Queues, UpTo

LEMMA RangedSeq ==
  ASSUME NEW M \in Nat, NEW q \in Queues, UpTo(q, M)
  PROVE  q \in Seq(0..M)
<1>1. \A i \in DOMAIN q : q[i] \in 0..M
  BY ElementOfSeq, LenProperties DEF Queues, UpTo
<1>2. q \in [1..Len(q) -> 0..M] /\ Len(q) \in Nat
  BY <1>1, LenProperties DEF Queues
<1> QED
  BY <1>2, SeqDef

LEMMA CallTypes ==
  ASSUME NEW c \in Session!CallStates
  PROVE  /\ c.up \in Queues /\ c.down \in Queues
         /\ UpTo(c.up, MaxReplies) /\ UpTo(c.down, MaxActivities)
<1>1. c.up \in Seq(0..MaxReplies) /\ c.down \in Seq(0..MaxActivities)
  BY DEF Session!CallStates, Session!Hello
<1> QED
  BY <1>1, WiderSeq, SessionAssumption

(* Replacing the fields of a call.                                         *)
LEMMA CallFields ==
  ASSUME NEW c \in Session!CallStates,
         NEW w \in {"none", "up", "cut", "ended"},
         NEW v \in {"none", "validating", "open", "attached", "closed"},
         NEW s \in 0..MaxCalls,
         NEW up \in Queues, UpTo(up, MaxReplies),
         NEW down \in Queues, UpTo(down, MaxActivities)
  PROVE  [c EXCEPT !.wire = w, !.server = v, !.session = s, !.up = up,
                   !.down = down] \in Session!CallStates
<1>1. up \in Seq(0..MaxReplies) /\ down \in Seq(0..MaxActivities)
  BY RangedSeq, SessionAssumption
<1> QED
  BY <1>1 DEF Session!CallStates, Session!Hello, Session!Calls

(* A call goes on: of the frames on their way to the relay the first are   *)
(* there still, or all but the first.                                      *)
GoesOn(c, d) ==
  /\ d \in Session!CallStates
  /\ \/ PieceOf(d.up, c.up, 0) /\ (d.server = "attached" => c.server = "attached")
     \/ c.up # <<>> /\ d.up = Tail(c.up)

LEMMA GoesOnKeeps ==
  ASSUME NEW c \in Session!CallStates, NEW d, GoesOn(c, d)
  PROVE  /\ HelloFirst(c) => HelloFirst(d)
         /\ Rising(c.up) => Rising(d.up)
         /\ \A n \in Nat : UpTo(c.up, n) => UpTo(d.up, n)
         /\ Numbers(d.up) \subseteq Numbers(c.up)
<1>1. c.up \in Queues /\ d.up \in Queues
  BY CallTypes DEF GoesOn
<1>2. CASE PieceOf(d.up, c.up, 0) /\ (d.server = "attached" => c.server = "attached")
  <2>1. \A i \in DOMAIN d.up : i \in DOMAIN c.up /\ d.up[i] = c.up[i]
    <3>1. \A i \in DOMAIN d.up :
            i \in Nat /\ i + 0 \in DOMAIN c.up /\ d.up[i] = c.up[i + 0]
      BY <1>2, PieceAt
    <3> QED
      BY <3>1
  <2> QED
    BY <1>2, <2>1, Pieces DEF HelloFirst
<1>3. CASE c.up # <<>> /\ d.up = Tail(c.up)
  <2>1. PieceOf(d.up, c.up, 1)
    BY <1>1, <1>3, TailPiece
  <2>2. \A i \in DOMAIN d.up :
          i \in Nat \ {0} /\ i + 1 \in DOMAIN c.up /\ d.up[i] = c.up[i + 1]
    BY <2>1, PieceAt
  <2>3. HelloFirst(c) => HelloFirst(d)
    BY <2>2 DEF HelloFirst
  <2> QED
    BY <2>1, <2>3, Pieces
<1> QED
  BY <1>2, <1>3 DEF GoesOn

LEMMA GoOnKeeps ==
  ASSUME NEW cs, NEW dials \in Nat, NEW sent \in Nat, NEW gone,
         CallsInv(cs, dials), UpInv(cs, sent, gone), NEW ds, NEW less,
         ds \in [1..MaxCalls -> Session!CallStates],
         less \subseteq gone,
         \A k \in 1..MaxCalls : GoesOn(cs[k], ds[k]),
         \A k \in 1..MaxCalls : k > dials => ds[k] = cs[k]
  PROVE  CallsInv(ds, dials) /\ UpInv(ds, sent, less)
<1>1. \A k \in 1..MaxCalls : cs[k] \in Session!CallStates
  BY DEF CallsInv
<1>2. \A k \in 1..MaxCalls :
        /\ HelloFirst(cs[k]) => HelloFirst(ds[k])
        /\ Rising(cs[k].up) => Rising(ds[k].up)
        /\ UpTo(cs[k].up, sent) => UpTo(ds[k].up, sent)
        /\ Numbers(ds[k].up) \subseteq Numbers(cs[k].up)
  BY <1>1, GoesOnKeeps
<1>3. CallsInv(ds, dials)
  BY <1>2 DEF CallsInv
<1>4. \A k \in 1..MaxCalls : /\ Rising(ds[k].up) /\ UpTo(ds[k].up, sent)
                             /\ Numbers(ds[k].up) \cap less = {}
  BY <1>2 DEF UpInv
<1>5. \A k, l \in 1..MaxCalls :
        k # l => Numbers(ds[k].up) \cap Numbers(ds[l].up) = {}
  BY <1>2 DEF UpInv
<1> QED
  BY <1>3, <1>4, <1>5 DEF UpInv

(* The line moves on with the broker.                                      *)
LEMMA LineMoves ==
  ASSUME NEW handled, NEW x, NEW y, NEW down,
         LineInv(handled, x, down), Onward(x, y)
  PROVE  /\ LineInv(handled, y, down)
         /\ LineInv(handled, y, down \o Sent(x, y))
         /\ LineInv(handled, y, down \o Append(Sent(x, y), Frame))
<1> DEFINE w == Sent(x, y)
<1>1. /\ Passed(handled, y) /\ Before(handled, w)
      /\ Passed(down, y) /\ Before(down, w)
  BY DEF LineInv, Onward
<1>2. /\ handled \in Queues /\ down \in Queues /\ w \in Queues
      /\ UpTo(down, y.arrived) /\ Before(down, y.buffer)
      /\ UpTo(handled, y.arrived)
      /\ UpTo(w, y.arrived) /\ Before(w, y.buffer)
      /\ Rising(w) /\ Rising(down) /\ Before(handled, down)
      /\ y.arrived \in Nat /\ y.buffer \in Queues
  BY <1>1, MailTypes DEF LineInv, Onward, Passed, MailInv
<1>3. LineInv(handled, y, down)
  BY <1>1 DEF LineInv
<1>4. LineInv(handled, y, down \o w)
  BY <1>1, <1>2, <1>3, InARow DEF LineInv, Passed
<1> HIDE DEF w
<1> DEFINE f == <<Frame>>
           v == Append(w, Frame)
<1>5. /\ f \in Queues /\ Rising(f) /\ UpTo(f, y.arrived) /\ Before(f, y.buffer)
      /\ Before(w, f) /\ Before(down, f) /\ Before(handled, f)
  <2>1. Before(f, y.buffer)
    BY DEF Before, Frame
  <2> QED
    BY <1>2, <2>1, OneFrame DEF Frame
<1>6. v = w \o f
  BY <1>2, AppendInARow DEF Frame
<1> HIDE DEF f, v
<1>7. /\ v \in Queues /\ Rising(v) /\ UpTo(v, y.arrived) /\ Before(v, y.buffer)
      /\ Before(down, v) /\ Before(handled, v)
  BY <1>1, <1>2, <1>5, <1>6, InARow
<1>8. LineInv(handled, y, down \o v)
  BY <1>2, <1>3, <1>7, InARow DEF LineInv, Passed
<1> QED
  BY <1>3, <1>4, <1>8 DEF w, v

(* A piece of what the call holds, or a call that holds nothing yet.       *)
LEMMA LinePiece ==
  ASSUME NEW handled, NEW x, MailInv(x), NEW down, LineInv(handled, x, down)
  PROVE  /\ \A q, k : PieceOf(q, down, k) => LineInv(handled, x, q)
         /\ LineInv(handled, x, <<>>)
<1>1. x.arrived \in Nat /\ x.buffer \in Queues
  BY MailTypes DEF MailInv
<1>2. ASSUME NEW q, NEW k, PieceOf(q, down, k) PROVE LineInv(handled, x, q)
  <2>1. q \in Queues
    BY <1>2 DEF PieceOf
  <2>2. Rising(q) /\ UpTo(q, x.arrived) /\ Before(q, x.buffer) /\ Before(handled, q)
    BY <1>1, <1>2, Pieces DEF LineInv, Passed
  <2> QED
    BY <2>1, <2>2 DEF LineInv, Passed
<1>3. LineInv(handled, x, <<>>)
  BY <1>1, NoFrames DEF LineInv, Passed
<1> QED
  BY <1>2, <1>3

(* The daemon handles the first number its call holds.                     *)
LEMMA LineHandled ==
  ASSUME NEW handled, NEW x, MailInv(x), NEW down, LineInv(handled, x, down),
         down # <<>>, Head(down) # Frame
  PROVE  /\ LineInv(Append(handled, Head(down)), x, Tail(down))
         /\ Head(down) \in 1..MaxActivities
<1> DEFINE h == Head(down)
           f == <<h>>
<1>1. /\ x.arrived \in Nat /\ x.buffer \in Queues /\ x.arrived <= MaxActivities
      /\ down \in Queues /\ handled \in Queues
  BY MailTypes DEF MailInv, LineInv, Passed
<1>2. /\ h \in Nat /\ h # Frame /\ h <= x.arrived /\ Before(f, Tail(down))
  BY <1>1, FirstOut DEF LineInv, Passed
<1>3. PieceOf(f, down, 0)
  <2>1. Len(down) \in Nat \ {0} /\ h = down[1]
    BY <1>1, LenProperties, EmptySeq, HeadTailProperties DEF Queues
  <2>2. f \in Queues /\ Len(f) = 1 /\ f[1] = h
    BY <1>2, OneFrame
  <2> QED
    BY <1>1, <2>1, <2>2 DEF PieceOf
<1>4. PieceOf(Tail(down), down, 1)
  BY <1>1, TailPiece
<1>5. LineInv(handled, x, f) /\ LineInv(handled, x, Tail(down))
  BY <1>3, <1>4, LinePiece
<1>6. Append(handled, h) = handled \o f
  BY <1>1, <1>2, AppendInARow
<1>7. NumbersOnly(f)
  BY <1>2, OneFrame
<1> HIDE DEF f
<1>8. LineInv(handled \o f, x, Tail(down))
  BY <1>1, <1>2, <1>5, <1>7, InARow DEF LineInv, Passed
<1>9. h \in 1..MaxActivities
  BY <1>1, <1>2, SessionAssumption DEF Frame
<1> QED
  BY <1>6, <1>8, <1>9

LEMMA SamePiece ==
  ASSUME NEW q \in Queues
  PROVE  PieceOf(q, q, 0)
BY LenProperties DEF PieceOf, Queues

LEMMA PrefixPiece ==
  ASSUME NEW q \in Queues, NEW j \in 0..Len(q)
  PROVE  PieceOf(SubSeq(q, 1, j), q, 0)
<1>1. Len(q) \in Nat
  BY LenProperties DEF Queues
<1>2. PieceOf(SubSeq(q, 0 + 1, j), q, 0)
  BY <1>1, MiddlePiece
<1> QED
  BY <1>2

LEMMA EmptyPiece ==
  ASSUME NEW q \in Queues
  PROVE  PieceOf(<<>>, q, 0)
BY NoFrames, LenProperties DEF PieceOf, Queues

-----------------------------------------------------------------------------
(* The steps.  First those of the relay and the network: a call goes on,   *)
(* and to the daemon's side nothing is added but what the broker wrote.    *)
CallOn(c, d, w) ==
  /\ GoesOn(c, d)
  /\ \/ PieceOf(d.down, c.down, 0)
     \/ d.down = c.down \o w
     \/ d.down = c.down \o Append(w, Frame)

RelayMoves(w) ==
  /\ mail' \in [{"bot"} -> DaemonBoxes] /\ Onward(mail["bot"], mail'["bot"])
  /\ w = Sent(mail["bot"], mail'["bot"])
  /\ sessions' \in [1..MaxCalls -> SUBSET {"bot"}] /\ joined' \in 0..MaxCalls
  /\ faults' \in 0..MaxFaults
  /\ calls' \in [1..MaxCalls -> Session!CallStates]
  /\ \A k \in 1..MaxCalls : CallOn(calls[k], calls'[k], w)
  /\ \A k \in 1..MaxCalls : k > daemon.dials => calls'[k] = calls[k]
  /\ posting' \subseteq posting /\ UNCHANGED <<posted, daemon>>

LEMMA DaemonTypes ==
  ASSUME NEW d \in Session!DaemonStates
  PROVE  /\ d.call \in 0..MaxCalls /\ d.timer \in BOOLEAN /\ d.stopped \in BOOLEAN
         /\ d.attached \in BOOLEAN /\ d.backoff \in 0..MaxBackoff
         /\ d.dials \in 0..MaxCalls /\ d.sent \in 0..MaxReplies
         /\ d.sent \in Nat /\ d.dials \in Nat
         /\ d.refused \subseteq 1..MaxReplies
         /\ d.handled \in Seq(1..MaxActivities)
BY SessionAssumption DEF Session!DaemonStates, Session!Calls, Session!NoCall

LEMMA RelayMovesKeep ==
  ASSUME SessionInv, NEW w, RelayMoves(w)
  PROVE  SessionInv'
<1> DEFINE x == mail["bot"]
           y == mail'["bot"]
<1>1. /\ Onward(x, y) /\ w = Sent(x, y) /\ MailInv(y)
      /\ posted' = posted /\ daemon' = daemon /\ posting' \subseteq posting
  BY DEF RelayMoves, Onward
<1>2. daemon.dials \in Nat /\ daemon.sent \in Nat /\ daemon.call \in 0..MaxCalls
  BY DaemonTypes DEF SessionInv, DaemonInv
<1>3. /\ CallsInv(calls', daemon.dials)
      /\ UpInv(calls', daemon.sent, GoneOf(posting', posted, daemon.refused))
  <2>1. GoneOf(posting', posted, daemon.refused)
          \subseteq GoneOf(posting, posted, daemon.refused)
    BY <1>1 DEF GoneOf
  <2>2. \A k \in 1..MaxCalls : GoesOn(calls[k], calls'[k])
    BY DEF RelayMoves, CallOn
  <2>3. /\ CallsInv(calls, daemon.dials)
        /\ UpInv(calls, daemon.sent, GoneOf(posting, posted, daemon.refused))
        /\ calls' \in [1..MaxCalls -> Session!CallStates]
        /\ \A k \in 1..MaxCalls : k > daemon.dials => calls'[k] = calls[k]
    BY DEF RelayMoves, SessionInv
  <2> QED
    BY <1>2, <2>1, <2>2, <2>3, GoOnKeeps
<1>4. ReplyInv(daemon.sent, posting', posted, daemon.refused)
  BY <1>1 DEF SessionInv, ReplyInv
<1>5. LineInv(daemon.handled, y, DownOf(calls', daemon))
  <2> DEFINE h == daemon.handled
             k == daemon.call
             down == DownOf(calls, daemon)
             next == DownOf(calls', daemon)
  <2> SUFFICES LineInv(h, y, next)
    OBVIOUS
  <2>1. LineInv(h, x, down)
    BY DEF SessionInv
  <2>2. /\ LineInv(h, y, down) /\ LineInv(h, y, down \o w)
        /\ LineInv(h, y, down \o Append(w, Frame))
    BY <1>1, <2>1, LineMoves
  <2>3. CASE k = 0
    BY <2>2, <2>3 DEF DownOf
  <2>4. CASE k # 0
    <3>1. k \in 1..MaxCalls
      BY <1>2, <2>4, SessionAssumption
    <3>2. down = calls[k].down /\ next = calls'[k].down
      BY <2>4 DEF DownOf
    <3>3. \/ PieceOf(next, down, 0)
          \/ next = down \o w
          \/ next = down \o Append(w, Frame)
      BY <3>1, <3>2 DEF RelayMoves, CallOn
    <3>4. MailInv(y)
      BY <1>1
    <3> HIDE DEF y, h, k, down, next
    <3>5. CASE PieceOf(next, down, 0)
      BY <2>2, <3>4, <3>5, LinePiece
    <3> QED
      BY <2>2, <3>3, <3>5
  <2> QED
    BY <2>3, <2>4
<1> QED
  BY <1>1, <1>3, <1>4, <1>5 DEF SessionInv, RelayMoves

(* What holds of the calls in each such step.                              *)
LEMMA CallsNow ==
  ASSUME SessionInv
  PROVE  /\ calls \in [1..MaxCalls -> Session!CallStates]
         /\ \A k \in 1..MaxCalls :
              /\ calls[k] \in Session!CallStates
              /\ calls[k].up \in Queues /\ calls[k].down \in Queues
              /\ k > daemon.dials => calls[k] = Session!NotDialled
         /\ mail["bot"] \in DaemonBoxes /\ MailInv(mail["bot"])
BY CallTypes DEF SessionInv, CallsInv, MailInv

LEMMA SameCallOn ==
  ASSUME SessionInv
  PROVE  \A k \in 1..MaxCalls : \A w : CallOn(calls[k], calls[k], w)
BY CallsNow, SamePiece DEF CallOn, GoesOn

(* What the broker writes to a call.                                       *)
LEMMA WrittenOn ==
  ASSUME NEW c \in Session!CallStates, NEW w \in Queues, UpTo(w, MaxActivities)
  PROVE  LET d == Session!Written(c, w) IN
         /\ d \in Session!CallStates
         /\ d.up = c.up /\ d.server = c.server
         /\ d.down = c.down \/ d.down = c.down \o w
         /\ c.wire # "up" => d = c
<1>1. c.down \in Queues /\ UpTo(c.down, MaxActivities)
  BY CallTypes
<1> DEFINE q == c.down \o w
<1>2. q \in Seq(0..MaxActivities)
  BY <1>1, InARow, RangedSeq, SessionAssumption
<1>3. q = c.down \o w
  OBVIOUS
<1> HIDE DEF q
<1>4. CASE c.wire = "up"
  <2>1. Session!Written(c, w) = [c EXCEPT !.down = q]
    BY <1>3, <1>4 DEF Session!Written
  <2> QED
    BY <1>2, <1>3, <1>4, <2>1 DEF Session!CallStates, Session!Hello
<1>5. CASE c.wire # "up"
  BY <1>5 DEF Session!Written
<1> QED
  BY <1>4, <1>5

(* What a step of the broker has pushed.                                   *)
LEMMA PushedIs ==
  ASSUME Onward(mail["bot"], mail'["bot"])
  PROVE  LET w == Session!Pushed IN
         /\ w = Sent(mail["bot"], mail'["bot"])
         /\ w \in Queues /\ UpTo(w, MaxActivities)
         /\ Append(w, Frame) \in Queues /\ UpTo(Append(w, Frame), MaxActivities)
<1> DEFINE w == Session!Pushed
           y == mail'["bot"]
<1>1. w = Sent(mail["bot"], y)
  BY DEF Session!Pushed, Session!Mail, Session!Bot, Sent
<1>2. /\ w \in Queues /\ UpTo(w, y.arrived)
      /\ y.arrived \in Nat /\ y.arrived <= MaxActivities
  BY <1>1, MailTypes DEF Onward, Passed, MailInv
<1> HIDE DEF w
<1>3. UpTo(w, MaxActivities)
  <2>1. \A i \in DOMAIN w : w[i] \in Nat
    BY <1>2, ElementOfSeq, LenProperties DEF Queues
  <2> QED
    BY <1>2, <2>1, SessionAssumption DEF UpTo
<1>4. /\ <<Frame>> \in Queues /\ UpTo(<<Frame>>, MaxActivities)
      /\ Append(w, Frame) = w \o <<Frame>>
  BY <1>2, OneFrame, AppendInARow, SessionAssumption DEF Frame
<1>5. w \o <<Frame>> \in Queues /\ UpTo(w \o <<Frame>>, MaxActivities)
  BY <1>2, <1>3, <1>4, InARow, SessionAssumption
<1> QED
  BY <1>1, <1>2, <1>3, <1>4, <1>5 DEF w

LEMMA EnqueueInboundKeeps ==
  ASSUME SessionInv, Session!EnqueueInbound
  PROVE  SessionInv'
<1> DEFINE x == mail["bot"]
           y == Session!Broker!Enqueued(x)
           w == Session!Pushed
           To(c) == c.server = "attached" /\ c.session = x.stream
<1>1. /\ x.arrived < MaxActivities /\ mail' = [mail EXCEPT !["bot"] = y]
      /\ UNCHANGED <<sessions, joined, posting, posted, daemon, faults>>
      /\ calls' = [k \in 1..MaxCalls |->
                     IF To(calls[k]) THEN Session!Written(calls[k], w) ELSE calls[k]]
  BY DEF Session!EnqueueInbound, Session!Broker!EnqueueInbound, Session!Bot,
     Session!Calls, Session!Mail
<1>2. Onward(x, y)
  BY <1>1, CallsNow, EnqueuedMovesOn
<1>3. mail' \in [{"bot"} -> DaemonBoxes] /\ mail'["bot"] = y
  BY <1>1, <1>2 DEF SessionInv, Onward, MailInv
<1>4. /\ w = Sent(x, mail'["bot"]) /\ w \in Queues /\ UpTo(w, MaxActivities)
  BY <1>2, <1>3, PushedIs
<1> HIDE DEF y, w
<1>5. ASSUME NEW k \in 1..MaxCalls
      PROVE  /\ calls'[k] \in Session!CallStates
             /\ CallOn(calls[k], calls'[k], w)
             /\ k > daemon.dials => calls'[k] = calls[k]
  <2>1. /\ calls[k] \in Session!CallStates /\ calls[k].up \in Queues
        /\ calls[k].down \in Queues
        /\ k > daemon.dials => calls[k] = Session!NotDialled
    BY CallsNow
  <2>2. CASE To(calls[k])
    <3> DEFINE d == Session!Written(calls[k], w)
    <3>1. /\ d \in Session!CallStates
          /\ d.up = calls[k].up /\ d.server = calls[k].server
          /\ d.down = calls[k].down \/ d.down = calls[k].down \o w
          /\ calls[k].wire # "up" => d = calls[k]
      BY <1>4, <2>1, WrittenOn
    <3>2. calls'[k] = d
      BY <1>1, <2>2
    <3> HIDE DEF d
    <3>3. PieceOf(d.up, calls[k].up, 0) /\ PieceOf(calls[k].down, calls[k].down, 0)
      BY <2>1, <3>1, SamePiece
    <3>4. CallOn(calls[k], d, w)
      BY <3>1, <3>3 DEF CallOn, GoesOn
    <3>5. k > daemon.dials => calls[k].wire # "up"
      BY <2>1 DEF Session!NotDialled
    <3> QED
      BY <3>1, <3>2, <3>4, <3>5
  <2>3. CASE ~To(calls[k])
    <3>1. calls'[k] = calls[k]
      BY <1>1, <2>3
    <3> QED
      BY <2>1, <3>1, SameCallOn
  <2> QED
    BY <2>2, <2>3
<1>6. calls' \in [1..MaxCalls -> Session!CallStates]
  BY <1>1, <1>5
<1>7. RelayMoves(w)
  BY <1>1, <1>2, <1>3, <1>4, <1>5, <1>6 DEF RelayMoves, SessionInv
<1> QED
  BY <1>7, RelayMovesKeep

LEMMA AgeKeeps ==
  ASSUME SessionInv, Session!Age
  PROVE  SessionInv'
<1> DEFINE x == mail["bot"]
           w == Sent(x, mail'["bot"])
<1>1. UNCHANGED <<sessions, joined, calls, posting, posted, daemon, faults>>
  BY DEF Session!Age, Session!Broker!Expire, Session!Broker!Sweep
<1>2. mail' \in [{"bot"} -> DaemonBoxes] /\ Onward(x, mail'["bot"])
  <2>1. CASE Session!Broker!Expire("bot")
    <3>1. /\ x.expired < Len(x.buffer)
          /\ mail' = [mail EXCEPT !["bot"] = [x EXCEPT !.expired = x.expired + 1]]
      BY <2>1, CallsNow DEF Session!Broker!Expire, SessionInv
    <3>2. Onward(x, [x EXCEPT !.expired = x.expired + 1])
      BY <3>1, CallsNow, ExpiredMovesOn
    <3> QED
      BY <3>1, <3>2 DEF SessionInv, Onward, MailInv
  <2>2. CASE Session!Broker!Sweep
    <3>1. mail' = [b \in {"bot"} |-> Session!Broker!Swept(mail[b])]
      BY <2>2 DEF Session!Broker!Sweep, Session!Bot
    <3>2. Onward(x, Session!Broker!Swept(x))
      BY CallsNow, SweptMovesOn
    <3> QED
      BY <3>1, <3>2 DEF Onward, MailInv
  <2> QED
    BY <2>1, <2>2 DEF Session!Age, Session!Bot
<1>3. \A k \in 1..MaxCalls : CallOn(calls[k], calls'[k], w)
  BY <1>1, SameCallOn
<1>4. RelayMoves(w)
  BY <1>1, <1>2, <1>3, CallsNow DEF RelayMoves, SessionInv
<1> QED
  BY <1>4, RelayMovesKeep

(* The steps of a call at which the broker does nothing.                   *)
LEMMA OfCalls ==
  ASSUME SessionInv,
         UNCHANGED <<mail, sessions, joined, posted, daemon>>,
         posting' \subseteq posting, faults' \in 0..MaxFaults,
         calls' \in [1..MaxCalls -> Session!CallStates],
         \A k \in 1..MaxCalls :
           \/ calls'[k] = calls[k]
           \/ /\ k <= daemon.dials /\ GoesOn(calls[k], calls'[k])
              /\ PieceOf(calls'[k].down, calls[k].down, 0)
  PROVE  SessionInv'
<1> DEFINE x == mail["bot"]
           w == Sent(x, mail'["bot"])
<1>1. mail' \in [{"bot"} -> DaemonBoxes] /\ Onward(x, mail'["bot"])
  BY CallsNow, SameMovesOn DEF SessionInv
<1>2. daemon.dials \in Nat
  BY DaemonTypes DEF SessionInv, DaemonInv
<1>3. ASSUME NEW k \in 1..MaxCalls
      PROVE  /\ CallOn(calls[k], calls'[k], w)
             /\ k > daemon.dials => calls'[k] = calls[k]
  <2>1. CASE calls'[k] = calls[k]
    BY <2>1, SameCallOn
  <2>2. CASE /\ k <= daemon.dials /\ GoesOn(calls[k], calls'[k])
             /\ PieceOf(calls'[k].down, calls[k].down, 0)
    <3>1. CallOn(calls[k], calls'[k], w)
      BY <2>2 DEF CallOn
    <3>2. ~(k > daemon.dials)
      BY <1>2, <2>2
    <3> QED
      BY <3>1, <3>2
  <2> QED
    BY <2>1, <2>2
<1>4. RelayMoves(w)
  BY <1>1, <1>3 DEF RelayMoves, SessionInv
<1> QED
  BY <1>4, RelayMovesKeep

(* A call that is not in its first state has been dialled.                 *)
LEMMA Dialled ==
  ASSUME SessionInv, NEW k \in 1..MaxCalls, calls[k] # Session!NotDialled
  PROVE  k <= daemon.dials
<1>1. daemon.dials \in Nat
  BY DaemonTypes DEF SessionInv, DaemonInv
<1> QED
  BY <1>1, CallsNow

LEMMA FaultTypes ==
  ASSUME SessionInv
  PROVE  /\ UNCHANGED faults => faults' \in 0..MaxFaults
         /\ Session!Fault => faults' \in 0..MaxFaults
BY SessionAssumption DEF SessionInv, Session!Fault

LEMMA ValidatedKeeps ==
  ASSUME SessionInv, NEW k \in 1..MaxCalls, Session!Validated(k)
  PROVE  SessionInv'
<1> DEFINE c == calls[k]
<1>1. /\ c \in Session!CallStates /\ c.up \in Queues /\ c.down \in Queues
      /\ calls \in [1..MaxCalls -> Session!CallStates]
  BY CallsNow
<1>2. /\ c.server = "validating" /\ faults' \in 0..MaxFaults
      /\ UNCHANGED <<mail, sessions, joined, posted, daemon, posting>>
  BY FaultTypes DEF Session!Validated, Session!broker
<1>3. PICK v \in {"open", "closed"} : calls' = [calls EXCEPT ![k].server = v]
  BY DEF Session!Validated
<1> DEFINE d == [c EXCEPT !.server = v]
<1>4. /\ d \in Session!CallStates /\ d.up = c.up /\ d.down = c.down
      /\ d.server # "attached"
  BY <1>1 DEF Session!CallStates
<1>5. calls' = [calls EXCEPT ![k] = d]
  BY <1>3
<1>6. k <= daemon.dials
  BY <1>2, Dialled DEF Session!NotDialled
<1> HIDE DEF d
<1>7. GoesOn(c, d) /\ PieceOf(d.down, c.down, 0)
  BY <1>1, <1>4, SamePiece DEF GoesOn
<1>8. /\ calls' \in [1..MaxCalls -> Session!CallStates]
      /\ calls'[k] = d /\ \A l \in 1..MaxCalls : l # k => calls'[l] = calls[l]
  BY <1>1, <1>4, <1>5
<1> QED
  BY <1>2, <1>6, <1>7, <1>8, OfCalls

LEMMA CloseStreamKeeps ==
  ASSUME SessionInv, NEW k \in 1..MaxCalls, Session!CloseStream(k)
  PROVE  SessionInv'
<1> DEFINE c == calls[k]
           d == [c EXCEPT !.server = "closed", !.up = <<>>]
           x == mail["bot"]
           w == Sent(x, mail'["bot"])
<1>1. /\ c \in Session!CallStates /\ c.up \in Queues /\ c.down \in Queues
      /\ calls \in [1..MaxCalls -> Session!CallStates]
      /\ c.session \in 0..MaxCalls
  BY CallsNow DEF Session!CallStates
<1>2. /\ c.server \in {"validating", "open", "attached"}
      /\ UNCHANGED <<posting, posted, daemon, faults>>
      /\ calls' = [calls EXCEPT ![k] = d]
  BY <1>1 DEF Session!CloseStream
<1>3. /\ d \in Session!CallStates /\ d.up = <<>> /\ d.down = c.down
      /\ d.server # "attached"
  <2>1. <<>> \in Seq(Session!Hello..MaxReplies)
    OBVIOUS
  <2> QED
    BY <1>1, <2>1 DEF Session!CallStates
<1>4. k <= daemon.dials
  BY <1>2, Dialled DEF Session!NotDialled
<1> HIDE DEF d
<1>5. CallOn(c, d, w)
  BY <1>1, <1>3, SamePiece, EmptyPiece DEF CallOn, GoesOn
<1>6. /\ calls' \in [1..MaxCalls -> Session!CallStates]
      /\ calls'[k] = d /\ \A l \in 1..MaxCalls : l # k => calls'[l] = calls[l]
  BY <1>1, <1>2, <1>3
<1>7. \A l \in 1..MaxCalls : /\ CallOn(calls[l], calls'[l], w)
                             /\ l > daemon.dials => calls'[l] = calls[l]
  <2>1. daemon.dials \in Nat
    BY DaemonTypes DEF SessionInv, DaemonInv
  <2> QED
    BY <1>4, <1>5, <1>6, <2>1, SameCallOn
<1>8. /\ mail' \in [{"bot"} -> DaemonBoxes] /\ Onward(x, mail'["bot"])
      /\ sessions' \in [1..MaxCalls -> SUBSET {"bot"}] /\ joined' \in 0..MaxCalls
  <2>1. CASE c.server = "attached"
    <3> DEFINE s == c.session
    <3>1. /\ sessions' = [sessions EXCEPT ![s] = {}] /\ joined' = joined
          /\ mail' = [b \in {"bot"} |->
                        IF b \in sessions[s] /\ mail[b].stream = s
                        THEN [mail[b] EXCEPT !.stream = 0] ELSE mail[b]]
      BY <2>1 DEF Session!CloseStream, Session!Broker!DetachStream, Session!Bot,
         Session!Broker!NoStream
    <3>2. Onward(x, x) /\ Onward(x, [x EXCEPT !.stream = 0])
      BY CallsNow, SameMovesOn, UnpluggedMovesOn
    <3>3. mail'["bot"] = x \/ mail'["bot"] = [x EXCEPT !.stream = 0]
      BY <3>1
    <3>4. mail'["bot"] \in DaemonBoxes /\ Onward(x, mail'["bot"])
      BY <3>2, <3>3 DEF Onward, MailInv
    <3>5. mail' \in [{"bot"} -> DaemonBoxes]
      BY <3>1, <3>4
    <3> QED
      BY <3>1, <3>4, <3>5 DEF SessionInv
  <2>2. CASE c.server # "attached"
    <3>1. UNCHANGED <<mail, sessions, joined>>
      BY <2>2 DEF Session!CloseStream, Session!broker
    <3> QED
      BY <3>1, CallsNow, SameMovesOn DEF SessionInv
  <2> QED
    BY <2>1, <2>2
<1>9. RelayMoves(w)
  BY <1>2, <1>6, <1>7, <1>8 DEF RelayMoves, SessionInv
<1> QED
  BY <1>9, RelayMovesKeep

LEMMA ReadHelloKeeps ==
  ASSUME SessionInv, NEW k \in 1..MaxCalls, Session!ReadHello(k)
  PROVE  SessionInv'
<1> DEFINE c == calls[k]
           x == mail["bot"]
           s == joined + 1
           w == Session!Pushed
           m == Append(w, Frame)
           e == [c EXCEPT !.server = "attached", !.session = s, !.up = Tail(c.up)]
           d == Session!Written(e, m)
<1>1. /\ c \in Session!CallStates /\ c.up \in Queues /\ c.down \in Queues
      /\ calls \in [1..MaxCalls -> Session!CallStates]
      /\ UpTo(c.up, MaxReplies)
  BY CallsNow, CallTypes
<1>2. /\ c.server = "open" /\ c.up # <<>> /\ joined < MaxCalls /\ joined' = s
      /\ UNCHANGED <<posting, posted, daemon, faults>>
      /\ sessions' = [sessions EXCEPT ![s] = {"bot"}]
      /\ mail' = [b \in {"bot"} |-> Session!Broker!Flushed(mail[b], s)]
  BY DEF Session!ReadHello, Session!Broker!AttachStream, Session!Bot
<1>3. s \in 1..MaxCalls
  BY <1>2, SessionAssumption DEF SessionInv
<1>4. /\ Onward(x, mail'["bot"]) /\ mail' \in [{"bot"} -> DaemonBoxes]
  BY <1>2, <1>3, CallsNow, FlushedMovesOn DEF Onward, MailInv
<1>5. /\ w = Sent(x, mail'["bot"]) /\ w \in Queues
      /\ m \in Queues /\ UpTo(m, MaxActivities)
  BY <1>4, PushedIs
<1>6. calls' = [calls EXCEPT ![k] = d]
  BY <1>1, <1>2 DEF Session!ReadHello, Session!Hello, Frame
<1>7. Tail(c.up) \in Queues /\ UpTo(Tail(c.up), MaxReplies)
  <2>1. PieceOf(Tail(c.up), c.up, 1)
    BY <1>1, <1>2, TailPiece
  <2> QED
    BY <1>1, <2>1, Pieces, SessionAssumption DEF PieceOf
<1> HIDE DEF s
<1>8. /\ e \in Session!CallStates /\ e.up = Tail(c.up) /\ e.down = c.down
  <2> DEFINE q == Tail(c.up)
  <2>1. q \in Seq(Session!Hello..MaxReplies) /\ s \in 0..MaxCalls
    BY <1>3, <1>7, RangedSeq, SessionAssumption DEF Session!Hello
  <2> HIDE DEF q
  <2>2. [c EXCEPT !.server = "attached", !.session = s, !.up = q]
          \in Session!CallStates
    BY <1>1, <2>1 DEF Session!CallStates
  <2>3. e \in Session!CallStates
    BY <2>2 DEF q
  <2> QED
    BY <1>1, <2>3 DEF Session!CallStates
<1> HIDE DEF w, m, e
<1>9. /\ d \in Session!CallStates /\ d.up = Tail(c.up)
      /\ d.down = c.down \/ d.down = c.down \o m
  <2>1. /\ d \in Session!CallStates /\ d.up = e.up
        /\ d.down = e.down \/ d.down = e.down \o m
    BY <1>5, <1>8, WrittenOn
  <2> HIDE DEF d
  <2> QED
    BY <1>8, <2>1
<1> HIDE DEF d
<1>10. CallOn(c, d, w)
  BY <1>1, <1>2, <1>9, SamePiece DEF CallOn, GoesOn, m
<1>11. /\ calls' \in [1..MaxCalls -> Session!CallStates]
       /\ calls'[k] = d /\ \A l \in 1..MaxCalls : l # k => calls'[l] = calls[l]
  BY <1>1, <1>6, <1>9
<1>12. \A l \in 1..MaxCalls : /\ CallOn(calls[l], calls'[l], w)
                              /\ l > daemon.dials => calls'[l] = calls[l]
  <2>1. daemon.dials \in Nat
    BY DaemonTypes DEF SessionInv, DaemonInv
  <2>2. k <= daemon.dials
    BY <1>2, Dialled DEF Session!NotDialled
  <2> QED
    BY <1>10, <1>11, <2>1, <2>2, SameCallOn
<1>13. sessions' \in [1..MaxCalls -> SUBSET {"bot"}] /\ joined' \in 0..MaxCalls
  BY <1>2, <1>3 DEF SessionInv
<1>14. RelayMoves(w)
  BY <1>2, <1>4, <1>5, <1>11, <1>12, <1>13 DEF RelayMoves, SessionInv
<1> QED
  BY <1>14, RelayMovesKeep

LEMMA BreakKeeps ==
  ASSUME SessionInv, Session!Break
  PROVE  SessionInv'
<1>1. /\ UNCHANGED <<mail, sessions, joined, posted, daemon, posting>>
      /\ faults' \in 0..MaxFaults
      /\ calls \in [1..MaxCalls -> Session!CallStates]
  BY FaultTypes, CallsNow DEF Session!Break, Session!broker
<1>2. PICK k \in 1..MaxCalls :
        /\ calls[k].wire = "up"
        /\ \E i \in 0..Len(calls[k].up), j \in 0..Len(calls[k].down) :
             calls' = [calls EXCEPT ![k] = Session!Broken(calls[k], i, j)]
  BY DEF Session!Break, Session!Calls
<1> DEFINE c == calls[k]
<1>3. PICK i \in 0..Len(c.up), j \in 0..Len(c.down) :
        calls' = [calls EXCEPT ![k] = Session!Broken(c, i, j)]
  BY <1>2
<1> DEFINE d == Session!Broken(c, i, j)
           p == SubSeq(c.up, 1, i)
           q == SubSeq(c.down, 1, j)
<1>4. /\ c \in Session!CallStates /\ c.up \in Queues /\ c.down \in Queues
      /\ UpTo(c.up, MaxReplies) /\ UpTo(c.down, MaxActivities)
  BY CallsNow, CallTypes
<1>5. PieceOf(p, c.up, 0) /\ PieceOf(q, c.down, 0)
  BY <1>4, PrefixPiece
<1>6. p \in Seq(Session!Hello..MaxReplies) /\ q \in Seq(Session!Hello..MaxActivities)
  <2>1. /\ p \in Queues /\ UpTo(p, MaxReplies)
        /\ q \in Queues /\ UpTo(q, MaxActivities)
    BY <1>4, <1>5, Pieces, SessionAssumption DEF PieceOf
  <2> QED
    BY <2>1, RangedSeq, SessionAssumption DEF Session!Hello
<1>7. d = [c EXCEPT !.wire = "cut", !.up = p, !.down = q]
  BY <1>4 DEF Session!Broken
<1> HIDE DEF p, q
<1>8. /\ d \in Session!CallStates /\ d.up = p /\ d.down = q
      /\ d.server = c.server
  BY <1>4, <1>6, <1>7 DEF Session!CallStates
<1>9. k <= daemon.dials
  BY <1>2, Dialled DEF Session!NotDialled
<1> HIDE DEF d
<1>10. GoesOn(c, d) /\ PieceOf(d.down, c.down, 0)
  BY <1>5, <1>8 DEF GoesOn
<1>11. /\ calls' \in [1..MaxCalls -> Session!CallStates]
       /\ calls'[k] = d /\ \A l \in 1..MaxCalls : l # k => calls'[l] = calls[l]
  BY <1>1, <1>3, <1>8 DEF d
<1> QED
  BY <1>1, <1>9, <1>10, <1>11, OfCalls

LEMMA RestartRelayKeeps ==
  ASSUME SessionInv, Session!RestartRelay
  PROVE  SessionInv'
<1> DEFINE x == mail["bot"]
           y == [Session!Broker!EmptyBox EXCEPT
                   !.arrived = x.arrived, !.pushed = x.pushed, !.told = x.told]
           Shut(c) == [Session!Broken(c, 0, Len(c.down)) EXCEPT !.server = "closed"]
           w == Sent(x, mail'["bot"])
<1>1. /\ mail' = [mail EXCEPT !["bot"] = y]
      /\ sessions' = [s \in 1..MaxCalls |-> {}] /\ posting' = {}
      /\ UNCHANGED <<joined, posted, daemon>>
      /\ calls' = [k \in 1..MaxCalls |->
                     IF calls[k].server \in {"none", "closed"} THEN calls[k]
                     ELSE Shut(calls[k])]
      /\ faults' \in 0..MaxFaults
  BY FaultTypes DEF Session!RestartRelay, Session!Calls, Session!Bot, Session!Mail
<1>2. Onward(x, y)
  BY CallsNow, AnewMovesOn
<1> HIDE DEF y
<1>3. mail' \in [{"bot"} -> DaemonBoxes] /\ Onward(x, mail'["bot"])
  BY <1>1, <1>2 DEF SessionInv, Onward, MailInv
<1>4. ASSUME NEW k \in 1..MaxCalls
      PROVE  /\ calls'[k] \in Session!CallStates
             /\ CallOn(calls[k], calls'[k], w)
             /\ k > daemon.dials => calls'[k] = calls[k]
  <2> DEFINE c == calls[k]
  <2>1. /\ c \in Session!CallStates /\ c.up \in Queues /\ c.down \in Queues
        /\ k > daemon.dials => c = Session!NotDialled
    BY CallsNow
  <2>2. CASE c.server \in {"none", "closed"}
    <3>1. calls'[k] = c
      BY <1>1, <2>2
    <3> QED
      BY <2>1, <3>1, SameCallOn
  <2>3. CASE c.server \notin {"none", "closed"}
    <3> DEFINE d == Shut(c)
    <3>1. calls'[k] = d
      BY <1>1, <2>3
    <3>2. SubSeq(c.up, 1, 0) = <<>>
      BY SubSeqEmpty
    <3>3. SubSeq(c.down, 1, Len(c.down)) = c.down
      BY <2>1, SubSeqFull DEF Queues
    <3>4. d = [c EXCEPT !.wire = "cut", !.server = "closed", !.up = <<>>]
      <4>1. d = [[c EXCEPT !.wire = "cut", !.up = <<>>, !.down = c.down]
                    EXCEPT !.server = "closed"]
        BY <3>2, <3>3 DEF Session!Broken
      <4> QED
        BY <2>1, <4>1 DEF Session!CallStates
    <3>5. /\ d \in Session!CallStates /\ d.up = <<>> /\ d.down = c.down
          /\ d.server # "attached"
      <4>1. <<>> \in Seq(Session!Hello..MaxReplies)
        OBVIOUS
      <4> HIDE DEF d
      <4> QED
        BY <2>1, <3>4, <4>1 DEF Session!CallStates
    <3> HIDE DEF d
    <3>6. CallOn(c, d, w)
      BY <2>1, <3>5, EmptyPiece, SamePiece DEF CallOn, GoesOn
    <3>7. ~(k > daemon.dials)
      BY <2>1, <2>3 DEF Session!NotDialled
    <3> QED
      BY <3>1, <3>5, <3>6, <3>7
  <2> QED
    BY <2>2, <2>3
<1>5. calls' \in [1..MaxCalls -> Session!CallStates]
  BY <1>1, <1>4
<1>6. RelayMoves(w)
  BY <1>1, <1>3, <1>4, <1>5 DEF RelayMoves, SessionInv
<1> QED
  BY <1>6, RelayMovesKeep

(* A reply is read: it is being posted then, and in no queue.              *)
LEMMA ReadReplyKeeps ==
  ASSUME SessionInv, NEW k \in 1..MaxCalls, Session!ReadReply(k)
  PROVE  SessionInv'
<1> DEFINE c == calls[k]
           n == Head(c.up)
           q == Tail(c.up)
           d == [c EXCEPT !.up = q]
           gone == GoneOf(posting, posted, daemon.refused)
           more == GoneOf(posting', posted, daemon.refused)
<1>1. /\ c \in Session!CallStates /\ c.up \in Queues /\ c.down \in Queues
      /\ calls \in [1..MaxCalls -> Session!CallStates]
      /\ UpTo(c.up, MaxReplies)
      /\ CallsInv(calls, daemon.dials) /\ UpInv(calls, daemon.sent, gone)
      /\ Rising(c.up) /\ UpTo(c.up, daemon.sent) /\ HelloFirst(c)
      /\ daemon.sent \in Nat /\ daemon.dials \in Nat
      /\ daemon.call \in 0..MaxCalls
  <2>1. CallsInv(calls, daemon.dials) /\ UpInv(calls, daemon.sent, gone)
    BY DEF SessionInv
  <2>2. Rising(c.up) /\ UpTo(c.up, daemon.sent) /\ HelloFirst(c)
    BY <2>1 DEF UpInv, CallsInv
  <2> QED
    BY <2>1, <2>2, CallsNow, CallTypes, DaemonTypes DEF SessionInv, DaemonInv
<1>2. /\ c.server = "attached" /\ c.up # <<>> /\ posting' = posting \cup {n}
      /\ calls' = [calls EXCEPT ![k] = d]
      /\ UNCHANGED <<mail, sessions, joined, posted, daemon, faults>>
  BY <1>1 DEF Session!ReadReply, Session!broker
<1>3. n \in Nat /\ n # Frame /\ n <= daemon.sent /\ n \in Numbers(c.up) \ Numbers(q)
  <2>1. n = c.up[1] /\ 1 \in DOMAIN c.up
    BY <1>1, <1>2, LenProperties, EmptySeq, HeadTailProperties DEF Queues
  <2>2. n # Frame
    BY <1>1, <1>2, <2>1 DEF HelloFirst
  <2> QED
    BY <1>1, <1>2, <2>2, FirstOut
<1>4. PieceOf(q, c.up, 1)
  BY <1>1, <1>2, TailPiece
<1>5. q \in Seq(Session!Hello..MaxReplies)
  <2>1. q \in Queues /\ UpTo(q, MaxReplies)
    BY <1>1, <1>4, Pieces, SessionAssumption DEF PieceOf
  <2> QED
    BY <2>1, RangedSeq, SessionAssumption DEF Session!Hello
<1>6. q = Tail(c.up)
  OBVIOUS
<1> HIDE DEF n, q
<1>7. d \in Session!CallStates /\ d.up = q /\ d.down = c.down
  BY <1>1, <1>5 DEF Session!CallStates
<1> HIDE DEF d
<1>8. /\ calls' \in [1..MaxCalls -> Session!CallStates]
      /\ calls'[k] = d /\ \A l \in 1..MaxCalls : l # k => calls'[l] = calls[l]
  BY <1>1, <1>2, <1>7
<1>9. \A l \in 1..MaxCalls : GoesOn(calls[l], calls'[l])
  <2>1. GoesOn(c, d)
    BY <1>2, <1>6, <1>7 DEF GoesOn
  <2> QED
    BY <1>8, <2>1, CallsNow, SamePiece DEF GoesOn
<1>10. \A l \in 1..MaxCalls : l > daemon.dials => calls'[l] = calls[l]
  <2>1. k <= daemon.dials
    BY <1>2, Dialled DEF Session!NotDialled
  <2> QED
    BY <1>1, <1>8, <2>1
<1>11. CallsInv(calls', daemon.dials) /\ UpInv(calls', daemon.sent, gone)
  BY <1>1, <1>8, <1>9, <1>10, GoOnKeeps
<1>12. UpInv(calls', daemon.sent, more)
  <2>1. more = gone \cup {n}
    BY <1>2 DEF GoneOf
  <2>2. n \notin Numbers(calls'[k].up)
    BY <1>3, <1>7, <1>8
  <2>3. \A l \in 1..MaxCalls : l # k => n \notin Numbers(calls'[l].up)
    BY <1>1, <1>3, <1>8 DEF UpInv
  <2> QED
    BY <1>11, <2>1, <2>2, <2>3 DEF UpInv
<1>13. ReplyInv(daemon.sent, posting', posted, daemon.refused)
  <2>1. n \in 1..daemon.sent
    BY <1>1, <1>3 DEF Frame
  <2>2. n \notin gone
    BY <1>1, <1>3 DEF UpInv
  <2> QED
    BY <1>2, <2>1, <2>2 DEF SessionInv, ReplyInv, GoneOf
<1>14. DownOf(calls', daemon) = DownOf(calls, daemon)
  <2>1. \A l \in 1..MaxCalls : calls'[l].down = calls[l].down
    BY <1>7, <1>8
  <2> QED
    BY <1>1, <2>1, SessionAssumption DEF DownOf
<1> QED
  BY <1>2, <1>11, <1>12, <1>13, <1>14 DEF SessionInv

(* A reply that was being posted is posted, or is lost.                    *)
LEMMA PostedOnce ==
  ASSUME NEW sent \in Nat, NEW running, NEW p, NEW refused,
         ReplyInv(sent, running, p, refused),
         NEW n \in running, sent <= MaxReplies
  PROVE  /\ ReplyInv(sent, running \ {n}, Append(p, n), refused)
         /\ ReplyInv(sent, running \ {n}, p, refused)
         /\ GoneOf(running \ {n}, Append(p, n), refused)
              \subseteq GoneOf(running, p, refused)
<1> DEFINE q == Append(p, n)
<1>1. n \in 1..MaxReplies /\ p \in Seq(1..MaxReplies) /\ n \in 1..sent
  BY SessionAssumption DEF ReplyInv
<1>2. /\ q \in Seq(1..MaxReplies) /\ Len(q) = Len(p) + 1
      /\ DOMAIN p = 1..Len(p) /\ Len(p) \in Nat
      /\ \A i \in 1..Len(p) : q[i] = p[i]
      /\ q[Len(p) + 1] = n
      /\ DOMAIN q = 1..(Len(p) + 1)
  BY <1>1, AppendProperties, LenProperties
<1> HIDE DEF q
<1>3. LandedOf(q) = LandedOf(p) \cup {n}
  <2>1. LandedOf(q) \subseteq LandedOf(p) \cup {n}
    BY <1>2 DEF LandedOf
  <2>2. n \in LandedOf(q)
    BY <1>2 DEF LandedOf
  <2>3. LandedOf(p) \subseteq LandedOf(q)
    BY <1>2 DEF LandedOf
  <2> QED
    BY <2>1, <2>2, <2>3
<1>4. n \notin LandedOf(p) /\ n \notin refused
  BY DEF ReplyInv
<1>5. IsFiniteSet(LandedOf(q)) /\ Cardinality(LandedOf(q)) = Len(q)
  <2> DEFINE S == LandedOf(p)
  <2>1. IsFiniteSet(S) /\ Cardinality(S) = Len(p) /\ n \notin S
    BY <1>4 DEF ReplyInv
  <2>2. LandedOf(q) = S \cup {n}
    BY <1>3
  <2> HIDE DEF S
  <2>3. /\ IsFiniteSet(S \cup {n})
        /\ Cardinality(S \cup {n}) = Cardinality(S) + 1
    BY <2>1, FS_AddElement
  <2> QED
    BY <1>2, <2>1, <2>2, <2>3
<1>6. ReplyInv(sent, running \ {n}, q, refused)
  BY <1>1, <1>2, <1>3, <1>4, <1>5 DEF ReplyInv
<1>7. ReplyInv(sent, running \ {n}, p, refused)
  BY DEF ReplyInv
<1>8. GoneOf(running \ {n}, q, refused) \subseteq GoneOf(running, p, refused)
  BY <1>3 DEF GoneOf
<1> QED
  BY <1>6, <1>7, <1>8 DEF q

LEMMA DeliverOutboundKeeps ==
  ASSUME SessionInv, NEW n \in posting, Session!DeliverOutbound(n)
  PROVE  SessionInv'
<1> DEFINE gone == GoneOf(posting, posted, daemon.refused)
           less == GoneOf(posting', posted', daemon.refused)
<1>1. /\ posting' = posting \ {n}
      /\ posted' = posted \/ posted' = Append(posted, n)
      /\ UNCHANGED <<mail, sessions, joined, calls, daemon>>
      /\ faults' \in 0..MaxFaults
  BY FaultTypes DEF Session!DeliverOutbound, Session!broker
<1>2. /\ daemon.sent \in Nat /\ daemon.sent <= MaxReplies
      /\ ReplyInv(daemon.sent, posting, posted, daemon.refused)
      /\ UpInv(calls, daemon.sent, gone)
  BY DaemonTypes DEF SessionInv, DaemonInv
<1>3. /\ ReplyInv(daemon.sent, posting', posted', daemon.refused)
      /\ less \subseteq gone
  <2>1. /\ ReplyInv(daemon.sent, posting \ {n}, Append(posted, n), daemon.refused)
        /\ ReplyInv(daemon.sent, posting \ {n}, posted, daemon.refused)
        /\ GoneOf(posting \ {n}, Append(posted, n), daemon.refused) \subseteq gone
    BY <1>2, PostedOnce
  <2>2. GoneOf(posting \ {n}, posted, daemon.refused) \subseteq gone
    BY DEF GoneOf
  <2> QED
    BY <1>1, <2>1, <2>2
<1> HIDE DEF gone, less
<1>4. UpInv(calls, daemon.sent, less)
  BY <1>2, <1>3 DEF UpInv
<1> QED
  BY <1>1, <1>3, <1>4 DEF SessionInv, less

(* What holds of the daemon in its steps.                                  *)
LEMMA DaemonNow ==
  ASSUME SessionInv
  PROVE  /\ daemon \in Session!DaemonStates
         /\ daemon.call \in 0..MaxCalls /\ daemon.dials \in 0..MaxCalls
         /\ daemon.sent \in 0..MaxReplies /\ daemon.sent \in Nat
         /\ daemon.timer \in BOOLEAN /\ daemon.stopped \in BOOLEAN
         /\ daemon.refused \subseteq 1..MaxReplies
         /\ daemon.call <= daemon.dials
         /\ daemon.timer <=> daemon.call = 0 /\ ~daemon.stopped
         /\ daemon.stopped => daemon.call = 0
         /\ MaxCalls \in Nat /\ MaxReplies \in Nat /\ MaxBackoff \in Nat
BY DaemonTypes, SessionAssumption DEF SessionInv, DaemonInv

(* The call that is dialled holds nothing.                                 *)
LEMMA ConnectKeeps ==
  ASSUME SessionInv, Session!Connect
  PROVE  SessionInv'
<1> DEFINE k == daemon.dials + 1
           gone == GoneOf(posting, posted, daemon.refused)
<1>1. /\ daemon.timer /\ daemon.dials < MaxCalls
      /\ daemon' = [daemon EXCEPT !.timer = FALSE, !.call = k, !.dials = k]
      /\ UNCHANGED <<mail, sessions, joined, posting, posted>>
      /\ faults' \in 0..MaxFaults
  BY FaultTypes DEF Session!Connect, Session!broker
<1>2. /\ k \in 1..MaxCalls /\ k > daemon.dials /\ calls[k] = Session!NotDialled
      /\ daemon.dials \in Nat
  BY <1>1, CallsNow, DaemonNow
<1>3. \/ calls' = [calls EXCEPT ![k].wire = "up", ![k].server = "validating",
                                ![k].up = <<0>>]
      \/ calls' = [calls EXCEPT ![k].wire = "cut", ![k].server = "closed"]
  BY DEF Session!Connect, Session!Hello
<1> HIDE DEF k
<1>4. PICK d :
        /\ calls' = [calls EXCEPT ![k] = d]
        /\ d \in Session!CallStates /\ d.down = <<>>
        /\ d.up = <<>> \/ d.up = <<0>>
        /\ d.server # "attached"
  <2> DEFINE c == calls[k]
             u == [c EXCEPT !.wire = "up", !.server = "validating", !.up = <<0>>]
             v == [c EXCEPT !.wire = "cut", !.server = "closed"]
  <2>1. calls' = [calls EXCEPT ![k] = u] \/ calls' = [calls EXCEPT ![k] = v]
    BY <1>2, <1>3, CallsNow
  <2>2. /\ c \in Session!CallStates /\ c.up = <<>> /\ c.down = <<>>
    BY <1>2, CallsNow DEF Session!NotDialled
  <2>3. <<0>> \in Seq(Session!Hello..MaxReplies)
    BY DaemonNow DEF Session!Hello
  <2>4. /\ u \in Session!CallStates /\ u.down = <<>> /\ u.up = <<0>>
        /\ u.server # "attached"
    BY <2>2, <2>3 DEF Session!CallStates
  <2>5. /\ v \in Session!CallStates /\ v.down = <<>> /\ v.up = <<>>
        /\ v.server # "attached"
    BY <2>2 DEF Session!CallStates
  <2> HIDE DEF u, v
  <2> QED
    BY <2>1, <2>4, <2>5
<1>5. /\ Rising(d.up) /\ UpTo(d.up, daemon.sent) /\ Numbers(d.up) = {}
      /\ HelloFirst(d)
  <2>1. <<>> \in Queues /\ <<0>> \in Queues /\ DOMAIN <<0>> = {1}
    BY DEF Queues
  <2>2. /\ Rising(<<>>) /\ UpTo(<<>>, daemon.sent) /\ Numbers(<<>>) = {}
        /\ Rising(<<0>>) /\ UpTo(<<0>>, daemon.sent) /\ Numbers(<<0>>) = {}
    BY DaemonNow, NoFrames, OneFrame DEF Frame
  <2>3. HelloFirst(d)
    BY <1>4, <2>1, NoFrames DEF HelloFirst
  <2> QED
    BY <1>4, <2>2, <2>3
<1>6. /\ calls' \in [1..MaxCalls -> Session!CallStates]
      /\ calls'[k] = d /\ \A l \in 1..MaxCalls : l # k => calls'[l] = calls[l]
  BY <1>2, <1>4, CallsNow
<1>7. CallsInv(calls', k)
  <2>1. \A l \in 1..MaxCalls : l > k => calls'[l] = Session!NotDialled
    BY <1>2, <1>6, CallsNow
  <2>2. \A l \in 1..MaxCalls : HelloFirst(calls'[l])
    BY <1>5, <1>6 DEF SessionInv, CallsInv
  <2> QED
    BY <1>6, <2>1, <2>2 DEF CallsInv
<1>8. UpInv(calls', daemon.sent, gone)
  <2>1. UpInv(calls, daemon.sent, gone)
    BY DEF SessionInv
  <2> HIDE DEF gone
  <2>2. \A l \in 1..MaxCalls : /\ Rising(calls'[l].up)
                               /\ UpTo(calls'[l].up, daemon.sent)
                               /\ Numbers(calls'[l].up) \cap gone = {}
    BY <1>5, <1>6, <2>1 DEF UpInv
  <2>3. \A l, m \in 1..MaxCalls :
          l # m => Numbers(calls'[l].up) \cap Numbers(calls'[m].up) = {}
    BY <1>5, <1>6, <2>1 DEF UpInv
  <2> QED
    BY <2>2, <2>3 DEF UpInv
<1>9. /\ daemon' \in Session!DaemonStates
      /\ daemon'.call = k /\ daemon'.dials = k /\ ~daemon'.timer
      /\ daemon'.stopped = daemon.stopped /\ daemon'.sent = daemon.sent
      /\ daemon'.refused = daemon.refused /\ daemon'.handled = daemon.handled
  <2>1. k \in Session!Calls \cup {Session!NoCall} /\ k \in 0..MaxCalls
    BY <1>2 DEF Session!Calls
  <2> QED
    BY <1>1, <2>1, DaemonNow DEF Session!DaemonStates
<1>10. DaemonInv(daemon')
  BY <1>1, <1>2, <1>9, DaemonNow DEF DaemonInv
<1>11. LineInv(daemon.handled, mail["bot"], DownOf(calls', daemon'))
  <2>1. DownOf(calls', daemon') = <<>>
    BY <1>2, <1>4, <1>6, <1>9 DEF DownOf
  <2>2. LineInv(daemon.handled, mail["bot"], DownOf(calls, daemon))
    BY DEF SessionInv
  <2> QED
    BY <2>1, <2>2, CallsNow, LinePiece
<1> QED
  BY <1>1, <1>7, <1>8, <1>9, <1>10, <1>11 DEF SessionInv

LEMMA OnToNclKeeps ==
  ASSUME SessionInv, NEW k \in 1..MaxCalls, Session!OnToNcl(k)
  PROVE  SessionInv'
<1> DEFINE c == calls[k]
           q == Tail(c.down)
           h == Head(c.down)
           d == [c EXCEPT !.down = q]
           x == mail["bot"]
           gone == GoneOf(posting, posted, daemon.refused)
<1>1. /\ daemon.call = k /\ c.down # <<>>
      /\ calls' = [calls EXCEPT ![k] = d]
      /\ daemon' = IF h = 0 THEN [daemon EXCEPT !.attached = TRUE, !.backoff = 0]
                   ELSE [daemon EXCEPT !.handled = Append(daemon.handled, h)]
      /\ UNCHANGED <<mail, sessions, joined, posting, posted, faults>>
  BY CallsNow, DaemonNow DEF Session!OnToNcl, Session!broker, Session!Hello
<1>2. /\ c \in Session!CallStates /\ c.up \in Queues /\ c.down \in Queues
      /\ calls \in [1..MaxCalls -> Session!CallStates]
      /\ UpTo(c.down, MaxActivities) /\ MailInv(x)
  BY CallsNow, CallTypes
<1>3. k # 0 /\ DownOf(calls, daemon) = c.down
  BY <1>1 DEF DownOf
<1>4. LineInv(daemon.handled, x, c.down)
  BY <1>3 DEF SessionInv
<1>5. PieceOf(q, c.down, 1)
  BY <1>1, <1>2, TailPiece
<1>6. q \in Seq(Session!Hello..MaxActivities)
  <2>1. q \in Queues /\ UpTo(q, MaxActivities)
    BY <1>2, <1>5, Pieces, SessionAssumption DEF PieceOf
  <2> QED
    BY <2>1, RangedSeq, SessionAssumption DEF Session!Hello
<1>7. LineInv(daemon.handled, x, q)
  BY <1>2, <1>4, <1>5, LinePiece
<1>8. h # 0 => /\ LineInv(Append(daemon.handled, h), x, q)
               /\ h \in 1..MaxActivities
  BY <1>1, <1>2, <1>4, LineHandled DEF Frame
<1> HIDE DEF q, h
<1>9. d \in Session!CallStates /\ d.up = c.up /\ d.down = q
  BY <1>2, <1>6 DEF Session!CallStates
<1> HIDE DEF d
<1>10. /\ calls' \in [1..MaxCalls -> Session!CallStates]
       /\ calls'[k] = d /\ \A l \in 1..MaxCalls : l # k => calls'[l] = calls[l]
  BY <1>1, <1>2, <1>9
<1>11. /\ CallsInv(calls', daemon.dials) /\ UpInv(calls', daemon.sent, gone)
  <2>1. k <= daemon.dials
    BY <1>1, DaemonNow
  <2>2. \A l \in 1..MaxCalls : l > daemon.dials => calls'[l] = calls[l]
    BY <1>10, <2>1, DaemonNow
  <2>3. GoesOn(c, d)
    <3>1. PieceOf(d.up, c.up, 0)
      BY <1>2, <1>9, SamePiece
    <3>2. d.server = c.server
      BY <1>2, <1>9 DEF Session!CallStates, d
    <3> QED
      BY <1>9, <3>1, <3>2 DEF GoesOn
  <2>4. \A l \in 1..MaxCalls : GoesOn(calls[l], calls'[l])
    BY <1>10, <2>3, CallsNow, SamePiece DEF GoesOn
  <2>5. CallsInv(calls, daemon.dials) /\ UpInv(calls, daemon.sent, gone)
    BY DEF SessionInv
  <2>6. daemon.sent \in Nat /\ daemon.dials \in Nat
    BY DaemonNow
  <2> HIDE DEF gone
  <2> QED
    BY <1>10, <2>2, <2>4, <2>5, <2>6, GoOnKeeps
<1>12. /\ daemon' \in Session!DaemonStates
       /\ daemon'.call = k /\ daemon'.dials = daemon.dials
       /\ daemon'.timer = daemon.timer
       /\ daemon'.stopped = daemon.stopped /\ daemon'.sent = daemon.sent
       /\ daemon'.refused = daemon.refused
       /\ LineInv(daemon'.handled, x, q)
  <2>1. CASE h = 0
    <3>1. daemon' = [daemon EXCEPT !.attached = TRUE, !.backoff = 0]
      BY <1>1, <2>1
    <3>2. 0 \in 0..MaxBackoff
      BY DaemonNow
    <3>3. /\ daemon' \in Session!DaemonStates
          /\ daemon'.call = daemon.call /\ daemon'.dials = daemon.dials
          /\ daemon'.timer = daemon.timer
          /\ daemon'.stopped = daemon.stopped /\ daemon'.sent = daemon.sent
          /\ daemon'.refused = daemon.refused /\ daemon'.handled = daemon.handled
      BY <3>1, <3>2, DaemonNow DEF Session!DaemonStates
    <3> QED
      BY <1>1, <1>7, <3>3
  <2>2. CASE h # 0
    <3> DEFINE a == Append(daemon.handled, h)
    <3>1. daemon' = [daemon EXCEPT !.handled = a]
      BY <1>1, <2>2
    <3>2. a \in Seq(1..MaxActivities)
      <4>1. daemon.handled \in Seq(1..MaxActivities)
        BY DaemonNow, DaemonTypes
      <4> QED
        BY <1>8, <2>2, <4>1, AppendProperties
    <3>3. LineInv(a, x, q)
      BY <1>8, <2>2
    <3> HIDE DEF a
    <3>4. /\ daemon' \in Session!DaemonStates
          /\ daemon'.call = daemon.call /\ daemon'.dials = daemon.dials
          /\ daemon'.timer = daemon.timer
          /\ daemon'.stopped = daemon.stopped /\ daemon'.sent = daemon.sent
          /\ daemon'.refused = daemon.refused /\ daemon'.handled = a
      BY <3>1, <3>2, DaemonNow DEF Session!DaemonStates
    <3> QED
      BY <1>1, <3>3, <3>4
  <2> QED
    BY <2>1, <2>2
<1>13. DaemonInv(daemon')
  BY <1>1, <1>12, DaemonNow DEF DaemonInv
<1>14. DownOf(calls', daemon') = q
  BY <1>3, <1>9, <1>10, <1>12 DEF DownOf
<1> QED
  BY <1>1, <1>11, <1>12, <1>13, <1>14 DEF SessionInv

LEMMA CallOverKeeps ==
  ASSUME SessionInv, NEW k \in 1..MaxCalls, Session!CallOver(k)
  PROVE  SessionInv'
<1>1. /\ daemon.call = k
      /\ UNCHANGED <<mail, sessions, joined, calls, posting, posted, faults>>
  BY DEF Session!CallOver, Session!broker
<1>2. PICK b \in 0..MaxBackoff :
        daemon' = [daemon EXCEPT !.call = 0, !.attached = FALSE, !.timer = TRUE,
                                 !.backoff = b]
  <2>1. daemon.backoff \in 0..MaxBackoff
    BY DaemonNow, DaemonTypes
  <2> DEFINE b == IF daemon.backoff < MaxBackoff THEN daemon.backoff + 1
                  ELSE daemon.backoff
  <2>2. b \in 0..MaxBackoff
    BY <2>1, DaemonNow
  <2>3. daemon' = [daemon EXCEPT !.call = 0, !.attached = FALSE, !.timer = TRUE,
                                 !.backoff = b]
    BY DaemonNow DEF Session!CallOver, Session!NoCall, Session!DaemonStates
  <2> HIDE DEF b
  <2> QED
    BY <2>2, <2>3
<1>3. /\ daemon' \in Session!DaemonStates
      /\ daemon'.call = 0 /\ daemon'.dials = daemon.dials /\ daemon'.timer
      /\ daemon'.stopped = daemon.stopped /\ daemon'.sent = daemon.sent
      /\ daemon'.refused = daemon.refused /\ daemon'.handled = daemon.handled
  BY <1>2, DaemonNow DEF Session!DaemonStates, Session!NoCall
<1>4. DaemonInv(daemon')
  BY <1>1, <1>3, DaemonNow DEF DaemonInv
<1>5. LineInv(daemon.handled, mail["bot"], DownOf(calls, daemon'))
  <2>1. DownOf(calls, daemon') = <<>>
    BY <1>3 DEF DownOf
  <2>2. LineInv(daemon.handled, mail["bot"], DownOf(calls, daemon))
    BY DEF SessionInv
  <2> QED
    BY <2>1, <2>2, CallsNow, LinePiece
<1> QED
  BY <1>1, <1>3, <1>4, <1>5 DEF SessionInv

LEMMA StopKeeps ==
  ASSUME SessionInv, Session!Stop
  PROVE  SessionInv'
<1> DEFINE Ends(k) == k = daemon.call /\ calls[k].wire = "up"
           gone == GoneOf(posting, posted, daemon.refused)
<1>1. /\ daemon' = [daemon EXCEPT !.stopped = TRUE, !.timer = FALSE, !.call = 0,
                                  !.attached = FALSE]
      /\ calls' = [k \in 1..MaxCalls |->
                     IF Ends(k) THEN [calls[k] EXCEPT !.wire = "ended"]
                     ELSE calls[k]]
      /\ UNCHANGED <<mail, sessions, joined, posting, posted, faults>>
  BY DEF Session!Stop, Session!broker, Session!Calls, Session!NoCall
<1>2. ASSUME NEW k \in 1..MaxCalls
      PROVE  /\ calls'[k] \in Session!CallStates
             /\ GoesOn(calls[k], calls'[k])
             /\ k > daemon.dials => calls'[k] = calls[k]
  <2> DEFINE c == calls[k]
             d == [c EXCEPT !.wire = "ended"]
  <2>1. c \in Session!CallStates /\ c.up \in Queues
    BY CallsNow
  <2>2. CASE Ends(k)
    <3>1. calls'[k] = d
      BY <1>1, <2>2
    <3>2. d \in Session!CallStates /\ d.up = c.up /\ d.server = c.server
      BY <2>1 DEF Session!CallStates
    <3>3. ~(k > daemon.dials)
      BY <2>2, DaemonNow
    <3> HIDE DEF d
    <3>4. GoesOn(c, d)
      BY <2>1, <3>2, SamePiece DEF GoesOn
    <3> QED
      BY <3>1, <3>2, <3>3, <3>4
  <2>3. CASE ~Ends(k)
    <3>1. calls'[k] = c
      BY <1>1, <2>3
    <3> QED
      BY <2>1, <3>1, SamePiece DEF GoesOn
  <2> QED
    BY <2>2, <2>3
<1>3. calls' \in [1..MaxCalls -> Session!CallStates]
  BY <1>1, <1>2
<1>4. CallsInv(calls', daemon.dials) /\ UpInv(calls', daemon.sent, gone)
  <2>1. CallsInv(calls, daemon.dials) /\ UpInv(calls, daemon.sent, gone)
    BY DEF SessionInv
  <2>2. daemon.sent \in Nat /\ daemon.dials \in Nat
    BY DaemonNow
  <2> HIDE DEF gone
  <2> QED
    BY <1>2, <1>3, <2>1, <2>2, GoOnKeeps
<1>5. /\ daemon' \in Session!DaemonStates
      /\ daemon'.call = 0 /\ daemon'.dials = daemon.dials /\ ~daemon'.timer
      /\ daemon'.stopped /\ daemon'.sent = daemon.sent
      /\ daemon'.refused = daemon.refused /\ daemon'.handled = daemon.handled
  BY <1>1, DaemonNow DEF Session!DaemonStates, Session!NoCall
<1>6. DaemonInv(daemon')
  BY <1>5, DaemonNow DEF DaemonInv
<1>7. LineInv(daemon.handled, mail["bot"], DownOf(calls', daemon'))
  <2>1. DownOf(calls', daemon') = <<>>
    BY <1>5 DEF DownOf
  <2>2. LineInv(daemon.handled, mail["bot"], DownOf(calls, daemon))
    BY DEF SessionInv
  <2> QED
    BY <2>1, <2>2, CallsNow, LinePiece
<1> QED
  BY <1>1, <1>4, <1>5, <1>6, <1>7 DEF SessionInv

(* A reply that the sender is done with is new to every queue.             *)
LEMMA SentIsNew ==
  ASSUME NEW sent \in Nat, NEW running, NEW p, NEW refused,
         ReplyInv(sent, running, p, refused), NEW cs, NEW gone,
         gone = GoneOf(running, p, refused), UpInv(cs, sent, gone),
         \A k \in 1..MaxCalls : cs[k].up \in Queues
  PROVE  LET n == sent + 1 IN
         /\ n \notin gone
         /\ \A k \in 1..MaxCalls : n \notin Numbers(cs[k].up)
         /\ \A k \in 1..MaxCalls : UpTo(cs[k].up, n)
         /\ ReplyInv(n, running, p, refused)
         /\ ReplyInv(n, running, p, refused \cup {n})
<1> DEFINE n == sent + 1
<1>1. gone \subseteq 1..sent /\ n \notin 1..sent /\ n \in 1..n /\ 1..sent \subseteq 1..n
  BY DEF ReplyInv, GoneOf
<1>2. n \notin gone /\ n \notin running /\ n \notin LandedOf(p)
  BY <1>1 DEF GoneOf
<1>3. \A k \in 1..MaxCalls : \A i \in DOMAIN cs[k].up :
        cs[k].up[i] \in Nat /\ cs[k].up[i] <= sent
  BY ElementOfSeq, LenProperties DEF UpInv, UpTo, Queues
<1>4. \A k \in 1..MaxCalls : n \notin Numbers(cs[k].up) /\ UpTo(cs[k].up, n)
  BY <1>3 DEF Numbers, UpTo
<1> HIDE DEF n
<1>5. ReplyInv(n, running, p, refused) /\ ReplyInv(n, running, p, refused \cup {n})
  BY <1>1, <1>2 DEF ReplyInv
<1> QED
  BY <1>2, <1>4, <1>5 DEF n

(* A reply goes to the call there is, whole or not, or is refused.         *)
LEMMA SendReplyKeeps ==
  ASSUME SessionInv, Session!SendReply
  PROVE  SessionInv'
<1> DEFINE n == daemon.sent + 1
           k == daemon.call
           gone == GoneOf(posting, posted, daemon.refused)
           x == mail["bot"]
<1>1. /\ daemon.sent < MaxReplies
      /\ UNCHANGED <<mail, sessions, joined, posting, posted, faults>>
  BY DEF Session!SendReply, Session!broker
<1>2. /\ UpInv(calls, daemon.sent, gone) /\ CallsInv(calls, daemon.dials)
      /\ ReplyInv(daemon.sent, posting, posted, daemon.refused)
      /\ LineInv(daemon.handled, x, DownOf(calls, daemon))
  BY DEF SessionInv
<1>3. /\ n \notin gone
      /\ \A l \in 1..MaxCalls : n \notin Numbers(calls[l].up)
      /\ \A l \in 1..MaxCalls : UpTo(calls[l].up, n)
      /\ ReplyInv(n, posting, posted, daemon.refused)
      /\ ReplyInv(n, posting, posted, daemon.refused \cup {n})
  BY <1>2, CallsNow, DaemonNow, SentIsNew
<1>4. /\ n \in 1..MaxReplies /\ n \in Nat /\ n # Frame /\ daemon.sent \in Nat
      /\ daemon.sent < n /\ n \in 0..MaxReplies
  BY <1>1, DaemonNow DEF Frame
<1>5. UpInv(calls, n, gone) /\ UpInv(calls, n, gone \cup {n})
  BY <1>2, <1>3 DEF UpInv
<1>6. \/ /\ k # 0 /\ daemon' = [daemon EXCEPT !.sent = n]
         /\ calls' = IF calls[k].wire = "up"
                     THEN [calls EXCEPT ![k].up = Append(calls[k].up, n)]
                     ELSE calls
      \/ /\ k = 0 /\ calls' = calls
         /\ daemon' = [daemon EXCEPT !.sent = n,
                                     !.refused = daemon.refused \cup {n}]
  BY CallsNow, DaemonNow DEF Session!SendReply, Session!NoCall, Session!DaemonStates
<1>7. n = daemon.sent + 1
  OBVIOUS
<1> HIDE DEF n
<1>8. CASE /\ k = 0 /\ calls' = calls
           /\ daemon' = [daemon EXCEPT !.sent = n,
                                       !.refused = daemon.refused \cup {n}]
  <2> DEFINE more == daemon.refused \cup {n}
  <2>1. more \subseteq 1..MaxReplies
    BY <1>4, DaemonNow
  <2>2. GoneOf(posting, posted, more) = gone \cup {n}
    BY DEF GoneOf
  <2>3. daemon' = [daemon EXCEPT !.sent = n, !.refused = more]
    BY <1>8
  <2>4. ReplyInv(n, posting, posted, more)
    BY <1>3
  <2> HIDE DEF more
  <2>5. /\ daemon' \in Session!DaemonStates
        /\ daemon'.call = daemon.call /\ daemon'.dials = daemon.dials
        /\ daemon'.timer = daemon.timer
        /\ daemon'.stopped = daemon.stopped /\ daemon'.sent = n
        /\ daemon'.refused = more /\ daemon'.handled = daemon.handled
    BY <1>4, <2>1, <2>3, DaemonNow DEF Session!DaemonStates
  <2>6. DaemonInv(daemon')
    BY <2>5, DaemonNow DEF DaemonInv
  <2>7. DownOf(calls, daemon') = DownOf(calls, daemon)
    BY <2>5 DEF DownOf
  <2>8. UpInv(calls, n, GoneOf(posting, posted, more))
    BY <1>5, <2>2
  <2> QED
    BY <1>1, <1>2, <1>8, <2>4, <2>5, <2>6, <2>7, <2>8 DEF SessionInv
<1>9. CASE /\ k # 0 /\ daemon' = [daemon EXCEPT !.sent = n]
           /\ calls' = IF calls[k].wire = "up"
                       THEN [calls EXCEPT ![k].up = Append(calls[k].up, n)]
                       ELSE calls
  <2>1. /\ daemon' \in Session!DaemonStates
        /\ daemon'.call = daemon.call /\ daemon'.dials = daemon.dials
        /\ daemon'.timer = daemon.timer
        /\ daemon'.stopped = daemon.stopped /\ daemon'.sent = n
        /\ daemon'.refused = daemon.refused /\ daemon'.handled = daemon.handled
    BY <1>4, <1>9, DaemonNow DEF Session!DaemonStates
  <2>2. DaemonInv(daemon')
    BY <2>1, DaemonNow DEF DaemonInv
  <2>3. k \in 1..MaxCalls /\ k <= daemon.dials
    BY <1>9, DaemonNow
  <2>4. CASE calls[k].wire = "up"
    <3> DEFINE c == calls[k]
               q == c.up \o <<n>>
               d == [c EXCEPT !.up = q]
    <3>1. /\ c \in Session!CallStates /\ c.up \in Queues
          /\ Rising(c.up) /\ UpTo(c.up, daemon.sent) /\ UpTo(c.up, n)
          /\ HelloFirst(c) /\ c # Session!NotDialled
      BY <1>2, <1>3, <2>3, <2>4, CallsNow
      DEF UpInv, CallsInv, Session!NotDialled
    <3>2. /\ <<n>> \in Queues /\ Rising(<<n>>) /\ Numbers(<<n>>) = {n}
          /\ UpTo(<<n>>, n) /\ Before(c.up, <<n>>)
      <4>1. Numbers(<<n>>) = {n}
        BY <1>4, OneFrame
      <4> QED
        BY <1>4, <3>1, <4>1, OneFrame
    <3>3. /\ q \in Queues /\ Rising(q) /\ UpTo(q, n)
          /\ Numbers(q) = Numbers(c.up) \cup {n}
      BY <1>4, <3>1, <3>2, InARow
    <3>4. q \in Seq(Session!Hello..MaxReplies)
      <4>1. UpTo(q, MaxReplies)
        <5>1. \A i \in DOMAIN q : q[i] \in Nat
          BY <3>3, ElementOfSeq, LenProperties DEF Queues
        <5>2. n <= MaxReplies /\ MaxReplies \in Nat
          BY <1>4, DaemonNow
        <5>3. UpTo(q, n)
          BY <3>3
        <5> HIDE DEF q
        <5> QED
          BY <1>4, <5>1, <5>2, <5>3 DEF UpTo
      <4> QED
        BY <3>3, <4>1, RangedSeq, SessionAssumption DEF Session!Hello
    <3>5. calls' = [calls EXCEPT ![k] = d]
      BY <1>4, <1>9, <2>4, <3>1, AppendInARow
    <3>6. \A i \in DOMAIN q : q[i] = Frame => i \in DOMAIN c.up /\ c.up[i] = Frame
      <4>1. /\ DOMAIN q = 1..(Len(c.up) + 1) /\ DOMAIN c.up = 1..Len(c.up)
            /\ Len(c.up) \in Nat
            /\ \A i \in 1..(Len(c.up) + 1) :
                 q[i] = IF i <= Len(c.up) THEN c.up[i] ELSE <<n>>[i - Len(c.up)]
        <5>1. Len(<<n>>) = 1
          OBVIOUS
        <5>2. /\ Len(q) = Len(c.up) + 1
              /\ \A i \in 1..(Len(c.up) + 1) :
                   q[i] = IF i <= Len(c.up) THEN c.up[i] ELSE <<n>>[i - Len(c.up)]
          BY <3>1, <3>2, <5>1, ConcatProperties DEF Queues
        <5> QED
          BY <3>1, <3>3, <5>2, LenProperties DEF Queues
      <4>2. q[Len(c.up) + 1] = n
        BY <4>1
      <4> QED
        BY <1>4, <4>1, <4>2
    <3> HIDE DEF q
    <3>7. /\ d \in Session!CallStates /\ d.up = q /\ d.down = c.down
          /\ d.server = c.server
      BY <3>1, <3>4 DEF Session!CallStates
    <3> HIDE DEF d
    <3>8. HelloFirst(d)
      BY <3>1, <3>6, <3>7 DEF HelloFirst
    <3>9. /\ calls' \in [1..MaxCalls -> Session!CallStates]
          /\ calls'[k] = d
          /\ \A l \in 1..MaxCalls : l # k => calls'[l] = calls[l]
      BY <2>3, <3>5, <3>7, CallsNow
    <3>10. CallsInv(calls', daemon.dials)
      <4>1. \A l \in 1..MaxCalls : l > daemon.dials => calls'[l] = Session!NotDialled
        BY <2>3, <3>9, CallsNow, DaemonNow
      <4>2. \A l \in 1..MaxCalls : HelloFirst(calls'[l])
        BY <1>2, <3>8, <3>9 DEF CallsInv
      <4> QED
        BY <3>9, <4>1, <4>2 DEF CallsInv
    <3>11. UpInv(calls', n, gone)
      <4> HIDE DEF gone, c
      <4>0. Numbers(c.up) \cap gone = {} /\ calls[k].up = c.up
        BY <1>2, <2>3 DEF UpInv, c
      <4>1. \A l \in 1..MaxCalls : /\ Rising(calls'[l].up) /\ UpTo(calls'[l].up, n)
                                   /\ Numbers(calls'[l].up) \cap gone = {}
        <5>1. ASSUME NEW l \in 1..MaxCalls, l # k
              PROVE  /\ Rising(calls'[l].up) /\ UpTo(calls'[l].up, n)
                     /\ Numbers(calls'[l].up) \cap gone = {}
          BY <1>5, <3>9, <5>1 DEF UpInv
        <5>2. Numbers(q) \cap gone = {}
          BY <1>3, <3>3, <4>0
        <5> QED
          BY <3>3, <3>7, <3>9, <5>1, <5>2
      <4>2. ASSUME NEW l \in 1..MaxCalls, l # k
            PROVE  Numbers(calls'[l].up) \cap Numbers(q) = {}
        <5>1. Numbers(calls[l].up) \cap Numbers(c.up) = {}
          BY <1>2, <2>3, <4>0, <4>2 DEF UpInv
        <5>2. n \notin Numbers(calls[l].up) /\ calls'[l] = calls[l]
          BY <1>3, <3>9, <4>2
        <5> QED
          BY <3>3, <5>1, <5>2
      <4>3. \A l, m \in 1..MaxCalls :
              l # m => Numbers(calls'[l].up) \cap Numbers(calls'[m].up) = {}
        <5> SUFFICES ASSUME NEW l \in 1..MaxCalls, NEW m \in 1..MaxCalls, l # m
                     PROVE  Numbers(calls'[l].up) \cap Numbers(calls'[m].up) = {}
          OBVIOUS
        <5>1. CASE l = k
          BY <3>7, <3>9, <4>2, <5>1
        <5>2. CASE m = k
          BY <3>7, <3>9, <4>2, <5>2
        <5>3. CASE l # k /\ m # k
          BY <1>2, <3>9, <5>3 DEF UpInv
        <5> QED
          BY <5>1, <5>2, <5>3
      <4> QED
        BY <4>1, <4>3 DEF UpInv
    <3>12. DownOf(calls', daemon') = DownOf(calls, daemon)
      BY <1>9, <2>1, <3>7, <3>9 DEF DownOf
    <3> QED
      BY <1>1, <1>2, <1>3, <2>1, <2>2, <3>10, <3>11, <3>12 DEF SessionInv
  <2>5. CASE calls[k].wire # "up"
    <3>1. calls' = calls
      BY <1>9, <2>5
    <3>2. DownOf(calls, daemon') = DownOf(calls, daemon)
      BY <2>1 DEF DownOf
    <3> QED
      BY <1>1, <1>2, <1>3, <1>5, <2>1, <2>2, <3>1, <3>2 DEF SessionInv
  <2> QED
    BY <2>4, <2>5
<1> QED
  BY <1>6, <1>8, <1>9

-----------------------------------------------------------------------------
(* At the start nothing has been dialled.                                  *)
LEMMA SessionStarts ==
  ASSUME Session!Init
  PROVE  SessionInv
<1> DEFINE x == mail["bot"]
<1>1. /\ mail = [b \in {"bot"} |-> Session!Broker!EmptyBox]
      /\ sessions = [s \in 1..MaxCalls |-> {}] /\ joined = 0
      /\ calls = [k \in 1..MaxCalls |-> Session!NotDialled]
      /\ posting = {} /\ posted = <<>> /\ faults = 0
      /\ daemon = [call |-> 0, timer |-> TRUE, stopped |-> FALSE,
                   attached |-> FALSE, backoff |-> 0, dials |-> 0, sent |-> 0,
                   refused |-> {}, handled |-> <<>>]
  BY DEF Session!Init, Session!Broker!Init, Session!Broker!Streams, Session!Bot,
     Session!Calls, Session!NoCall
<1>2. /\ x \in DaemonBoxes /\ x.stream = 0 /\ x.buffer = <<>>
      /\ x.arrived = 0 /\ x.expired = 0
      /\ mail \in [{"bot"} -> DaemonBoxes]
  <2>1. x = Session!Broker!EmptyBox /\ <<>> \in Seq(Nat)
    BY <1>1
  <2>2. /\ x \in DaemonBoxes /\ x.stream = 0 /\ x.buffer = <<>>
        /\ x.arrived = 0 /\ x.expired = 0
    BY <2>1 DEF DaemonBoxes, Session!Broker!Boxes, Session!Broker!EmptyBox,
       Session!Broker!NoStream
  <2> QED
    BY <1>1, <2>1, <2>2
<1>3. MailInv(x)
  BY <1>2, NoFrames, SessionAssumption DEF MailInv
<1>4. DaemonInv(daemon)
  <2>1. <<>> \in Seq(1..MaxActivities)
    OBVIOUS
  <2>2. daemon \in Session!DaemonStates
    BY <1>1, <2>1, SessionAssumption DEF Session!DaemonStates, Session!NoCall
  <2> QED
    BY <1>1, <2>2 DEF DaemonInv
<1>5. Session!NotDialled \in Session!CallStates
  <2>1. /\ <<>> \in Seq(Session!Hello..MaxReplies)
        /\ <<>> \in Seq(Session!Hello..MaxActivities) /\ 0 \in 0..MaxCalls
    BY SessionAssumption
  <2> QED
    BY <2>1 DEF Session!CallStates, Session!NotDialled
<1>6. CallsInv(calls, daemon.dials)
  BY <1>1, <1>5, NoFrames DEF CallsInv, HelloFirst, Session!NotDialled
<1>7. UpInv(calls, daemon.sent, GoneOf(posting, posted, daemon.refused))
  <2>1. \A k \in 1..MaxCalls : calls[k].up = <<>>
    BY <1>1 DEF Session!NotDialled
  <2> QED
    BY <1>1, <2>1, NoFrames DEF UpInv
<1>8. ReplyInv(daemon.sent, posting, posted, daemon.refused)
  <2>1. LandedOf(<<>>) = {}
    BY DEF LandedOf
  <2>2. IsFiniteSet(LandedOf(<<>>)) /\ Cardinality(LandedOf(<<>>)) = 0
    BY <2>1, FS_EmptySet
  <2> QED
    BY <1>1, <2>1, <2>2 DEF ReplyInv
<1>9. LineInv(daemon.handled, x, DownOf(calls, daemon))
  BY <1>1, <1>2, NoFrames DEF LineInv, DownOf, Passed
<1> QED
  BY <1>1, <1>2, <1>3, <1>4, <1>6, <1>7, <1>8, <1>9, SessionAssumption DEF SessionInv

(* Every step keeps the line, and every reply in its one place.            *)
LEMMA SessionSteps ==
  ASSUME SessionInv, [Session!Next]_Session!vars
  PROVE  SessionInv'
<1>1. CASE Session!Relay
  <2>1. CASE Session!EnqueueInbound
    BY <2>1, EnqueueInboundKeeps
  <2>2. CASE Session!Age
    BY <2>2, AgeKeeps
  <2>3. ASSUME NEW k \in 1..MaxCalls,
               \/ Session!Validated(k) \/ Session!ReadHello(k)
               \/ Session!ReadReply(k) \/ Session!CloseStream(k)
        PROVE  SessionInv'
    BY <2>3, ValidatedKeeps, ReadHelloKeeps, ReadReplyKeeps, CloseStreamKeeps
  <2>4. ASSUME NEW n \in posting, Session!DeliverOutbound(n)
        PROVE  SessionInv'
    BY <2>4, DeliverOutboundKeeps
  <2> QED
    BY <1>1, <2>1, <2>2, <2>3, <2>4 DEF Session!Relay, Session!Calls
<1>2. CASE Session!Daemon
  <2>1. CASE Session!Connect \/ Session!Stop \/ Session!SendReply
    BY <2>1, ConnectKeeps, StopKeeps, SendReplyKeeps
  <2>2. ASSUME NEW k \in 1..MaxCalls, Session!OnToNcl(k) \/ Session!CallOver(k)
        PROVE  SessionInv'
    BY <2>2, OnToNclKeeps, CallOverKeeps
  <2> QED
    BY <1>2, <2>1, <2>2 DEF Session!Daemon, Session!Calls
<1>3. CASE Session!Break
  BY <1>3, BreakKeeps
<1>4. CASE Session!RestartRelay
  BY <1>4, RestartRelayKeeps
<1>5. CASE UNCHANGED Session!vars
  BY <1>5 DEF Session!vars, SessionInv
<1> QED
  BY <1>1, <1>2, <1>3, <1>4, <1>5 DEF Session!Next

(* RelaySession counts with an instance of the same definition.            *)
LEMMA SameCount ==
  ASSUME NEW S
  PROVE  Session!Cardinality(S) = Cardinality(S)
BY DEF Session!Cardinality, Cardinality

(* The invariant is about what the property says.                          *)
LEMMA SessionTells ==
  ASSUME SessionInv
  PROVE  InOrderOnce
<1>1. Session!OneCall
  <2>1. /\ daemon.timer \in BOOLEAN /\ daemon.stopped \in BOOLEAN
        /\ daemon.timer <=> daemon.call = 0 /\ ~daemon.stopped
        /\ daemon.stopped => daemon.call = 0
    BY DaemonNow
  <2>2. CASE daemon.call # 0
    <3>1. daemon.timer = FALSE /\ daemon.stopped = FALSE
      BY <2>1, <2>2
    <3> QED
      BY <2>2, <3>1 DEF Session!OneCall, Session!NoCall
  <2>3. CASE daemon.call = 0 /\ daemon.stopped
    <3>1. daemon.timer = FALSE /\ daemon.stopped = TRUE
      BY <2>1, <2>3
    <3> QED
      BY <2>3, <3>1 DEF Session!OneCall, Session!NoCall
  <2>4. CASE daemon.call = 0 /\ ~daemon.stopped
    <3>1. daemon.timer = TRUE /\ daemon.stopped = FALSE
      BY <2>1, <2>4
    <3> QED
      BY <2>4, <3>1 DEF Session!OneCall, Session!NoCall
  <2> QED
    BY <2>2, <2>3, <2>4
<1>2. Session!Increasing(daemon.handled)
  BY DEF SessionInv, LineInv, Rising, NumbersOnly, Session!Increasing
<1>3. Session!Landed = LandedOf(posted)
  BY DEF Session!Landed, LandedOf
<1>4. Cardinality(Session!Landed) = Len(posted) /\ Session!Landed \cap daemon.refused = {}
  BY <1>3 DEF SessionInv, ReplyInv
<1> QED
  BY <1>1, <1>2, <1>4, SameCount DEF InOrderOnce, Session!InOrderOnce

(* However calls break, end and follow each other, and whether or not the  *)
(* relay starts anew: the daemon has one call or waits for the next, is    *)
(* given each activity once at most and in order, and no reply is posted   *)
(* twice, or posted after its sender was told that it failed.              *)
(* src/channels/teams-relay-client.ts, relay/src/broker.ts                 *)
THEOREM SessionInOrder == Session!Spec => []InOrderOnce
<1>1. Session!Init => SessionInv
  BY SessionStarts
<1>2. SessionInv /\ [Session!Next]_Session!vars => SessionInv'
  BY SessionSteps
<1>3. SessionInv => InOrderOnce
  BY SessionTells
<1> QED
  BY <1>1, <1>2, <1>3, PTL DEF Session!Spec

(* So it is of every behaviour of the relay: the broker's own steps do not *)
(* touch what the session is made of.                                      *)
THEOREM RelayInOrder == RelaySpec => []InOrderOnce
<1>1. RelayInit => SessionInv
  BY SessionStarts DEF RelayInit
<1>2. SessionInv /\ [RelayNext]_allVars => SessionInv'
  <2> SUFFICES ASSUME SessionInv, [RelayNext]_allVars PROVE SessionInv'
    OBVIOUS
  <2>1. CASE UNCHANGED sessionVars
    <3>1. UNCHANGED Session!vars
      BY <2>1 DEF sessionVars, Session!vars
    <3> QED
      BY <3>1, SessionSteps
  <2>2. CASE Session!Next
    BY <2>2, SessionSteps
  <2> QED
    BY <2>1, <2>2 DEF RelayNext, OfSession, allVars
<1>3. SessionInv => InOrderOnce
  BY SessionTells
<1> QED
  BY <1>1, <1>2, <1>3, PTL DEF RelaySpec
=============================================================================
