------------------------------- MODULE Mailbox -------------------------------
(***************************************************************************)
(* What the relay promises of the activities of each bot: every one that   *)
(* is accepted is handed on at most once, in order of arrival, or is       *)
(* dropped, the oldest first, and then counted in a notice to whoever      *)
(* attaches next.  The activities of a bot are numbered as they arrive.    *)
(***************************************************************************)
EXTENDS Integers, Sequences

CONSTANTS
  Owners,
  Capacity

VARIABLE mail

(* arrived: how many activities were accepted; waiting: those that wait,   *)
(* oldest first; out: those handed on; missed: drops since the last        *)
(* notice; told: drops announced.                                          *)
Empty ==
  [arrived |-> 0, waiting |-> << >>, out |-> << >>, missed |-> 0, told |-> 0]

Init == mail = [o \in Owners |-> Empty]

Rest(x, k) == SubSeq(x.waiting, k + 1, Len(x.waiting))

(* An activity goes straight through, ...                                  *)
Passed(x) ==
  [x EXCEPT !.arrived = @ + 1, !.out = Append(@, x.arrived + 1)]

(* ... or waits, the k oldest being pushed out.                            *)
Kept(x, k) ==
  [x EXCEPT !.arrived = @ + 1,
            !.waiting = Append(Rest(x, k), x.arrived + 1),
            !.missed = @ + k]

(* The k oldest are dropped.                                               *)
Dropped(x, k) == [x EXCEPT !.waiting = Rest(x, k), !.missed = @ + k]

(* Somebody attaches: the k oldest are dropped, the others handed on, and  *)
(* all drops announced.                                                    *)
Served(x, k) ==
  [x EXCEPT !.out = @ \o Rest(x, k),
            !.waiting = << >>,
            !.told = @ + x.missed + k,
            !.missed = 0]

Evolves(x, y) ==
  \/ x.waiting = << >> /\ y = Passed(x)
  \/ \E k \in 0..Len(x.waiting) :
       \/ Len(x.waiting) - k < Capacity /\ y = Kept(x, k)
       \/ y = Dropped(x, k)
       \/ y = Served(x, k)

Next == \A o \in Owners : mail'[o] = mail[o] \/ Evolves(mail[o], mail'[o])

Spec == Init /\ [][Next]_mail
=============================================================================
