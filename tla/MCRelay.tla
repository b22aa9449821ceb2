------------------------------- MODULE MCRelay -------------------------------
(***************************************************************************)
(* The instance of RelayBroker and RelaySession for model checking: the    *)
(* broker by itself, with two bots and streams that take bots over from    *)
(* each other, and the broker behind the calls of one daemon.  They share  *)
(* no variable, and a behaviour is of one of the two.                      *)
(***************************************************************************)
EXTENDS RelayBroker

CONSTANTS
  MaxSessionPerBot, MaxActivities, MaxReplies, MaxCalls, MaxFaults, MaxBackoff

ASSUME SessionAssumption ==
  /\ MaxSessionPerBot \in Nat \ {0}
  /\ MaxActivities \in Nat /\ MaxReplies \in Nat /\ MaxCalls \in Nat
  /\ MaxFaults \in Nat /\ MaxBackoff \in Nat

VARIABLES
  works,     \* the instance of this behaviour
  mail, sessions, joined, calls, posting, posted, daemon, faults

sessionVars == <<mail, sessions, joined, calls, posting, posted, daemon, faults>>
allVars == <<works, vars, sessionVars>>

Session == INSTANCE RelaySession
             WITH box <- mail, serves <- sessions, attached <- joined,
                  MaxPerBot <- MaxSessionPerBot, MaxArrivals <- MaxActivities

RelayInit == works \in {"broker", "session"} /\ Init /\ Session!Init

OfSession(A) == works = "session" /\ A /\ UNCHANGED <<works, vars>>

RelayNext ==
  \/ works = "broker" /\ Next /\ UNCHANGED <<works, sessionVars>>
  \/ OfSession(Session!Next)

\* The fairness is that of Session!FairSpec.
RelaySpec ==
  /\ RelayInit /\ [][RelayNext]_allVars
  /\ WF_sessionVars(OfSession(Session!Connect))
  /\ \A k \in 1..MaxCalls :
       /\ WF_sessionVars(OfSession(Session!Validated(k)))
       /\ WF_sessionVars(OfSession(Session!ReadHello(k)))
       /\ WF_sessionVars(OfSession(Session!ReadReply(k)))
       /\ WF_sessionVars(OfSession(Session!CloseStream(k)))
       /\ WF_sessionVars(OfSession(Session!OnToNcl(k)))
       /\ WF_sessionVars(OfSession(Session!CallOver(k)))

(* The daemon has one call at a time, and gets activities once, in order.  *)
InOrderOnce == Session!InOrderOnce

(* The two sides of the relay settle.                                      *)
Settles == works = "session" => Session!Settles
=============================================================================
