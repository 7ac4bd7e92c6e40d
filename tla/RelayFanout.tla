---------------------------- MODULE RelayFanout ----------------------------
(***************************************************************************)
(* logi-wheel-core relay.rs: several programs read one telemetry port.     *)
(* The first to bind it is the hub and forwards each datagram to a few     *)
(* fixed ports; the others follow on those, and one takes the base port    *)
(* over when the hub goes away.  A datagram waits in the socket it was     *)
(* sent to and is lost with it, with a full queue, or with no socket.      *)
(***************************************************************************)
EXTENDS Naturals, Sequences, FiniteSets

CONSTANTS Listeners,    \* programs that may open a RelayListener
          FanoutPorts,  \* FANOUT_PORTS
          Ids,          \* labels of datagrams, reused once a datagram is gone
          Queue,        \* bound of a socket's receive queue
          MaxChurn      \* bound of the model: opens and deaths

\* Asserted where the module is used.
PortAssumption == FanoutPorts \in Nat

Base   == 0
Ports  == Base..FanoutPorts
Closed == FanoutPorts + 1

VARIABLES
  port,     \* the port each listener has bound
  role,     \* its Role
  recvq,    \* the receive queue of each bound port
  seen,     \* history: datagrams each listener was handed, by label
  twice,    \* history: some datagram was handed to a listener twice
  hungry,   \* listeners that were handed nothing since the last datagram
  churn

vars == <<port, role, recvq, seen, twice, hungry, churn>>

Init ==
  /\ port = [l \in Listeners |-> Closed]
  /\ role = [l \in Listeners |-> "none"]
  /\ recvq = [p \in Ports |-> <<>>]
  /\ seen = [l \in Listeners |-> {}] /\ twice = FALSE
  /\ hungry = {} /\ churn = 0

Bound(p) == \E l \in Listeners : port[l] = p
Alive    == {l \in Listeners : port[l] # Closed}
Free     == {p \in Ports : ~Bound(p)}

\* A datagram that reaches a socket with room waits there.
Sent(q, p, d) ==
  IF Bound(p) /\ Len(q[p]) < Queue THEN [q EXCEPT ![p] = Append(@, d)] ELSE q

InFlight(d) == \E p \in Ports : \E i \in 1..Len(recvq[p]) : recvq[p][i] = d

\* external: logi-tf-relay or logi-tf-scs sends a sample to the base port.
Produce ==
  /\ \E d \in Ids :
       /\ ~InFlight(d)
       /\ recvq' = Sent(recvq, Base, d)
       /\ seen' = [l \in Listeners |-> seen[l] \ {d}]
  /\ hungry' = hungry \cup Alive
  /\ UNCHANGED <<port, role, twice, churn>>

\* RelayListener::open takes the first port of the list that is free.
Open(l) ==
  /\ l \notin Alive /\ churn < MaxChurn /\ churn' = churn + 1
  /\ \/ Free = {} /\ UNCHANGED <<port, role>>
     \/ \E p \in Free :
          /\ \A other \in Free : p <= other
          /\ port' = [port EXCEPT ![l] = p]
          /\ role' = [role EXCEPT ![l] = IF p = Base THEN "hub" ELSE "follower"]
  /\ UNCHANGED <<recvq, seen, twice, hungry>>

\* Mutant of RolesForwarding: whoever hears a sample passes it on.
AnyRoleForwards == {"hub", "follower"}

RolesForwarding == {"hub"}

Forwards(l) == role[l] \in RolesForwarding

\* drain: hand a datagram over, a hub forwarding it to every other port first.
Fanned(q, d) ==
  [p \in Ports |-> IF p = Base THEN q[p] ELSE Sent(q, p, d)[p]]

Drain(l) ==
  /\ l \in Alive /\ recvq[port[l]] # <<>>
  /\ LET d == Head(recvq[port[l]])
         q == [recvq EXCEPT ![port[l]] = Tail(@)]
     IN /\ recvq' = IF Forwards(l) THEN Fanned(q, d) ELSE q
        /\ twice' = (twice \/ d \in seen[l])
        /\ seen' = [seen EXCEPT ![l] = @ \cup {d}]
  /\ hungry' = hungry \ {l}
  /\ UNCHANGED <<port, role, churn>>

PromotedKeepingPort(l) == [port EXCEPT ![l] = @]

PromotedPort(l) == [port EXCEPT ![l] = Base]

\* poll_promotion: a follower that can bind the base port drops its own.
Promote(l) ==
  /\ role[l] = "follower" /\ Base \in Free
  /\ port' = PromotedPort(l)
  /\ role' = [role EXCEPT ![l] = "hub"]
  /\ recvq' = [recvq EXCEPT ![port[l]] = <<>>]
  /\ UNCHANGED <<seen, twice, hungry, churn>>

\* The program ends and its socket goes with it.
Die(l) ==
  /\ l \in Alive /\ churn < MaxChurn /\ churn' = churn + 1
  /\ port' = [port EXCEPT ![l] = Closed] /\ role' = [role EXCEPT ![l] = "none"]
  /\ recvq' = [recvq EXCEPT ![port[l]] = <<>>]
  /\ hungry' = hungry \ {l}
  /\ UNCHANGED <<seen, twice>>

Next ==
  \/ Produce
  \/ \E l \in Listeners : Open(l) \/ Drain(l) \/ Promote(l) \/ Die(l)

Spec == Init /\ [][Next]_vars

-----------------------------------------------------------------------------
(***************************************************************************)
(* Properties.                                                             *)
(***************************************************************************)
TypeOK ==
  /\ port \in [Listeners -> Ports \cup {Closed}]
  /\ role \in [Listeners -> {"none", "hub", "follower"}]
  /\ hungry \subseteq Alive

(***************************************************************************)
(* No sample reaches a program twice: not through a hub that also follows, *)
(* not by circulating between programs, and not around a takeover.         *)
(***************************************************************************)
NoSampleTwice == ~twice

(***************************************************************************)
(* A follower is never left deaf: whoever is listening when samples flow   *)
(* is handed one again, through every takeover of the base port.           *)
(***************************************************************************)
Deaf(l) == l \in hungry

EveryListenerFed == \A l \in Listeners : Deaf(l) ~> ~Deaf(l)
=============================================================================
