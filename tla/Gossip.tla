------------------------------- MODULE Gossip -------------------------------
(***************************************************************************)
(* Who knows whom in a cluster of Karmazyn nodes                           *)
(* (archiwum/karmazyn_cluster.py).  A node keeps a record of every node it *)
(* has heard of and when it last did; once an interval its tick thread     *)
(* sends a heartbeat to the first RING_K nodes, by id, whose records are   *)
(* not stale; a node gets to know others by join, by their joins and by    *)
(* their heartbeats.  Records are never removed.                           *)
(*                                                                         *)
(* Time goes by intervals (GOSSIP_INTERVAL): in each, every running node   *)
(* does one tick.  A heartbeat writes one record of its receiver, which no *)
(* one else writes, and waits for the answer: those of one tick are taken  *)
(* together, each handled, refused or lost.  NodeInfo.alive is left out:   *)
(* it is only displayed.  Atoms, and the sync of atoms after a join, are   *)
(* left out too.                                                           *)
(***************************************************************************)
EXTENDS Integers, FiniteSets

CONSTANTS
  N,        \* nodes; ids are in their order
  RING_K,   \* heartbeats a tick sends
  Timeout,  \* NODE_TIMEOUT_SEC in intervals
  MaxFaults \* bound: crashes and lost messages

ASSUME GossipAssumption ==
  /\ {N, RING_K, Timeout} \subseteq Nat \ {0}
  /\ MaxFaults \in Nat

Node == 1 .. N
Unknown == -1

VARIABLES
  up,      \* the nodes that run
  age,     \* intervals since n last heard of m, to Timeout; Unknown without a record; 0 of itself
  ticked,  \* the nodes whose tick thread has done its tick of this interval
  faults   \* crashes and lost messages so far

vars == <<up, age, ticked, faults>>

(* Everything is of its type; only nodes that run have done their tick. *)
TypeOK ==
  /\ up \subseteq Node /\ ticked \subseteq up
  /\ age \in [Node -> [Node -> Unknown .. Timeout]]
  /\ faults \in 0 .. MaxFaults

Knows(n) == {m \in Node : age[n][m] # Unknown}
Fresh(n, m) == age[n][m] \in 0 .. Timeout - 1

(* KarmazynCluster.__init__: it knows itself. *)
Newborn(n) == [m \in Node |-> IF m = n THEN 0 ELSE Unknown]

Init ==
  /\ up = Node
  /\ age = [n \in Node |-> Newborn(n)]
  /\ ticked = {} /\ faults = 0

Faults(k) == faults' = faults + k /\ faults' <= MaxFaults

-----------------------------------------------------------------------------
(* Mutant of SelectPeers: the node itself takes up a place. *)
SelectWithSelf(n) ==
  LET live == {m \in Node : Fresh(n, m)}
  IN {m \in live : Cardinality({l \in live : l < m}) < RING_K} \ {n}
(* _select_peers: of the nodes that are not stale the first RING_K. *)
SelectPeers(n) ==
  LET live == {m \in Node \ {n} : Fresh(n, m)}
  IN {m \in live : Cardinality({l \in live : l < m}) < RING_K}

(* Mutant of Heard: only heartbeats of known nodes count. *)
HeardKnown(n, at) ==
  age' = [m \in Node |-> IF m \in at /\ n \in Knows(m) THEN [age[m] EXCEPT ![n] = 0] ELSE age[m]]
(* _on_heartbeat of n at those nodes: the record is made if there is none. *)
Heard(n, at) ==
  age' = [m \in Node |-> IF m \in at THEN [age[m] EXCEPT ![n] = 0] ELSE age[m]]

(* A pass of _tick_loop: the heartbeats that are not lost, or refused by a *)
(* node that is down, are handled.  A pass that ends in an exception (the  *)
(* records are gone through without a lock, and a handler may add one just *)
(* then) is one all of whose heartbeats are lost.                          *)
Tick(n) ==
  /\ n \in up \ ticked
  /\ ticked' = ticked \cup {n}
  /\ LET sent == SelectPeers(n) \cap up
     IN \E lost \in SUBSET sent : Faults(Cardinality(lost)) /\ Heard(n, sent \ lost)
  /\ UNCHANGED up

(* Mutant of Learn: what is on the list counts as heard of. *)
LearnAll(n, list) == [m \in Node |-> IF m \in list \ {n} THEN 0 ELSE age[n][m]]
(* Nodes on the list that are not known are taken as heard of just now,    *)
(* whatever the other has last heard of them.                              *)
Learn(n, list) == [m \in Node |-> IF m \in list \ Knows(n) THEN 0 ELSE age[n][m]]

(* join of n at m: _on_join, and the list of the nodes m knows, itself and *)
(* n among them.  The answer may be lost.                                  *)
Join(n, m) ==
  /\ {n, m} \subseteq up /\ n # m
  /\ \/ age' = [age EXCEPT ![n] = Learn(n, Knows(m)), ![m][n] = 0] /\ UNCHANGED faults
     \/ Heard(n, {m}) /\ Faults(1)
  /\ UNCHANGED <<up, ticked>>

Older(n, m) == IF Fresh(n, m) THEN age[n][m] + 1 ELSE age[n][m]

(* An interval has passed: each tick thread has done its tick. *)
Pass ==
  /\ ticked = up
  /\ ticked' = {}
  /\ age' = [n \in Node |-> [m \in Node |->
               IF n \in up /\ m \in Knows(n) \ {n} THEN Older(n, m) ELSE age[n][m]]]
  /\ UNCHANGED <<up, faults>>

(* A node is stopped, or lost with its machine, and started anew.          *)
Crash(n) ==
  /\ n \in up /\ Faults(1)
  /\ up' = up \ {n} /\ ticked' = ticked \ {n}
  /\ UNCHANGED age

Start(n) ==
  /\ n \notin up
  /\ up' = up \cup {n}
  /\ age' = [age EXCEPT ![n] = Newborn(n)]
  /\ UNCHANGED <<ticked, faults>>

Next ==
  \/ Pass
  \/ \E n \in Node : Tick(n) \/ Crash(n) \/ Start(n)
  \/ \E n, m \in Node : Join(n, m)

(* Tick threads run and time passes; nobody has to join or to start.       *)
Fairness ==
  /\ WF_vars(Pass)
  /\ \A n \in Node : WF_vars(Tick(n))

Spec == Init /\ [][Next]_vars /\ Fairness

-----------------------------------------------------------------------------
(* Properties *)

Quiet == faults = MaxFaults

(* Each of these is among the first RING_K others for every other of them, *)
(* whoever else there is; a node with a greater id is chosen by nobody     *)
(* whose records of RING_K of these are fresh.                             *)
Core == {n \in Node : n <= RING_K + 1}

(* While no node was stopped and no message lost, no core node takes       *)
(* another for offline (a record goes stale after NODE_TIMEOUT_SEC without *)
(* a heartbeat), however many nodes share the cluster: the truncation to   *)
(* RING_K drops none of them, and their heartbeats outrun the timeout.     *)
NoFalseOffline == faults = 0 => \A n \in Core : \A m \in Core \cap Knows(n) : Fresh(n, m)

(* Gossip is eventually consistent for two core nodes: once one that has   *)
(* heard of the other of late comes to its tick, and no more is lost, the  *)
(* two know each other from some moment on.                                *)
WillTell(n, m) == n \notin ticked /\ Fresh(n, m)

BothKnow ==
  \A n \in Core : \A m \in Core \cap 1 .. n - 1 :
    [](Quiet /\ {n, m} \subseteq up /\ (WillTell(n, m) \/ WillTell(m, n))
        => <>[](Fresh(n, m) /\ Fresh(m, n)))

(* A node that was stopped and stays so is stale in the end in every       *)
(* record of it, though a node that joins takes the list it is given for   *)
(* news of those on it.                                                    *)
GoneIsNoticed ==
  \A m \in Node : <>[](m \notin up) => <>[](\A n \in up : ~Fresh(n, m))
=============================================================================
