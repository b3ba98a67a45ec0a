---------------------------- MODULE GossipProofs ----------------------------
(***************************************************************************)
(* Proofs about Gossip for every number of nodes and every RING_K: while   *)
(* nothing is lost and no node stopped, heartbeats reach every core node   *)
(* that needs them, whoever else is in the cluster, if a record lasts      *)
(* three intervals.                                                        *)
(***************************************************************************)
EXTENDS Gossip, TLAPS, FiniteSetTheorems

USE GossipAssumption

LastsLong == Timeout >= 3

(* How old n's record of m may be.  If the two know each other, m sends    *)
(* its heartbeat in every interval; if m does not know n yet, n's own      *)
(* heartbeat of this interval is still to come, and m will know n by it.   *)
RecentPair(n, m) ==
  age[n][m] # Unknown =>
    IF age[m][n] # Unknown
      THEN age[n][m] <= 2 /\ (m \in ticked => age[n][m] <= 1)
      ELSE age[n][m] <= 1 /\ (n \in ticked => age[n][m] = 0)

Recent ==
  /\ up = Node
  /\ \A n \in Node : age[n][n] = 0
  /\ \A n, m \in Core : n # m => RecentPair(n, m)

GossipInv == TypeOK /\ (faults = 0 => Recent)

-----------------------------------------------------------------------------
(* A step that keeps faults at 0 comes from a state where it is 0, and     *)
(* loses no message.                                                       *)
LEMMA NothingLost ==
  ASSUME TypeOK, NEW k \in Nat, Faults(k), faults' = 0
  PROVE  faults = 0 /\ k = 0
BY DEF Faults, TypeOK

LEMMA CoreNodes == Core \subseteq Node
BY DEF Core

LEMMA OneLess ==
  ASSUME NEW D, IsFiniteSet(D), NEW x \in D, NEW S \in SUBSET (D \ {x})
  PROVE  Cardinality(S) < Cardinality(D)
<1>1. IsFiniteSet(D \ {x}) /\ Cardinality(D \ {x}) = Cardinality(D) - 1
  BY FS_RemoveElement
<1>2. IsFiniteSet(S) /\ Cardinality(S) <= Cardinality(D \ {x})
  BY <1>1, FS_Subset
<1>3. Cardinality(S) \in Nat /\ Cardinality(D) \in Nat
  BY <1>2, FS_CardinalityType
<1>4. QED
  BY <1>1, <1>2, <1>3

(* Fewer than RING_K nodes, but for n, come before a core node m.          *)
LEMMA FewBefore ==
  ASSUME NEW n \in Core, NEW m \in Core, n # m, NEW S \in SUBSET {l \in Node \ {n} : l < m}
  PROVE  Cardinality(S) < RING_K
<1>1. n \in 1 .. N /\ m \in 1 .. N /\ n <= RING_K + 1 /\ m <= RING_K + 1
  BY DEF Core, Node
<1>2. RING_K \in Nat /\ IsFiniteSet(1 .. RING_K) /\ Cardinality(1 .. RING_K) = RING_K
  BY FS_Interval
<1>3. \A l \in S : l \in 1 .. N /\ l < m /\ l # n
  BY DEF Node
<1>4. PICK x \in 1 .. RING_K : S \in SUBSET ((1 .. RING_K) \ {x})
  <2>1. CASE m <= RING_K
    <3>1. m \in 1 .. RING_K /\ \A l \in S : l \in 1 .. RING_K /\ l # m
      BY <1>2, <1>1, <1>3, <2>1
    <3>2. QED
      BY <3>1
  <2>2. CASE m = RING_K + 1
    <3>1. n \in 1 .. RING_K /\ \A l \in S : l \in 1 .. RING_K /\ l # n
      BY <1>2, <1>1, <1>3, <2>2
    <3>2. QED
      BY <3>1
  <2>3. QED
    BY <1>1, <1>2, <2>1, <2>2
<1>5. Cardinality(S) < Cardinality(1 .. RING_K)
  BY <1>2, <1>4, OneLess
<1>6. QED
  BY <1>2, <1>5

(* A tick of a core node whose records of the core are fresh goes to all   *)
(* of it that it knows, however many nodes it knows besides.               *)
LEMMA CoreSelected ==
  ASSUME LastsLong, TypeOK, Recent, NEW n \in Core, NEW m \in Core, n # m, age[n][m] # Unknown
  PROVE  m \in SelectPeers(n)
<1> DEFINE live == {l \in Node \ {n} : Fresh(n, l)}
           before == {l \in live : l < m}
<1>1. age[n][m] \in Unknown .. Timeout /\ m \in Node
  BY DEF TypeOK, Core
<1>2. age[n][m] <= 2
  BY <1>1 DEF Recent, RecentPair, Unknown
<1>3. m \in live
  BY <1>1, <1>2 DEF Fresh, LastsLong, Unknown
<1>4. before \in SUBSET {l \in Node \ {n} : l < m}
  OBVIOUS
<1>5. Cardinality(before) < RING_K
  BY <1>4, FewBefore
<1>6. QED
  BY <1>3, <1>5 DEF SelectPeers

(* With no fault the heartbeats of a tick reach all of the core that a     *)
(* core node knows.                                                        *)
LEMMA TickReaches ==
  ASSUME LastsLong, TypeOK, Recent, NEW n \in Node, Tick(n), faults' = 0
  PROVE  \E at \in SUBSET Node :
           /\ n \in Core => \A m \in Core \ {n} : age[n][m] # Unknown => m \in at
           /\ n \notin at
           /\ Heard(n, at)
<1> DEFINE sent == SelectPeers(n) \cap up
<1>1. PICK lost \in SUBSET sent : Faults(Cardinality(lost)) /\ Heard(n, sent \ lost)
  BY DEF Tick
<1>2. sent \in SUBSET Node /\ n \notin sent
  BY DEF SelectPeers
<1>3. IsFiniteSet(Node)
  BY FS_Interval DEF Node
<1>4. IsFiniteSet(lost)
  BY <1>2, <1>3, FS_Subset
<1>5. Cardinality(lost) \in Nat
  BY <1>4, FS_CardinalityType
<1>6. Cardinality(lost) = 0
  BY <1>1, <1>5, NothingLost
<1>7. lost = {}
  BY <1>4, <1>6, FS_EmptySet
<1>8. Heard(n, sent)
  BY <1>1, <1>7
<1>9. n \in Core => \A m \in Core \ {n} : age[n][m] # Unknown => m \in sent
  BY CoreSelected DEF Recent, Core
<1>10. QED
  BY <1>2, <1>8, <1>9

-----------------------------------------------------------------------------
(* Every variable keeps its type. *)

LEMMA HeardType ==
  ASSUME TypeOK, NEW n \in Node, NEW at, Heard(n, at)
  PROVE  age' \in [Node -> [Node -> Unknown .. Timeout]]
BY DEF TypeOK, Heard, Unknown

LEMMA LearnType ==
  ASSUME TypeOK, NEW n \in Node, NEW l
  PROVE  Learn(n, l) \in [Node -> Unknown .. Timeout]
BY DEF TypeOK, Learn, Unknown

LEMMA FaultsType ==
  ASSUME TypeOK, NEW k \in Nat, Faults(k)
  PROVE  faults' \in 0 .. MaxFaults
BY DEF TypeOK, Faults

LEMMA TypeStep ==
  ASSUME TypeOK, [Next]_vars
  PROVE  TypeOK'
<1>1. CASE Pass
  <2>1. age' \in [Node -> [Node -> Unknown .. Timeout]]
    BY <1>1 DEF Pass, TypeOK, Older, Fresh, Unknown
  <2>2. QED
    BY <1>1, <2>1 DEF Pass, TypeOK
<1>2. ASSUME NEW n \in Node, Tick(n) PROVE TypeOK'
  <2>1. PICK lost \in SUBSET (SelectPeers(n) \cap up) :
          Faults(Cardinality(lost)) /\ Heard(n, (SelectPeers(n) \cap up) \ lost)
    BY <1>2 DEF Tick
  <2>2. IsFiniteSet(Node)
    BY FS_Interval DEF Node
  <2>3. IsFiniteSet(lost)
    BY <2>2, FS_Subset DEF SelectPeers
  <2>4. faults' \in 0 .. MaxFaults
    BY <2>1, <2>3, FS_CardinalityType, FaultsType
  <2>5. age' \in [Node -> [Node -> Unknown .. Timeout]]
    BY <2>1, HeardType
  <2>6. QED
    BY <1>2, <2>4, <2>5 DEF Tick, TypeOK
<1>3. ASSUME NEW n \in Node, Crash(n) PROVE TypeOK'
  BY <1>3, FaultsType DEF Crash, TypeOK
<1>4. ASSUME NEW n \in Node, Start(n) PROVE TypeOK'
  BY <1>4 DEF Start, TypeOK, Newborn, Unknown
<1>5. ASSUME NEW n \in Node, NEW m \in Node, Join(n, m) PROVE TypeOK'
  <2>1. CASE age' = [age EXCEPT ![n] = Learn(n, Knows(m)), ![m][n] = 0] /\ UNCHANGED faults
    <3>1. Learn(n, Knows(m)) \in [Node -> Unknown .. Timeout]
      BY LearnType
    <3>2. age' \in [Node -> [Node -> Unknown .. Timeout]]
      BY <2>1, <3>1 DEF TypeOK, Unknown
    <3>3. QED
      BY <1>5, <2>1, <3>2 DEF Join, TypeOK
  <2>2. CASE Heard(n, {m}) /\ Faults(1)
    BY <1>5, <2>2, HeardType, FaultsType DEF Join, TypeOK
  <2>3. QED
    BY <1>5, <2>1, <2>2 DEF Join
<1>6. CASE UNCHANGED vars
  BY <1>6 DEF vars, TypeOK
<1>7. QED
  BY <1>1, <1>2, <1>3, <1>4, <1>5, <1>6 DEF Next

(* Gossip keeps its types, whatever is lost and whoever is stopped.        *)
THEOREM GossipTypes == Spec => []TypeOK
<1>1. Init => TypeOK
  BY DEF Init, TypeOK, Newborn, Unknown
<1>2. TypeOK /\ [Next]_vars => TypeOK'
  BY TypeStep
<1>3. QED
  BY <1>1, <1>2, PTL DEF Spec

-----------------------------------------------------------------------------
(* While there is no fault, records stay recent. *)

(* Every tick thread has done its tick, so no record that is a tick behind *)
(* is left: of those that are one interval old and mutual none is older,   *)
(* and of those that are not mutual none is old.                           *)
LEMMA PassRecent ==
  ASSUME LastsLong, TypeOK, Recent, Pass
  PROVE  Recent'
<1>1. age' = [n \in Node |-> [m \in Node |->
               IF n \in up /\ m \in Knows(n) \ {n} THEN Older(n, m) ELSE age[n][m]]]
  BY DEF Pass
<1>2. \A n, m \in Core : n # m /\ age[n][m] # Unknown =>
         age[n][m] \in Nat /\ age[n][m] <= 2 /\ age'[n][m] = age[n][m] + 1
  <2>1. SUFFICES ASSUME NEW n \in Core, NEW m \in Core, n # m, age[n][m] # Unknown
                 PROVE  age[n][m] \in Nat /\ age[n][m] <= 2 /\ age'[n][m] = age[n][m] + 1
    OBVIOUS
  <2> n \in Node /\ m \in Node
    BY CoreNodes
  <2>2. age[n][m] \in Nat
    BY <2>1 DEF TypeOK, Unknown
  <2>3. age[n][m] <= 2
    BY <2>1, <2>2 DEF Recent, RecentPair
  <2>4. Fresh(n, m)
    BY <2>2, <2>3 DEF Fresh, LastsLong
  <2>5. QED
    BY <1>1, <2>1, <2>2, <2>3, <2>4 DEF Older, Knows, Recent
<1>3. \A n, m \in Node : age[n][m] = Unknown => age'[n][m] = Unknown
  BY <1>1 DEF Knows
<1>4. \A n \in Node : age'[n][n] = 0
  BY <1>1 DEF Recent
<1>5. up' = Node /\ ticked' = {} /\ ticked = Node
  BY DEF Pass, Recent
<1>6. ASSUME NEW n \in Core, NEW m \in Core, n # m PROVE RecentPair(n, m)'
  <2> n \in Node /\ m \in Node
    BY CoreNodes
  <2>1. CASE age[n][m] = Unknown
    BY <1>3, <2>1 DEF RecentPair
  <2>2. CASE age[n][m] # Unknown /\ age[m][n] # Unknown
    <3>1. age[n][m] <= 1
      BY <1>5, <1>6, <2>2 DEF Recent, RecentPair
    <3>2. age'[n][m] <= 2 /\ age'[m][n] # Unknown
      BY <1>2, <1>6, <2>2, <3>1 DEF Unknown
    <3>3. QED
      BY <1>5, <3>2 DEF RecentPair
  <2>3. CASE age[n][m] # Unknown /\ age[m][n] = Unknown
    <3>1. age[n][m] = 0
      BY <1>5, <1>6, <2>3 DEF Recent, RecentPair
    <3>2. age'[n][m] = 1 /\ age'[m][n] = Unknown
      BY <1>2, <1>3, <1>6, <2>3, <3>1
    <3>3. QED
      BY <1>5, <3>2 DEF RecentPair
  <2>4. QED
    BY <2>1, <2>2, <2>3
<1>7. QED
  BY <1>4, <1>5, <1>6 DEF Recent

(* After a tick of a core node all of the core it knows have just heard of *)
(* it; ticks of other nodes are news of those alone.                       *)
LEMMA TickRecent ==
  ASSUME LastsLong, TypeOK, Recent, NEW t \in Node, Tick(t), faults' = 0
  PROVE  Recent'
<1>1. PICK at \in SUBSET Node :
         /\ t \in Core => \A m \in Core \ {t} : age[t][m] # Unknown => m \in at
         /\ t \notin at
         /\ Heard(t, at)
  BY TickReaches
<1>2. \A n, m \in Node : age'[n][m] = IF n \in at /\ m = t THEN 0 ELSE age[n][m]
  BY <1>1 DEF Heard, TypeOK
<1>3. up' = Node /\ ticked' = ticked \cup {t}
  BY DEF Tick, Recent
<1>4. \A n \in Node : age'[n][n] = 0
  BY <1>1, <1>2 DEF Recent
<1>5. ASSUME NEW n \in Core, NEW m \in Core, n # m PROVE RecentPair(n, m)'
  <2> n \in Node /\ m \in Node
    BY CoreNodes
  <2>1. age[n][m] \in Unknown .. Timeout /\ age[m][n] \in Unknown .. Timeout
    BY DEF TypeOK
  <2>2. RecentPair(n, m)
    BY <1>5 DEF Recent
  <2>3. CASE m = t /\ n \in at
    BY <1>1, <1>2, <1>3, <2>3 DEF RecentPair, Unknown
  <2>4. CASE n = t
    BY <1>1, <1>2, <1>3, <1>5, <2>1, <2>2, <2>4 DEF RecentPair, Unknown
  <2>5. CASE m = t /\ n \notin at
    BY <1>1, <1>2, <1>3, <1>5, <2>1, <2>2, <2>5 DEF RecentPair, Unknown
  <2>6. CASE n # t /\ m # t
    BY <1>2, <1>3, <2>1, <2>2, <2>6 DEF RecentPair, Unknown
  <2>7. QED
    BY <2>3, <2>4, <2>5, <2>6
<1>6. QED
  BY <1>3, <1>4, <1>5 DEF Recent

(* A join adds news of this moment and takes none away. *)
LEMMA JoinRecent ==
  ASSUME TypeOK, Recent, NEW j \in Node, NEW k \in Node, Join(j, k), faults = 0, faults' = 0
  PROVE  Recent'
<1>1. age' = [age EXCEPT ![j] = Learn(j, Knows(k)), ![k][j] = 0] /\ j # k
  BY DEF Join, Faults
<1>2. up' = Node /\ ticked' = ticked
  BY DEF Join, Recent
<1>3. \A n, m \in Node : age[n][m] \in Unknown .. Timeout
  BY DEF TypeOK
<1>4. \A n, m \in Node : age'[n][m] \in {0, age[n][m]}
  BY <1>1 DEF TypeOK, Learn
<1>5. \A n, m \in Node : age[n][m] # Unknown /\ ~(n = k /\ m = j) => age'[n][m] = age[n][m]
  BY <1>1 DEF TypeOK, Learn, Knows
<1>6. \A n \in Node : age'[n][n] = 0
  BY <1>4 DEF Recent
<1>7. ASSUME NEW n \in Core, NEW m \in Core, n # m PROVE RecentPair(n, m)'
  <2> n \in Node /\ m \in Node
    BY CoreNodes
  <2>1. RecentPair(n, m)
    BY <1>7 DEF Recent
  <2>2. CASE age'[n][m] = 0
    BY <2>2 DEF RecentPair, Unknown
  <2>3. CASE age'[n][m] # 0
    <3>1. age'[n][m] = age[n][m]
      BY <1>4, <2>3
    <3>2. age[m][n] # Unknown => age'[m][n] # Unknown
      BY <1>4 DEF Unknown
    <3>3. QED
      BY <1>2, <1>3, <2>1, <3>1, <3>2 DEF RecentPair, Unknown
  <2>4. QED
    BY <2>2, <2>3
<1>8. QED
  BY <1>2, <1>6, <1>7 DEF Recent

LEMMA GossipStep ==
  ASSUME LastsLong, GossipInv, [Next]_vars
  PROVE  GossipInv'
<1>1. TypeOK /\ TypeOK'
  BY TypeStep DEF GossipInv
<1>2. ASSUME faults' = 0 PROVE Recent'
  <2>1. CASE Pass
    BY <1>1, <1>2, <2>1, PassRecent DEF GossipInv, Pass
  <2>2. ASSUME NEW t \in Node, Tick(t) PROVE Recent'
    <3>1. PICK lost \in SUBSET (SelectPeers(t) \cap up) : Faults(Cardinality(lost))
      BY <2>2 DEF Tick
    <3>2. IsFiniteSet(Node)
      BY FS_Interval DEF Node
    <3>3. IsFiniteSet(lost)
      BY <3>2, FS_Subset DEF SelectPeers
    <3>4. faults = 0
      BY <1>1, <1>2, <3>1, <3>3, FS_CardinalityType, NothingLost
    <3>5. QED
      BY <1>1, <1>2, <2>2, <3>4, TickRecent DEF GossipInv
  <2>3. ASSUME NEW t \in Node, Crash(t) PROVE FALSE
    BY <1>1, <1>2, <2>3, NothingLost DEF Crash
  <2>4. ASSUME NEW t \in Node, Start(t) PROVE FALSE
    BY <1>2, <2>4 DEF Start, GossipInv, Recent
  <2>5. ASSUME NEW j \in Node, NEW k \in Node, Join(j, k) PROVE Recent'
    <3>1. faults = 0
      BY <1>1, <1>2, <2>5, NothingLost DEF Join
    <3>2. QED
      BY <1>1, <1>2, <2>5, <3>1, JoinRecent DEF GossipInv
  <2>6. CASE UNCHANGED vars
    BY <1>2, <2>6 DEF vars, GossipInv, Recent, RecentPair
  <2>7. QED
    BY <2>1, <2>2, <2>3, <2>4, <2>5, <2>6 DEF Next
<1>3. QED
  BY <1>1, <1>2 DEF GossipInv

(* In a cluster of any size, as long as nothing goes wrong no core node    *)
(* takes another for offline, whatever joins there are and whoever else    *)
(* competes for the RING_K places of a tick.                               *)
THEOREM NobodyFalselyOffline == LastsLong => (Spec => []NoFalseOffline)
<1> SUFFICES ASSUME LastsLong PROVE Spec => []NoFalseOffline
  OBVIOUS
<1>1. Init => GossipInv
  BY DEF Init, GossipInv, TypeOK, Recent, RecentPair, Newborn, Unknown, Core
<1>2. GossipInv /\ [Next]_vars => GossipInv'
  BY GossipStep
<1>3. GossipInv => NoFalseOffline
  <2>1. SUFFICES ASSUME GossipInv, faults = 0, NEW n \in Core, NEW m \in Core \cap Knows(n)
                 PROVE  Fresh(n, m)
    BY DEF NoFalseOffline
  <2>2. n \in Node /\ m \in Node /\ age[n][m] \in Nat
    BY <2>1 DEF Knows, GossipInv, TypeOK, Unknown, Core
  <2>3. age[n][m] <= 2
    BY <2>1, <2>2 DEF GossipInv, Recent, RecentPair, Knows
  <2>4. QED
    BY <2>2, <2>3 DEF Fresh, LastsLong
<1>4. QED
  BY <1>1, <1>2, <1>3, PTL DEF Spec
=============================================================================
