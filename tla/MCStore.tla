------------------------------ MODULE MCStore ------------------------------
(* Instances of Store for TLC: the snapshots and rollbacks they are given. *)
EXTENDS Store, TLC

Entry(t, k) == [t |-> t, tok |-> k]

(* A closure: rooted bubble 1 binds atom 0, whose token is the environment *)
(* bubble 2, which binds the cold atom 1.                                  *)
Closure ==
  [thermal |-> TRUE, nextAtom |-> 1, nextBubble |-> 2,
   atoms |-> (0 :> Entry(TInit, 2)) @@ (1 :> Entry(0, NoToken)),
   bubbles |-> {1, 2},
   parent |-> [b \in BubbleId |-> NoBubble],
   binds |-> [b \in BubbleId |-> [n \in Name |-> IF b <= 2 THEN b - 1 ELSE Unbound]],
   roots |-> {1}]

(* A damaged file: counters behind the ids, a binding to an atom and a     *)
(* root the file does not hold.                                            *)
Damaged ==
  [thermal |-> TRUE, nextAtom |-> 0, nextBubble |-> 0,
   atoms |-> (0 :> Entry(TInit, NoToken)),
   bubbles |-> {1},
   parent |-> [b \in BubbleId |-> NoBubble],
   binds |-> [b \in BubbleId |-> [n \in Name |-> 1]],
   roots |-> {1, 2}]

(* A file whose parents go round in a circle, with the last bubble id, a   *)
(* binding to an atom it does not hold and counters behind the ids.        *)
Cyclic ==
  [thermal |-> TRUE, nextAtom |-> 0, nextBubble |-> 0,
   atoms |-> (0 :> Entry(TInit, NoToken)),
   bubbles |-> {1, 2},
   parent |-> [b \in BubbleId |-> IF b = 1 THEN 2 ELSE 1],
   binds |-> [b \in BubbleId |-> [n \in Name |-> IF b = 1 THEN 1 ELSE 0]],
   roots |-> {1}]

SomeFiles == {Closure, Damaged, Cyclic}

(* The same closure, in the file of a store that does not cool.            *)
TwoClosures == {Closure, [Closure EXCEPT !.thermal = FALSE]}

OneRollback == {(0 :> Entry(0, 1))}

TwoRollbacks == {(1 :> Entry(TInit, NoToken)), (0 :> Entry(0, 1))}

Symmetry == Permutations(Ticker)
=============================================================================
