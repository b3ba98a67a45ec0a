------------------------------- MODULE World -------------------------------
(***************************************************************************)
(* What of a Store the world files of native/karmazyn_kafd keep: a content *)
(* for every document.  A document is an atom, a bubble or the native      *)
(* counters (world_from_snapshot).  A bubble's content is the atom its one *)
(* name is bound to; an atom's is a version of its labels, token and       *)
(* payload; the native counters are next_atom (next_bubble, ticks and      *)
(* reaped are left out).  Temperatures are not content: doc_keys leaves    *)
(* them out.                                                               *)
(***************************************************************************)
EXTENDS Integers

CONSTANTS
  MaxAtomId,  \* bound: atoms a run may allocate
  Bubble,     \* bubbles
  Native,     \* the document of the native counters
  Version,    \* contents an atom may have
  Unbound,    \* a bubble that binds nothing
  Gone        \* a document that does not exist

AtomId == 0 .. MaxAtomId
Doc    == AtomId \cup Bubble \cup {Native}

ASSUME WorldAssumption ==
  /\ MaxAtomId \in Nat
  /\ Native \notin AtomId \cup Bubble
  /\ AtomId \cap Bubble = {}
  /\ Unbound \notin AtomId
  /\ Gone \notin Version \cup AtomId \cup {Unbound}

Contents(d) ==
  IF d \in AtomId THEN Version \cup {Gone}
  ELSE IF d \in Bubble THEN AtomId \cup {Unbound, Gone}
  ELSE 0 .. MaxAtomId + 1

IsWorld(w) == DOMAIN w = Doc /\ \A d \in Doc : w[d] \in Contents(d)

Empty == [d \in Doc |-> IF d = Native THEN 0 ELSE Gone]

Guests == AtomId \cup Bubble  \* the documents whose content guests wrote

Present(w) == {a \in AtomId : w[a] # Gone}

(* Every binding of w names an atom of w. *)
Closed(w) == \A b \in Bubble : w[b] \in AtomId => w[b] \in Present(w)

VARIABLE mem  \* the content of the Store, as export_snapshot gives it

-----------------------------------------------------------------------------
(* What the guests and the collector do to the Store between two saves.    *)

NewAtom(v) ==
  /\ mem[Native] \in AtomId
  /\ mem' = [mem EXCEPT ![mem[Native]] = v, ![Native] = @ + 1]

SetAtom(a, v) == a \in Present(mem) /\ mem' = [mem EXCEPT ![a] = v]

(* Deleted or reaped: the bindings to it go with it. *)
DropAtom(a) ==
  /\ a \in Present(mem)
  /\ mem' = [d \in Doc |-> IF d = a THEN Gone
                          ELSE IF d \in Bubble /\ mem[d] = a THEN Unbound
                          ELSE mem[d]]

NewBubble(b) == mem[b] = Gone /\ mem' = [mem EXCEPT ![b] = Unbound]

Rebind(b, x) ==
  /\ mem[b] # Gone
  /\ x \in Present(mem) \cup {Unbound}
  /\ mem' = [mem EXCEPT ![b] = x]

StoreChanges ==
  \/ \E v \in Version : NewAtom(v)
  \/ \E a \in AtomId : DropAtom(a) \/ \E v \in Version : SetAtom(a, v)
  \/ \E b \in Bubble : NewBubble(b) \/ \E x \in AtomId \cup {Unbound} : Rebind(b, x)
=============================================================================
