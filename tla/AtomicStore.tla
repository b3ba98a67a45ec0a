---------------------------- MODULE AtomicStore ----------------------------
(***************************************************************************)
(* What the Store promises its callers: every operation is atomic, and a   *)
(* tick collects in one step that sees the data as it is, reaping some of  *)
(* the cold atoms nothing reaches and never one that is reached.  Store    *)
(* splits the tick into a snapshot, a walk outside the mutex and an apply, *)
(* and implements this specification.                                      *)
(***************************************************************************)
EXTENDS Substrate

(* The law: an atom that is reachable now is never reaped while the store   *)
(* is intact, and none in a store that is not thermal.  A tick cools in any case, also when it has  *)
(* gone stale and an import has meanwhile put such a store in its place.   *)
(* How much of the garbage a tick reaps is left open.                      *)
Collect ==
  \E reach \in SUBSET AtomId, reap \in BOOLEAN :
    /\ reap => thermal /\ (intact => ReachAtoms \subseteq reach)
    /\ ApplyReach(reach, reap)

(* decay_ticks: cooling never collects. *)
CoolOnly ==
  \E ids \in SUBSET AtomId : \E steps \in [ids -> 0 .. TMax] : CoolAtoms(steps)

Refresh == \E reach \in SUBSET AtomId : RefreshRetained(reach)

AtomOp ==
  \/ \E t \in Temp : AtomNew(t)
  \/ \E a \in AtomId :
       \/ \E k \in Token : AtomSetGuest(a, k)
       \/ \E t \in Temp : AtomSetT(a, t)
       \/ \E t \in Temp, k \in Token : AtomUpsert(a, t, k)
       \/ Heat(a)
       \/ DeleteAtom(a)
  \/ \E e \in Rollbacks : RestoreAtoms(e)

BubbleOp ==
  \/ \E p \in Token : BubbleNew(p)
  \/ \E b \in BubbleId, n \in Name :
       \/ \E a \in AtomId : Bind(b, n, a)
       \/ Unbind(b, n)
       \/ Lookup(b, n)
  \/ \E b \in BubbleId : SetRoot(b) \/ UnsetRoot(b)
  \/ \E on \in BOOLEAN : SetEnvHook(on)

AtomicNext ==
  \/ AtomOp
  \/ BubbleOp
  \/ \E s \in Snapshots : ImportSnapshot(s)
  \/ Collect
  \/ CoolOnly
  \/ Refresh

AtomicSpec == DataInit /\ [][AtomicNext]_data
=============================================================================
