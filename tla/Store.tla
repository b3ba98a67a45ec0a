------------------------------- MODULE Store -------------------------------
(***************************************************************************)
(* The concurrent Store of native/karmazyn_substrate/src/store.rs.  One    *)
(* mutex guards the data of Substrate, but a tick and a decay release it   *)
(* while they walk, because the guest's hooks call back into the Store:    *)
(*                                                                         *)
(*   tick:   begin (snapshot) -- walk, unlocked -- apply -- end            *)
(*   decay:  list ids -- cool -- snapshot -- walk, unlocked -- refresh     *)
(*                                                                         *)
(* Any other call may take the mutex between two of these steps.  reach_gen *)
(* is what keeps a tick from reaping on a walk that has gone stale.        *)
(***************************************************************************)
EXTENDS Substrate

CONSTANTS
  Ticker,   \* threads that call tick
  Cooler,   \* threads that call decay_ticks
  Pinnable, \* atoms the guest may hold in its frames (extra_reach)
  MayPanic, \* may a guest hook panic
  MaxGen    \* bound: changes of reach_gen in a run

ASSUME StoreAssumption ==
  /\ Ticker \cap Cooler = {}
  /\ Pinnable \subseteq AtomId
  /\ MayPanic \in BOOLEAN
  /\ MaxGen \in Nat

VARIABLES
  ticking,    \* Inner.ticking
  reachGen,   \* Inner.reach_gen
  extraHook,  \* is an extra_reach hook registered
  pins,       \* what the hook answers: the atoms in the guest's frames
  pc,         \* the step each thread is about to take
  snap        \* the ReachSnap a thread holds, with its walk's result

hooks == <<extraHook, pins>>
calls == <<pc, snap>>
vars == <<data, ticking, reachGen, hooks, calls>>

Thread == Ticker \cup Cooler
TickPC == {"walk", "apply", "end"}
CoolPC == {"cool", "resnap", "rewalk", "refresh"}

(* ids: the atoms a decay was asked to cool. held: history of the pins that *)
(* have been in the guest's frames, with the hook registered, since the    *)
(* snapshot.                                                               *)
SnapType == [gen : 0 .. MaxGen, reach : SUBSET AtomId, extra : BOOLEAN,
             ids : SUBSET AtomId, held : SUBSET AtomId]
NoSnap == [gen |-> 0, reach |-> {}, extra |-> FALSE, ids |-> {}, held |-> {}]

(* Every variable of the store ranges over its type. *)
TypeOK ==
  /\ DataTypeOK
  /\ ticking \in BOOLEAN
  /\ reachGen \in 0 .. MaxGen
  /\ extraHook \in BOOLEAN
  /\ pins \subseteq Pinnable
  /\ pc \in [Thread -> {"idle"} \cup TickPC \cup CoolPC]
  /\ snap \in [Thread -> SnapType]

Init ==
  /\ DataInit
  /\ ticking = FALSE
  /\ reachGen = 0
  /\ extraHook = FALSE
  /\ pins = {}
  /\ pc = [t \in Thread |-> "idle"]
  /\ snap = [t \in Thread |-> NoSnap]

-----------------------------------------------------------------------------
(* touch_reach, and the operations that call it. MaxGen bounds them. *)
TouchReach ==
  /\ reachGen < MaxGen
  /\ reachGen' = reachGen + 1

(* An operation that may add reachability and says so. *)
Loud(op) == op /\ TouchReach /\ UNCHANGED <<ticking, hooks, calls>>

(* An operation that leaves reach_gen alone. *)
Quiet(op) == op /\ UNCHANGED <<ticking, reachGen, hooks, calls>>

NewAtom ==
  \E t \in {TInit, 0} : Quiet(AtomNew(t))

ChangeAtom ==
  \E a \in AtomId :
    \/ \E k \in Token : Loud(AtomSetGuest(a, k))
    \/ \E t \in {TInit, 0}, k \in Token : Loud(AtomUpsert(a, t, k))
    \/ Quiet(AtomSetT(a, 0))
    \/ Quiet(Heat(a))
    \/ Quiet(DeleteAtom(a))

Rollback == \E e \in Rollbacks : Loud(RestoreAtoms(e))

NewBubble == \E p \in Token : Quiet(BubbleNew(p))

(* Mutant of ChangeBinding: bind does not touch reach_gen. *)
ChangeBindingQuietly ==
  \E b \in BubbleId, n \in Name :
    \/ \E a \in AtomId : Quiet(Bind(b, n, a))
    \/ Quiet(Unbind(b, n))
    \/ Quiet(Lookup(b, n))

ChangeBinding ==
  \E b \in BubbleId, n \in Name :
    \/ \E a \in AtomId : Loud(Bind(b, n, a))
    \/ Quiet(Unbind(b, n))
    \/ Quiet(Lookup(b, n))

(* Mutant of ChangeRoot: set_root does not touch reach_gen. *)
ChangeRootQuietly == \E b \in BubbleId : Quiet(SetRoot(b) \/ UnsetRoot(b))

ChangeRoot == \E b \in BubbleId : Loud(SetRoot(b)) \/ Quiet(UnsetRoot(b))

ChangeEnvHook == Loud(SetEnvHook(TRUE)) \/ Quiet(SetEnvHook(FALSE))

(* Mutant of Import: it does not touch reach_gen. *)
ImportQuietly ==
  \E s \in Snapshots :
    /\ ImportSnapshot(s)
    /\ ticking' = FALSE
    /\ UNCHANGED <<reachGen, hooks, calls>>

(* import_snapshot clears ticking, whoever is in the middle of a tick. *)
Import ==
  \E s \in Snapshots :
    /\ ImportSnapshot(s)
    /\ TouchReach
    /\ ticking' = FALSE
    /\ UNCHANGED <<hooks, calls>>

(* Pins that stop being held are struck from every tick's history. *)
Forget(gone) == snap' = [t \in Thread |-> [snap[t] EXCEPT !.held = @ \ gone]]

RegisterExtraReach ==
  /\ extraHook' = TRUE
  /\ TouchReach
  /\ UNCHANGED <<data, ticking, pins, calls>>

UnregisterExtraReach ==
  /\ extraHook' = FALSE
  /\ Forget(pins)
  /\ UNCHANGED <<data, ticking, reachGen, pins, pc>>

(* The guest enters and leaves frames; the store is not told. *)
Pin(a) ==
  /\ a \in atoms \cap Pinnable
  /\ pins' = pins \cup {a}
  /\ UNCHANGED <<data, ticking, reachGen, extraHook, calls>>

Unpin(a) ==
  /\ a \in pins
  /\ pins' = pins \ {a}
  /\ Forget({a})
  /\ UNCHANGED <<data, ticking, reachGen, extraHook, pc>>

HookOp ==
  \/ RegisterExtraReach
  \/ UnregisterExtraReach
  \/ \E a \in AtomId : Pin(a) \/ Unpin(a)

-----------------------------------------------------------------------------
(* tick *)

Step(t, from, to) == pc[t] = from /\ pc' = [pc EXCEPT ![t] = to]

(* reach_snap copies roots, bubbles, bindings, tokens and the hooks; what  *)
(* the walk will find in the copy is already settled, except for the pins. *)
TakeSnap(t) ==
  snap' = [snap EXCEPT ![t] =
             [gen   |-> reachGen,
              reach |-> ReachAtoms,
              extra |-> extraHook,
              ids   |-> {},
              held  |-> IF extraHook THEN pins ELSE {}]]

TickBegin(t) ==
  /\ t \in Ticker
  /\ Step(t, "idle", "walk")
  /\ thermal
  /\ ~ ticking
  /\ ticking' = TRUE
  /\ TakeSnap(t)
  /\ UNCHANGED <<data, reachGen, hooks>>

(* Mutant of Walked: the guest is not asked for its frames. *)
WalkedAlone(t) == UNCHANGED snap

(* The extra_reach hook runs outside the mutex and answers for this moment. *)
Walked(t) ==
  snap' = [snap EXCEPT ![t].reach = @ \cup (IF snap[t].extra THEN pins ELSE {})]

TickWalk(t) ==
  /\ Step(t, "walk", "apply")
  /\ Walked(t)
  /\ UNCHANGED <<data, ticking, reachGen, hooks>>

(* Mutant of HookPanics: nothing clears ticking on the way out. *)
HookPanicsForGood(t) ==
  /\ MayPanic
  /\ Step(t, "walk", "idle")
  /\ UNCHANGED <<data, ticking, reachGen, hooks, snap>>

(* A hook that panics unwinds past apply; TickEnd's drop still runs. *)
HookPanics(t) ==
  /\ MayPanic
  /\ Step(t, "walk", "end")
  /\ UNCHANGED <<data, ticking, reachGen, hooks, snap>>

(* Mutants of TickApply: reach_gen is not asked, or any tick is too late.  *)
TickApplyStale(t) ==
  /\ Step(t, "apply", "end")
  /\ ApplyReach(snap[t].reach, TRUE)
  /\ UNCHANGED <<ticking, reachGen, hooks, snap>>

TickApplyNever(t) ==
  /\ Step(t, "apply", "end")
  /\ ApplyReach(snap[t].reach, FALSE)
  /\ UNCHANGED <<ticking, reachGen, hooks, snap>>

TickApply(t) ==
  /\ Step(t, "apply", "end")
  /\ ApplyReach(snap[t].reach, reachGen = snap[t].gen)
  /\ UNCHANGED <<ticking, reachGen, hooks, snap>>

TickEnd(t) ==
  /\ Step(t, "end", "idle")
  /\ ticking' = FALSE
  /\ snap' = [snap EXCEPT ![t] = NoSnap]
  /\ UNCHANGED <<data, reachGen, hooks>>

TickStep(t) == TickBegin(t) \/ TickWalk(t) \/ TickApply(t) \/ TickEnd(t)

-----------------------------------------------------------------------------
(* decay_ticks *)

(* decay_ticks lists every id; decay_to_tick is given ids that a stamp     *)
(* file once listed.                                                       *)
DecayList(t) ==
  /\ t \in Cooler
  /\ Step(t, "idle", "cool")
  /\ \E ids \in SUBSET AtomId : snap' = [snap EXCEPT ![t].ids = ids]
  /\ UNCHANGED <<data, ticking, reachGen, hooks>>

DecayCool(t) ==
  /\ Step(t, "cool", "resnap")
  /\ thermal /\ snap[t].ids # {}
  /\ \E steps \in [snap[t].ids -> 0 .. TMax] : CoolAtoms(steps)
  /\ UNCHANGED <<ticking, reachGen, hooks, snap>>

(* decay_to_tick returns early on a cold store or with nothing to cool. *)
DecayNothing(t) ==
  /\ Step(t, "cool", "idle")
  /\ ~ thermal \/ snap[t].ids = {}
  /\ snap' = [snap EXCEPT ![t] = NoSnap]
  /\ UNCHANGED <<data, ticking, reachGen, hooks>>

DecaySnap(t) ==
  /\ Step(t, "resnap", "rewalk")
  /\ TakeSnap(t)
  /\ UNCHANGED <<data, ticking, reachGen, hooks>>

DecayWalk(t) ==
  /\ Step(t, "rewalk", "refresh")
  /\ Walked(t)
  /\ UNCHANGED <<data, ticking, reachGen, hooks>>

DecayRefresh(t) ==
  /\ Step(t, "refresh", "idle")
  /\ RefreshRetained(snap[t].reach)
  /\ snap' = [snap EXCEPT ![t] = NoSnap]
  /\ UNCHANGED <<ticking, reachGen, hooks>>

(* refresh_retained has no flag to clear: a panic just ends the call. *)
DecayPanics(t) ==
  /\ MayPanic
  /\ Step(t, "rewalk", "idle")
  /\ snap' = [snap EXCEPT ![t] = NoSnap]
  /\ UNCHANGED <<data, ticking, reachGen, hooks>>

DecayStep(t) ==
  \/ DecayList(t) \/ DecayCool(t) \/ DecayNothing(t)
  \/ DecaySnap(t) \/ DecayWalk(t) \/ DecayPanics(t) \/ DecayRefresh(t)

-----------------------------------------------------------------------------
StoreOp ==
  \/ NewAtom \/ ChangeAtom \/ Rollback
  \/ NewBubble \/ ChangeBinding \/ ChangeRoot \/ ChangeEnvHook
  \/ Import \/ HookOp

Next ==
  \/ StoreOp
  \/ \E t \in Thread : TickStep(t) \/ HookPanics(t) \/ DecayStep(t)

Spec == Init /\ [][Next]_vars

(* The epoch loop ticks for ever, and a tick that began runs to its end. *)
FairSpec == Spec /\ \A t \in Ticker : WF_vars(TickStep(t))

-----------------------------------------------------------------------------
(* Properties *)

(* A bubble never names an atom that is gone: every way an atom leaves the *)
(* store (reaping, delete_atom, restore_atoms, import_snapshot) purges the *)
(* bindings to it in the same critical section.                            *)
NoDanglingBinding ==
  \A b \in BubbleId, n \in Name : binds[b][n] \in atoms \cup {Unbound}

(* next_atom is past every id in use until it saturates, whatever ids      *)
(* upsert, restore and import brought in: atom_new overwrites nothing.     *)
FreshAtomId == nextAtom = MaxAtomId \/ \A a \in atoms : a < nextAtom

(* The retained set only lists atoms that are in the store, though ticks   *)
(* and refreshes write it from walks that are out of date.                 *)
RetainedPresent == retained \subseteq atoms

(* So is next_bubble: bubble_new overwrites a bubble only when the ids have *)
(* run out, which a single damaged id of an imported file brings about.    *)
FreshBubbleId == nextBubble = MaxBubbleId \/ \A b \in bubbles : b < nextBubble

(* Roots always name bubbles. A parent or a token does if no caller makes  *)
(* one up and the last import was of a file that holds together.           *)
ReferencesResolve ==
  /\ roots \subseteq bubbles
  /\ intact => /\ \A b \in BubbleId : parent[b] \in bubbles \cup {NoBubble}
               /\ \A a \in AtomId : tok[a] \in bubbles \cup {NoBubble}

(* lookup climbs parents in a loop without a visited set, holding the      *)
(* mutex. While the store is intact it ends, because a parent is older     *)
(* than its children, also after the counter of an imported file is        *)
(* repaired.  A damaged file may bring a cycle of parents, and after the   *)
(* last id a bubble may become its own parent: README, section 3.          *)
ParentsOlder == intact => \A b \in BubbleId : parent[b] < b

(* What the Store keeps is whole, through imports of damaged files and     *)
(* rollbacks in the middle of ticks.                                       *)
StoreSound ==
  NoDanglingBinding /\ FreshAtomId /\ FreshBubbleId /\ ReferencesResolve /\ ParentsOlder

Covers(t) ==
  pc[t] \in {"walk", "apply"} /\ snap[t].gen = reachGen => ReachAtoms \subseteq snap[t].reach

(* While reach_gen has not moved and the store is intact, a walk still     *)
(* covers all that is reached.                                             *)
SnapCovers == \A t \in Thread : snap[t].gen <= reachGen /\ (intact => Covers(t))

(* reach_gen moves whenever an atom becomes reachable: the comment at       *)
(* store.rs:51 and what SnapCovers rests on.                               *)
ReachGenGrowsWithReach ==
  [][intact' => ReachAtoms' \subseteq ReachAtoms \/ reachGen' # reachGen]_vars

(* THE LAW of the collector: a tick never reaps an atom that is reachable  *)
(* at the moment it reaps, whatever was bound, rooted, hooked or imported  *)
(* by other threads while it walked, as long as the store is intact.       *)
ReapStep == \E t \in Thread : TickApply(t)

NeverReapReachable == [][intact /\ ReapStep => ReachAtoms \subseteq atoms']_vars

(* Only a tick's apply, delete_atom, a rollback or an import takes an atom *)
(* away; cooling, refreshing and unbinding never do.                       *)
OnlyCollectionRemoves ==
  [][ \/ ReapStep \/ Rollback \/ Import \/ atoms \subseteq atoms'
      \/ \E a \in AtomId : Quiet(DeleteAtom(a)) ]_vars

(* An atom the guest held in a frame during a whole tick survives it.      *)
HeldPinsSurvive ==
  [][\A t \in Thread : TickApply(t) => snap[t].held \cap atoms \subseteq atoms']_vars

Garbage(a) == thermal /\ a \in atoms \ (ReachAtoms \cup pins) /\ IsDead(temp[a])

PanicStep == \E t \in Thread : HookPanics(t)

(* In a thermal store a cold atom nothing reaches is reaped in the end,    *)
(* unless it is heated or reached again: a hook that panics ends a tick    *)
(* and not the collector (TickEnd's drop, store.rs:186), so it takes       *)
(* panics in every tick from some time on to keep garbage.  MaxGen makes   *)
(* the changes of reach_gen cease, which is what it takes as well.         *)
GarbageIsReaped ==
  ([]<><<PanicStep>>_vars => []<><<ReapStep>>_vars)
    => \A a \in AtomId : Garbage(a) ~> ~ Garbage(a)

Atomic == INSTANCE AtomicStore

(* Splitting the tick is invisible: each step is a step of AtomicStore.    *)
RefinesAtomic == Atomic!AtomicSpec
=============================================================================
